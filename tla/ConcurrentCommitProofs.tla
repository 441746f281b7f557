------------------------ MODULE ConcurrentCommitProofs ------------------------
(***************************************************************************)
(* Proofs about transactions that overlap.  What has to be known of each   *)
(* is what the table would be if it committed now; what keeps two of them  *)
(* apart is the row lock and the wait for the partial unique index.        *)
(***************************************************************************)
EXTENDS ConcurrentCommit, MemoryRowsProofs, FiniteSetTheorems, SequenceTheorems

\* The rows a transaction wrote or locked.
Own(x) == DOMAIN x.rows \cup x.locks

Tables == UNION {[S -> Row] : S \in SUBSET MemoryId}

\* Transaction, with the rows that IsTransaction keeps apart.
Tx == [event : Upsert \cup Deletion, stage : Stage, todo : Seq(Claim), owed : Seq(Topic),
       ids : Seq(MemoryId), derived : SUBSET MemoryId,
       current : MemoryId \cup {None, NotAsked, Waiting}, awaited : MemoryId \cup {None},
       locks : SUBSET MemoryId, credits : SUBSET Topic, links : SUBSET MemoryId,
       rows : Tables]

Committing(x) == x.stage \in {"extracting", "resolving"}

Found(x) == x.current \notin {None, NotAsked, Waiting}

\* What the table is if transaction x commits on it now.
After(table, x) == Overlaid(table, x.rows)

\* It is then sound, and nothing of it is rewritten.
Mergeable(table, x) ==
    /\ Sound(After(table, x))
    /\ Extends(table, After(table, x))
    /\ IsFiniteSet(DOMAIN x.rows)

\* Every row a transaction changes is locked, and a link from a row it holds leads to a row it
\* holds: the circles it could close are its own.
Holds(table, x) ==
    /\ x.locks \subseteq DOMAIN After(table, x)
    /\ DOMAIN x.rows \cap DOMAIN table \subseteq x.locks
    /\ \A i \in Own(x) : After(table, x)[i].by \in Own(x) \cup {None}

\* What lockCurrent answered is locked and current; what it waits for is nothing of its own.
Resolves(table, x) ==
    /\ Committing(x) => x.event \in Upsert
    /\ Found(x) => /\ x.todo # <<>> /\ Supersedes(Head(x.todo).kind)
                   /\ x.current \in x.locks
                   /\ x.current \in CurrentFor(After(table, x), Head(x.todo))
    /\ x.current = Waiting => /\ x.todo # <<>> /\ Supersedes(Head(x.todo).kind)
                              /\ x.awaited \notin DOMAIN x.rows

\* A deletion writes nothing but the end of open rows.
Deletes(table, x) ==
    ~Committing(x) =>
        /\ x.event \in Deletion
        /\ x.current = NotAsked
        /\ x.derived \subseteq DOMAIN table
        /\ \A n \in DOMAIN x.ids : x.ids[n] \in DOMAIN table
        /\ \A i \in DOMAIN x.rows :
              /\ i \in DOMAIN table /\ table[i].to = None
              /\ x.rows[i] = [table[i] EXCEPT !.to = x.event.occurred]

Ready(table, x) ==
    Mergeable(table, x) /\ Holds(table, x) /\ Resolves(table, x) /\ Deletes(table, x)

KeysApart(a, b) ==
    \A i \in DOMAIN a, j \in DOMAIN b :
        ~ /\ IsCurrent(a[i]) /\ IsCurrent(b[j])
          /\ SameKey(a[i], b[j]) /\ Supersedes(a[i].kind)

\* Two transactions share no row, and no key under which both have a current memory.
Apart(x, y) == Own(x) \cap Own(y) = {} /\ KeysApart(x.rows, y.rows)

TablesInv ==
    /\ Sound(memories) /\ IsFiniteSet(DOMAIN memories)
    /\ provenance \subseteq MemoryId \X Episode
    /\ episodes \in [Episode -> Document \cup {None}]
    /\ ingested \subseteq Episode
    /\ delivered \in [Upsert \cup Deletion -> 0..MaxDeliver]

Inv ==
    /\ TablesInv
    /\ tx \in [Worker -> Tx \cup {None}]
    /\ \A w \in Worker : Running(w) => tx[w] \in Tx /\ Ready(memories, tx[w])
    /\ \A v, w \in Worker : v # w /\ Running(v) /\ Running(w) => Apart(tx[v], tx[w])

-----------------------------------------------------------------------------
(* Tables laid over one another. *)

\* `result` holds what x wrote and, for the rest, what the table held.
IsAfter(table, x, result) ==
    /\ DOMAIN result = DOMAIN table \cup DOMAIN x.rows
    /\ \A i \in DOMAIN x.rows : result[i] = x.rows[i]
    /\ \A i \in DOMAIN table \ DOMAIN x.rows : result[i] = table[i]

LEMMA TablesAreTables == ASSUME NEW t PROVE t \in Tables <=> IsTable(t)
  BY DEF Tables, IsTable

LEMMA OverlaidFacts ==
    ASSUME NEW table, NEW rows
    PROVE  /\ DOMAIN Overlaid(table, rows) = DOMAIN table \cup DOMAIN rows
           /\ \A i \in DOMAIN rows : Overlaid(table, rows)[i] = rows[i]
           /\ \A i \in DOMAIN table \ DOMAIN rows : Overlaid(table, rows)[i] = table[i]
  BY DEF Overlaid

LEMMA AfterFacts == ASSUME NEW table, NEW x PROVE IsAfter(table, x, After(table, x))
  BY DEF After, Overlaid, IsAfter

\* A transaction that wrote nothing leaves the table as it is.
LEMMA OverlaidNothing ==
    ASSUME NEW table, IsTable(table), NEW rows, DOMAIN rows = {}
    PROVE  Overlaid(table, rows) = table
  BY DEF Overlaid, IsTable

\* One more row written is one more row inserted.
LEMMA OverlaidInsert ==
    ASSUME NEW table, NEW rows, NEW id, NEW row
    PROVE  Overlaid(table, Insert(rows, id, row)) = Insert(Overlaid(table, rows), id, row)
  <1> DEFINE left == Overlaid(table, Insert(rows, id, row))
             right == Insert(Overlaid(table, rows), id, row)
  <1>1. DOMAIN left = DOMAIN right
    BY DEF Overlaid, Insert
  <1>2. \A i \in DOMAIN left : left[i] = right[i]
    BY DEF Overlaid, Insert
  <1>3. QED
    BY <1>1, <1>2 DEF Overlaid, Insert

-----------------------------------------------------------------------------
(* One transaction commits beside another. *)

LEMMA ApartSymmetric == ASSUME NEW x, NEW y, Apart(x, y) PROVE Apart(y, x)
  BY DEF Apart, KeysApart, SameKey

IsMerge(table, x, y, merged) ==
    /\ DOMAIN merged = DOMAIN After(table, x) \cup DOMAIN After(table, y)
    /\ \A i \in DOMAIN After(table, x) \ DOMAIN y.rows : merged[i] = After(table, x)[i]
    /\ \A i \in DOMAIN After(table, y) \ DOMAIN x.rows : merged[i] = After(table, y)[i]
    /\ DOMAIN x.rows \cap DOMAIN y.rows = {}

\* The table both leave behind holds what each of them leaves behind.
LEMMA MergedRows ==
    ASSUME NEW table, NEW x, NEW y, Apart(x, y), NEW merged, merged = After(After(table, x), y)
    PROVE  IsMerge(table, x, y, merged)
  <1>1. /\ DOMAIN merged = DOMAIN table \cup DOMAIN x.rows \cup DOMAIN y.rows
        /\ \A i \in DOMAIN y.rows : merged[i] = y.rows[i]
        /\ \A i \in DOMAIN After(table, x) \ DOMAIN y.rows : merged[i] = After(table, x)[i]
    BY DEF After, Overlaid
  <1>2. IsAfter(table, x, After(table, x)) /\ IsAfter(table, y, After(table, y))
    BY AfterFacts
  <1>3. DOMAIN x.rows \cap DOMAIN y.rows = {}
    BY DEF Apart, Own
  <1>4. QED
    BY <1>1, <1>2, <1>3 DEF IsAfter, IsMerge

LEMMA MergedExtends ==
    ASSUME NEW table, NEW x, NEW y, Apart(x, y), Mergeable(table, x), Mergeable(table, y),
           NEW merged, merged = After(After(table, x), y)
    PROVE  Extends(After(table, x), merged) /\ Extends(After(table, y), merged)
  <1>1. /\ DOMAIN After(table, x) = DOMAIN table \cup DOMAIN x.rows
        /\ \A i \in DOMAIN table \ DOMAIN x.rows : After(table, x)[i] = table[i]
        /\ DOMAIN After(table, y) = DOMAIN table \cup DOMAIN y.rows
        /\ \A i \in DOMAIN table \ DOMAIN y.rows : After(table, y)[i] = table[i]
    <2>1. IsAfter(table, x, After(table, x)) /\ IsAfter(table, y, After(table, y))
      BY AfterFacts
    <2>2. QED
      BY <2>1 DEF IsAfter
  <1>2. /\ DOMAIN merged = DOMAIN After(table, x) \cup DOMAIN After(table, y)
        /\ \A i \in DOMAIN After(table, x) \ DOMAIN y.rows : merged[i] = After(table, x)[i]
        /\ \A i \in DOMAIN After(table, y) \ DOMAIN x.rows : merged[i] = After(table, y)[i]
        /\ DOMAIN x.rows \cap DOMAIN y.rows = {}
    <2>1. IsMerge(table, x, y, merged)
      BY MergedRows
    <2>2. QED
      BY <2>1 DEF IsMerge
  <1>3. Extends(table, After(table, x)) /\ Extends(table, After(table, y))
    BY DEF Mergeable
  <1>4. ASSUME NEW i \in DOMAIN After(table, x)
        PROVE  i \in DOMAIN merged /\ SameMemory(After(table, x)[i], merged[i])
    <2>1. CASE i \in DOMAIN y.rows
      <3>1. i \in DOMAIN table /\ After(table, x)[i] = table[i] /\ merged[i] = After(table, y)[i]
        BY <1>1, <1>2, <1>4, <2>1
      <3>2. QED
        BY <1>2, <1>3, <1>4, <3>1 DEF Extends
    <2>2. CASE i \notin DOMAIN y.rows
      BY <1>2, <1>4, <2>2 DEF SameMemory, SameKey
    <2>3. QED
      BY <2>1, <2>2
  <1>5. ASSUME NEW i \in DOMAIN After(table, y)
        PROVE  i \in DOMAIN merged /\ SameMemory(After(table, y)[i], merged[i])
    <2>1. CASE i \in DOMAIN x.rows
      <3>1. i \in DOMAIN table /\ After(table, y)[i] = table[i] /\ merged[i] = After(table, x)[i]
        BY <1>1, <1>2, <1>5, <2>1
      <3>2. QED
        BY <1>2, <1>3, <1>5, <3>1 DEF Extends
    <2>2. CASE i \notin DOMAIN x.rows
      BY <1>2, <1>5, <2>2 DEF SameMemory, SameKey
    <2>3. QED
      BY <2>1, <2>2
  <1>6. QED
    BY <1>4, <1>5 DEF Extends

LEMMA MergedSchema ==
    ASSUME NEW table, NEW x, NEW y, Apart(x, y), Mergeable(table, x), Mergeable(table, y),
           NEW merged, merged = After(After(table, x), y)
    PROVE  SchemaAccepts(merged)
  <1>1. /\ DOMAIN merged = DOMAIN After(table, x) \cup DOMAIN After(table, y)
        /\ \A i \in DOMAIN After(table, x) \ DOMAIN y.rows : merged[i] = After(table, x)[i]
        /\ \A i \in DOMAIN After(table, y) \ DOMAIN x.rows : merged[i] = After(table, y)[i]
        /\ DOMAIN x.rows \cap DOMAIN y.rows = {}
    <2>1. IsMerge(table, x, y, merged)
      BY MergedRows
    <2>2. QED
      BY <2>1 DEF IsMerge
  <1>2. SchemaAccepts(After(table, x)) /\ SchemaAccepts(After(table, y))
    BY DEF Mergeable, Sound
  <1>3. /\ DOMAIN After(table, x) = DOMAIN table \cup DOMAIN x.rows
        /\ \A i \in DOMAIN x.rows : After(table, x)[i] = x.rows[i]
        /\ DOMAIN After(table, y) = DOMAIN table \cup DOMAIN y.rows
        /\ \A i \in DOMAIN y.rows : After(table, y)[i] = y.rows[i]
    <2>1. IsAfter(table, x, After(table, x)) /\ IsAfter(table, y, After(table, y))
      BY AfterFacts
    <2>2. QED
      BY <2>1 DEF IsAfter
  <1>4. \A i \in DOMAIN merged :
          \/ i \in DOMAIN After(table, x) \ DOMAIN y.rows
          \/ i \in DOMAIN After(table, y) \ DOMAIN x.rows
    BY <1>1, <1>3
  <1>5. memories_interval_ck(merged)
    BY <1>1, <1>2, <1>4 DEF SchemaAccepts, memories_interval_ck
  <1>6. memories_supersede_ck(merged)
    BY <1>1, <1>2, <1>4 DEF SchemaAccepts, memories_supersede_ck
  <1>7. superseded_by_fk(merged)
    BY <1>1, <1>2, <1>4 DEF SchemaAccepts, superseded_by_fk
  <1>8. memories_current_topic_uidx(merged)
    <2>1. SUFFICES ASSUME NEW i \in DOMAIN merged, NEW j \in DOMAIN merged,
                          IsCurrent(merged[i]), IsCurrent(merged[j]),
                          SameKey(merged[i], merged[j]), Supersedes(merged[i].kind)
                   PROVE  i = j
      BY DEF memories_current_topic_uidx
    <2>2. CASE i \notin DOMAIN y.rows /\ j \notin DOMAIN y.rows
      <3>1. /\ i \in DOMAIN After(table, x) /\ merged[i] = After(table, x)[i]
            /\ j \in DOMAIN After(table, x) /\ merged[j] = After(table, x)[j]
        BY <1>1, <1>3, <2>2
      <3>2. QED
        BY <1>2, <2>1, <3>1 DEF SchemaAccepts, memories_current_topic_uidx
    <2>3. CASE i \notin DOMAIN x.rows /\ j \notin DOMAIN x.rows
      <3>1. /\ i \in DOMAIN After(table, y) /\ merged[i] = After(table, y)[i]
            /\ j \in DOMAIN After(table, y) /\ merged[j] = After(table, y)[j]
        BY <1>1, <1>3, <2>3
      <3>2. QED
        BY <1>2, <2>1, <3>1 DEF SchemaAccepts, memories_current_topic_uidx
    <2>4. ASSUME NEW k \in DOMAIN x.rows, NEW l \in DOMAIN y.rows,
                 {k, l} = {i, j}
          PROVE  FALSE
      <3>1. merged[k] = x.rows[k] /\ merged[l] = y.rows[l]
        BY <1>1, <1>3
      <3>2. /\ IsCurrent(merged[k]) /\ IsCurrent(merged[l])
            /\ SameKey(merged[k], merged[l]) /\ Supersedes(merged[k].kind)
        BY <2>1, <2>4 DEF SameKey
      <3>3. QED
        BY <3>1, <3>2 DEF Apart, KeysApart
    <2>5. QED
      BY <1>1, <2>2, <2>3, <2>4
  <1>9. QED
    BY <1>5, <1>6, <1>7, <1>8 DEF SchemaAccepts

LEMMA MergedGapless ==
    ASSUME NEW table, NEW x, NEW y, Apart(x, y), Mergeable(table, x), Mergeable(table, y),
           NEW merged, merged = After(After(table, x), y)
    PROVE  Gapless(merged)
  <1>1. /\ DOMAIN merged = DOMAIN After(table, x) \cup DOMAIN After(table, y)
        /\ \A i \in DOMAIN After(table, x) \ DOMAIN y.rows : merged[i] = After(table, x)[i]
        /\ \A i \in DOMAIN After(table, y) \ DOMAIN x.rows : merged[i] = After(table, y)[i]
        /\ DOMAIN x.rows \cap DOMAIN y.rows = {}
    <2>1. IsMerge(table, x, y, merged)
      BY MergedRows
    <2>2. QED
      BY <2>1 DEF IsMerge
  <1>2. /\ DOMAIN After(table, x) = DOMAIN table \cup DOMAIN x.rows
        /\ DOMAIN After(table, y) = DOMAIN table \cup DOMAIN y.rows
    <2>1. IsAfter(table, x, After(table, x)) /\ IsAfter(table, y, After(table, y))
      BY AfterFacts
    <2>2. QED
      BY <2>1 DEF IsAfter
  <1>3. SUFFICES ASSUME NEW i \in DOMAIN merged, merged[i].by # None, Supersedes(merged[i].kind)
                 PROVE  /\ SameKey(merged[merged[i].by], merged[i])
                        /\ merged[merged[i].by].from = merged[i].to
    BY DEF Gapless
  <1>4. ASSUME NEW t, Sound(t), Extends(t, merged), i \in DOMAIN t, merged[i] = t[i]
        PROVE  /\ SameKey(merged[merged[i].by], merged[i])
               /\ merged[merged[i].by].from = merged[i].to
    <2> DEFINE j == t[i].by
    <2>1. j \in DOMAIN t /\ SameKey(t[j], t[i]) /\ t[j].from = t[i].to
      BY <1>3, <1>4 DEF Sound, SchemaAccepts, superseded_by_fk, Gapless
    <2>2. SameMemory(t[j], merged[j])
      BY <1>4, <2>1 DEF Extends
    <2>3. QED
      BY <1>4, <2>1, <2>2 DEF SameMemory, SameKey
  <1>5. Extends(After(table, x), merged) /\ Extends(After(table, y), merged)
    BY MergedExtends
  <1>6. Sound(After(table, x)) /\ Sound(After(table, y))
    BY DEF Mergeable
  <1>7. CASE i \notin DOMAIN y.rows
    BY <1>1, <1>2, <1>4, <1>5, <1>6, <1>7
  <1>8. CASE i \notin DOMAIN x.rows
    BY <1>1, <1>2, <1>4, <1>5, <1>6, <1>8
  <1>9. QED
    BY <1>1, <1>7, <1>8

\* A circle would lie in what one of them holds, or in the table both found.
LEMMA MergedWellfounded ==
    ASSUME NEW table, Sound(table), NEW x, NEW y, Apart(x, y),
           Mergeable(table, x), Mergeable(table, y), Holds(table, x), Holds(table, y),
           NEW merged, merged = After(After(table, x), y), IsTable(merged)
    PROVE  Wellfounded(merged)
  <1>1. /\ DOMAIN merged = DOMAIN After(table, x) \cup DOMAIN After(table, y)
        /\ \A i \in DOMAIN After(table, x) \ DOMAIN y.rows : merged[i] = After(table, x)[i]
        /\ \A i \in DOMAIN After(table, y) \ DOMAIN x.rows : merged[i] = After(table, y)[i]
    <2>1. IsMerge(table, x, y, merged)
      BY MergedRows
    <2>2. QED
      BY <2>1 DEF IsMerge
  <1>2. /\ DOMAIN After(table, x) = DOMAIN table \cup DOMAIN x.rows
        /\ \A i \in DOMAIN table \ DOMAIN x.rows : After(table, x)[i] = table[i]
        /\ DOMAIN After(table, y) = DOMAIN table \cup DOMAIN y.rows
    <2>1. IsAfter(table, x, After(table, x)) /\ IsAfter(table, y, After(table, y))
      BY AfterFacts
    <2>2. QED
      BY <2>1 DEF IsAfter
  <1>3. SUFFICES ASSUME NEW S \in SUBSET DOMAIN merged, S # {},
                        \A i \in S : merged[i].by \in S
                 PROVE  FALSE
    BY DEF Wellfounded
  <1>4. None \notin S
    BY NoneIsNoId DEF IsTable
  <1>5. ASSUME NEW t, Wellfounded(t), NEW own, own \subseteq DOMAIN t,
               \A i \in own : merged[i] = t[i] /\ t[i].by \in own \cup {None}
        PROVE  S \cap own = {}
    <2>1. \A i \in S \cap own : t[i].by \in S \cap own
      BY <1>3, <1>4, <1>5
    <2>2. QED
      BY <1>5, <2>1 DEF Wellfounded
  <1>6. S \cap Own(x) = {}
    <2>1. \A i \in Own(x) : i \in DOMAIN After(table, x) /\ i \notin DOMAIN y.rows
      BY <1>2 DEF Apart, Holds, Own
    <2>2. \A i \in Own(x) : After(table, x)[i].by \in Own(x) \cup {None}
      BY DEF Holds
    <2>3. Wellfounded(After(table, x))
      BY DEF Mergeable, Sound
    <2>4. QED
      BY <1>1, <1>5, <2>1, <2>2, <2>3
  <1>7. S \cap Own(y) = {}
    <2>1. \A i \in Own(y) : i \in DOMAIN After(table, y) /\ i \notin DOMAIN x.rows
      BY <1>2 DEF Apart, Holds, Own
    <2>2. \A i \in Own(y) : After(table, y)[i].by \in Own(y) \cup {None}
      BY DEF Holds
    <2>3. Wellfounded(After(table, y))
      BY DEF Mergeable, Sound
    <2>4. QED
      BY <1>1, <1>5, <2>1, <2>2, <2>3
  <1>8. \A i \in S : i \in DOMAIN table /\ merged[i] = table[i]
    BY <1>1, <1>2, <1>6, <1>7 DEF Own
  <1>9. QED
    BY <1>3, <1>8 DEF Sound, Wellfounded

LEMMA MergedSound ==
    ASSUME NEW table, Sound(table), NEW x, NEW y, Apart(x, y), IsTable(x.rows), IsTable(y.rows),
           Mergeable(table, x), Mergeable(table, y), Holds(table, x), Holds(table, y)
    PROVE  Sound(After(After(table, x), y))
  <1> DEFINE merged == After(After(table, x), y)
  <1>1. IsTable(merged)
    BY DEF Sound, IsTable, After, Overlaid
  <1> HIDE DEF merged
  <1>2. merged = After(After(table, x), y)
    BY DEF merged
  <1>3. SchemaAccepts(merged) /\ Gapless(merged)
    BY <1>2, MergedSchema, MergedGapless
  <1>4. Wellfounded(merged)
    BY <1>1, <1>2, MergedWellfounded
  <1>5. QED
    BY <1>1, <1>2, <1>3, <1>4 DEF Sound

\* What one transaction is ready for, it is ready for after the other.
LEMMA MergedReady ==
    ASSUME NEW table, Sound(table), NEW x, NEW y, Apart(x, y), IsTable(x.rows), IsTable(y.rows),
           Ready(table, x), Ready(table, y)
    PROVE  Ready(After(table, x), y)
  <1> DEFINE merged == After(After(table, x), y)
  <1>1. Sound(merged)
    BY MergedSound DEF Ready
  <1> HIDE DEF merged
  <1>2. merged = After(After(table, x), y)
    BY DEF merged
  <1>3. IsMerge(table, x, y, merged)
    BY <1>2, MergedRows
  <1>4. IsAfter(table, x, After(table, x)) /\ IsAfter(table, y, After(table, y))
    BY AfterFacts
  <1>5. \A i \in Own(y) : i \in DOMAIN After(table, y) /\ i \notin DOMAIN x.rows
    BY <1>4 DEF Ready, Holds, Own, Apart, IsAfter
  <1>6. \A i \in Own(y) : i \in DOMAIN merged /\ merged[i] = After(table, y)[i]
    BY <1>3, <1>5 DEF IsMerge
  <1>7. Mergeable(After(table, x), y)
    <2>1. Extends(After(table, x), merged)
      BY <1>2, MergedExtends DEF Ready
    <2>2. QED
      BY <1>1, <1>2, <2>1 DEF Ready, Mergeable
  <1>8. Holds(After(table, x), y)
    <2>1. y.locks \subseteq DOMAIN merged
      BY <1>6 DEF Own
    <2>2. DOMAIN y.rows \cap DOMAIN After(table, x) \subseteq y.locks
      BY <1>4, <1>5 DEF Ready, Holds, IsAfter, Own
    <2>3. \A i \in Own(y) : merged[i].by \in Own(y) \cup {None}
      BY <1>6 DEF Ready, Holds
    <2>4. QED
      BY <1>2, <2>1, <2>2, <2>3 DEF Holds
  <1>9. Resolves(After(table, x), y)
    <2>1. ASSUME Found(y)
          PROVE  y.current \in CurrentFor(merged, Head(y.todo))
      <3>1. y.current \in Own(y) /\ y.current \in CurrentFor(After(table, y), Head(y.todo))
        BY <2>1 DEF Ready, Resolves, Own
      <3>2. QED
        BY <1>6, <3>1 DEF CurrentFor
    <2>2. QED
      BY <1>2, <2>1 DEF Ready, Resolves
  <1>10. Deletes(After(table, x), y)
    <2>1. SUFFICES ASSUME ~Committing(y)
                   PROVE  /\ DOMAIN table \subseteq DOMAIN After(table, x)
                          /\ \A i \in DOMAIN y.rows : After(table, x)[i] = table[i]
      BY DEF Ready, Deletes
    <2>2. \A i \in DOMAIN y.rows : i \in DOMAIN table \ DOMAIN x.rows
      BY <1>5, <2>1 DEF Ready, Deletes, Own
    <2>3. QED
      BY <1>4, <2>2 DEF IsAfter
  <1>11. QED
    BY <1>7, <1>8, <1>9, <1>10 DEF Ready

-----------------------------------------------------------------------------
(* Initial states, and the ways a step changes the state.                  *)

LEMMA EmptyTable == Sound([i \in {} |-> None]) /\ IsFiniteSet({})
  <1> DEFINE t == [i \in {} |-> None]
  <1>1. DOMAIN t = {} /\ IsTable(t)
    BY DEF IsTable
  <1> HIDE DEF t
  <1>2. SchemaAccepts(t)
    BY <1>1 DEF SchemaAccepts, memories_interval_ck, memories_supersede_ck,
                memories_current_topic_uidx, superseded_by_fk
  <1>3. Gapless(t) /\ Wellfounded(t)
    BY <1>1 DEF Gapless, Wellfounded
  <1>4. QED
    BY <1>1, <1>2, <1>3, FS_EmptySet DEF Sound, t

LEMMA InitInv == Init => Inv
  <1> SUFFICES ASSUME Init PROVE Inv
    OBVIOUS
  <1>1. Sound(memories) /\ IsFiniteSet(DOMAIN memories)
    BY EmptyTable DEF Init
  <1>2. delivered \in [Upsert \cup Deletion -> 0..MaxDeliver]
    BY MaxDeliverAssumption DEF Init
  <1>3. \A w \in Worker : ~Running(w)
    BY DEF Init, Running
  <1>4. QED
    BY <1>1, <1>2, <1>3 DEF Init, Inv, TablesInv

LEMMA RunningFacts ==
    ASSUME Inv, NEW w \in Worker, Running(w)
    PROVE  /\ tx[w] \in Tx /\ IsTable(tx[w].rows) /\ Ready(memories, tx[w])
           /\ View(w) = After(memories, tx[w])
           /\ \A v \in Others(w) : tx[v] \in Tx /\ Apart(tx[v], tx[w]) /\ Apart(tx[w], tx[v])
                                   /\ Ready(memories, tx[v])
  <1>1. tx[w] \in Tx /\ Ready(memories, tx[w])
    BY DEF Inv
  <1>2. IsTable(tx[w].rows)
    BY <1>1, TablesAreTables DEF Tx
  <1>3. \A v \in Others(w) : v \in Worker /\ v # w /\ Running(v)
    BY DEF Others
  <1>4. QED
    BY <1>1, <1>2, <1>3 DEF Inv, View, After

\* A transaction goes on, and nobody else sees it.
LEMMA GoesOnInv ==
    ASSUME Inv, NEW w \in Worker, NEW y \in Tx, tx' = [tx EXCEPT ![w] = y], UNCHANGED tables,
           delivered' \in [Upsert \cup Deletion -> 0..MaxDeliver],
           Ready(memories, y), \A v \in Others(w) : Apart(tx[v], y)
    PROVE  Inv'
  <1>1. UNCHANGED memories /\ TablesInv'
    BY DEF Inv, TablesInv, tables
  <1>2. tx' \in [Worker -> Tx \cup {None}]
    BY DEF Inv
  <1>3. tx'[w] = y /\ \A v \in Worker \ {w} : tx'[v] = tx[v]
    BY DEF Inv
  <1>4. \A v \in Worker : Running(v)' => tx'[v] \in Tx /\ Ready(memories', tx'[v])
    BY <1>1, <1>3 DEF Inv, Running
  <1>5. ASSUME NEW u \in Worker, NEW v \in Worker, u # v, Running(u)', Running(v)'
        PROVE  Apart(tx'[u], tx'[v])
    <2>1. CASE u # w /\ v # w
      BY <1>3, <1>5, <2>1 DEF Inv, Running
    <2>2. CASE v = w
      BY <1>3, <1>5, <2>2 DEF Others, Running
    <2>3. CASE u = w
      BY <1>3, <1>5, <2>3, ApartSymmetric DEF Others, Running
    <2>4. QED
      BY <2>1, <2>2, <2>3
  <1>6. \A v \in Worker : Running(v)' => (tx[v])' \in Tx /\ Ready(memories, tx[v])'
    BY <1>4
  <1>7. \A u, v \in Worker : u # v /\ Running(u)' /\ Running(v)' => Apart(tx[u], tx[v])'
    BY <1>5
  <1>8. QED
    BY <1>1, <1>2, <1>6, <1>7 DEF Inv

LEMMA AbandonInv ==
    ASSUME Inv, NEW w \in Worker, tx' = [tx EXCEPT ![w] = None], UNCHANGED <<tables, delivered>>
    PROVE  Inv'
  <1>1. UNCHANGED memories /\ TablesInv'
    BY DEF Inv, TablesInv, tables
  <1>2. tx' \in [Worker -> Tx \cup {None}]
    BY DEF Inv
  <1>3. ~Running(w)' /\ \A v \in Worker \ {w} : tx'[v] = tx[v]
    BY DEF Inv, Running
  <1>4. \A v \in Worker : Running(v)' => v # w /\ (tx[v])' = tx[v] /\ Running(v)
    BY <1>3 DEF Running
  <1>5. QED
    BY <1>1, <1>2, <1>4 DEF Inv

\* A transaction commits.
LEMMA CommitsInv ==
    ASSUME Inv, NEW w \in Worker, Running(w), tx' = [tx EXCEPT ![w] = None], memories' = View(w),
           provenance' \subseteq MemoryId \X Episode, ingested' \subseteq Episode,
           episodes' \in [Episode -> Document \cup {None}], UNCHANGED delivered
    PROVE  Inv'
  <1>1. /\ memories' = After(memories, tx[w]) /\ Ready(memories, tx[w])
        /\ IsTable(tx[w].rows)
    BY RunningFacts
  <1>2. TablesInv'
    <2>1. Sound(memories') /\ IsFiniteSet(DOMAIN tx[w].rows)
      BY <1>1 DEF Ready, Mergeable
    <2>2. DOMAIN memories' = DOMAIN memories \cup DOMAIN tx[w].rows
      BY <1>1, AfterFacts DEF IsAfter
    <2>3. IsFiniteSet(DOMAIN memories')
      <3>1. IsFiniteSet(DOMAIN memories)
        BY DEF Inv, TablesInv
      <3>2. IsFiniteSet(DOMAIN memories \cup DOMAIN tx[w].rows)
        BY <2>1, <3>1, FS_Union
      <3>3. QED
        BY <2>2, <3>2
    <2>4. Sound(memories)' /\ IsFiniteSet(DOMAIN memories)'
      BY <2>1, <2>3
    <2>5. QED
      BY <2>4 DEF Inv, TablesInv
  <1>3. tx' \in [Worker -> Tx \cup {None}]
    BY DEF Inv
  <1>4. ~Running(w)' /\ \A v \in Worker \ {w} : tx'[v] = tx[v]
    BY DEF Inv, Running
  <1>5. \A v \in Worker : Running(v)' => v \in Others(w) /\ (tx[v])' = tx[v] /\ Running(v)
    BY <1>4 DEF Running, Others
  <1>6. ASSUME NEW v \in Others(w)
        PROVE  Ready(memories', tx[v])
    <2>1. /\ tx[v] \in Tx /\ Ready(memories, tx[v]) /\ Apart(tx[w], tx[v])
          /\ IsTable(tx[v].rows)
      BY RunningFacts, TablesAreTables DEF Tx
    <2>2. Sound(memories)
      BY DEF Inv, TablesInv
    <2>3. QED
      BY <1>1, <2>1, <2>2, MergedReady
  <1>7. \A v \in Worker : Running(v)' => (tx[v])' \in Tx /\ Ready(memories, tx[v])'
    BY <1>5, <1>6, RunningFacts
  <1>8. \A u, v \in Worker : u # v /\ Running(u)' /\ Running(v)' => Apart(tx[u], tx[v])'
    BY <1>5 DEF Inv
  <1>9. QED
    BY <1>2, <1>3, <1>7, <1>8 DEF Inv

-----------------------------------------------------------------------------
(* Who is waited for. *)

LEMMA AwaitedIsFree ==
    ASSUME NEW w, MayRun(w), tx[w].stage = "resolving", tx[w].todo # <<>>,
           tx[w].current = Waiting
    PROVE  RowHolders(w, tx[w].awaited) = {}
  BY DEF MayRun, WaitsFor

LEMMA KeyIsFree ==
    ASSUME NEW w, MayRun(w), tx[w].stage = "resolving", tx[w].todo # <<>>,
           tx[w].current # Waiting, InsertsOpen(w)
    PROVE  IndexHolders(w, Claimed(w)) = {}
  BY DEF MayRun, WaitsFor

LEMMA HeadIsFree ==
    ASSUME NEW w, MayRun(w), tx[w].stage \in {"closing", "auditing"}, tx[w].ids # <<>>
    PROVE  RowHolders(w, Head(tx[w].ids)) = {}
  BY DEF MayRun, WaitsFor

\* A row nobody else has locked nobody else has written.
LEMMA FreeRow ==
    ASSUME Inv, NEW w \in Worker, Running(w),
           NEW i \in DOMAIN memories \cup DOMAIN tx[w].rows, RowHolders(w, i) = {}
    PROVE  \A v \in Others(w) : i \notin Own(tx[v])
  <1> SUFFICES ASSUME NEW v \in Others(w) PROVE i \notin Own(tx[v])
    OBVIOUS
  <1>1. i \notin tx[v].locks
    BY DEF RowHolders
  <1>2. Apart(tx[v], tx[w]) /\ Holds(memories, tx[v])
    BY RunningFacts DEF Ready
  <1>3. QED
    BY <1>1, <1>2 DEF Apart, Own, Holds

\* A transaction that writes and locks nothing new.
LEMMA SameWrites ==
    ASSUME NEW table, NEW x, NEW y, y.rows = x.rows, y.locks = x.locks, Ready(table, x),
           Resolves(table, y), Deletes(table, y)
    PROVE  Ready(table, y) /\ \A z : Apart(z, x) => Apart(z, y)
  BY DEF Ready, Mergeable, Holds, After, Own, Apart

\* A transaction that locks one more row, a current one.
LEMMA LocksOne ==
    ASSUME NEW table, NEW x, NEW y, NEW i, y.rows = x.rows, y.locks = x.locks \cup {i},
           Ready(table, x), Resolves(table, y), Deletes(table, y),
           i \in DOMAIN After(table, x), After(table, x)[i].to = None
    PROVE  Ready(table, y) /\ \A z : Apart(z, x) /\ i \notin Own(z) => Apart(z, y)
  <1>1. After(table, x)[i].by = None
    BY DEF Ready, Mergeable, Sound, SchemaAccepts, memories_supersede_ck
  <1>2. After(table, y) = After(table, x) /\ Own(y) = Own(x) \cup {i}
    BY DEF After, Own
  <1>3. Holds(table, y)
    BY <1>1, <1>2 DEF Ready, Holds
  <1>4. Mergeable(table, y)
    BY <1>2 DEF Ready, Mergeable
  <1>5. QED
    BY <1>2, <1>3, <1>4 DEF Ready, Apart

-----------------------------------------------------------------------------
(* Process, before it writes. *)

LEMMA BegunFacts ==
    ASSUME NEW event \in Upsert \cup Deletion, NEW stage \in Stage
    PROVE  Begun(event, stage) \in Tx /\ DOMAIN Begun(event, stage).rows = {}
  <1>1. [i \in {} |-> None] \in Tables
    BY EmptyTable, TablesAreTables DEF Sound
  <1>2. QED
    BY <1>1 DEF Begun, Tx

\* A transaction that has just begun holds nothing.
LEMMA BegunReady ==
    ASSUME NEW table, Sound(table), NEW x, DOMAIN x.rows = {}, x.locks = {}, x.current = NotAsked,
           IsFiniteSet({}),
           Committing(x) => x.event \in Upsert,
           ~Committing(x) => /\ x.event \in Deletion /\ x.ids = <<>>
                             /\ x.derived \subseteq DOMAIN table
    PROVE  Ready(table, x) /\ \A z : Apart(z, x)
  <1>1. After(table, x) = table
    BY OverlaidNothing DEF After, Sound
  <1>2. Mergeable(table, x)
    BY <1>1 DEF Mergeable, Extends, SameMemory, SameKey
  <1>3. Holds(table, x)
    BY DEF Holds, Own
  <1>4. Resolves(table, x)
    BY AnswerAssumption DEF Resolves, Found, NotAsked, Waiting
  <1>5. Deletes(table, x)
    BY DEF Deletes
  <1>6. QED
    BY <1>2, <1>3, <1>4, <1>5 DEF Ready, Apart, Own, KeysApart

\* What is ordered is a sequence of it, if it is finite.
LEMMA OrdersFacts ==
    ASSUME NEW S, IsFiniteSet(S), NEW s \in Orders(S)
    PROVE  s \in Seq(S)
  BY FS_CardinalityType DEF Orders

LEMMA DeliverType ==
    ASSUME Inv, NEW event \in Upsert \cup Deletion, Deliver(event)
    PROVE  delivered' \in [Upsert \cup Deletion -> 0..MaxDeliver]
  <1>1. delivered \in [Upsert \cup Deletion -> 0..MaxDeliver]
    BY DEF Inv, TablesInv
  <1>2. delivered[event] + 1 \in 0..MaxDeliver
    BY <1>1, MaxDeliverAssumption DEF Deliver
  <1>3. QED
    BY <1>1, <1>2 DEF Deliver

LEMMA ProcessInv ==
    ASSUME Inv, NEW w \in Worker, NEW u \in Upsert, NEW claims \in Extraction,
           Process(w, u, claims)
    PROVE  Inv'
  <1>1. claims \in Seq(Claim)
    BY ExtractionAssumption
  <1> DEFINE topics == {claims[n].topic : n \in DOMAIN claims}
  <1>2. topics \subseteq Topic /\ IsFiniteSet(topics)
    <2>1. topics = {claims[n].topic : n \in 1..Len(claims)}
      BY <1>1
    <2>2. IsFiniteSet(1..Len(claims))
      BY <1>1, FS_Interval
    <2>3. IsFiniteSet({claims[n].topic : n \in 1..Len(claims)})
      <3> DEFINE f == [n \in 1..Len(claims) |-> claims[n].topic]
                 T == {claims[n].topic : n \in 1..Len(claims)}
      <3>1. f \in Surjection(1..Len(claims), T)
        BY DEF Surjection
      <3>2. QED
        BY <2>2, <3>1, FS_Surjection
    <2>4. \A n \in DOMAIN claims : claims[n] \in Claim
      BY <1>1
    <2>5. QED
      BY <2>1, <2>3, <2>4 DEF Claim
  <1> HIDE DEF topics
  <1>3. PICK owed \in Orders(topics) :
          tx' = [tx EXCEPT ![w] = [Begun(u, "extracting") EXCEPT !.todo = claims, !.owed = owed]]
    BY DEF Process, topics
  <1> DEFINE y == [Begun(u, "extracting") EXCEPT !.todo = claims, !.owed = owed]
  <1>4. owed \in Seq(Topic)
    BY <1>2, OrdersFacts
  <1>5. /\ y \in Tx /\ DOMAIN y.rows = {} /\ y.locks = {} /\ y.current = NotAsked
        /\ Committing(y) /\ y.event = u
    <2>1. Begun(u, "extracting") \in Tx /\ DOMAIN Begun(u, "extracting").rows = {}
      BY BegunFacts DEF Stage
    <2>2. y \in Tx
      BY <1>1, <1>4, <2>1 DEF Tx
    <2>3. QED
      BY <2>1, <2>2 DEF Begun, Committing
  <1> HIDE DEF y
  <1>6. Ready(memories, y) /\ \A v \in Others(w) : Apart(tx[v], y)
    BY <1>5, BegunReady, FS_EmptySet DEF Inv, TablesInv
  <1>7. UNCHANGED tables /\ delivered' \in [Upsert \cup Deletion -> 0..MaxDeliver]
    BY DeliverType DEF Process
  <1>8. QED
    BY <1>3, <1>5, <1>6, <1>7, GoesOnInv DEF y

LEMMA SaveEpisodeInv == ASSUME Inv, NEW w \in Worker, SaveEpisode(w) PROVE Inv'
  <1> DEFINE x == tx[w]
             y == [x EXCEPT !.stage = "resolving"]
  <1>1. Running(w) /\ x.stage = "extracting"
    BY DEF SaveEpisode, MayRun
  <1>2. x \in Tx /\ Ready(memories, x) /\ \A v \in Others(w) : Apart(tx[v], x)
    BY <1>1, RunningFacts
  <1>3. y \in Tx
    BY <1>2 DEF Tx, Stage
  <1>4. /\ y.rows = x.rows /\ y.locks = x.locks /\ y.todo = x.todo /\ y.event = x.event
        /\ y.current = x.current /\ y.awaited = x.awaited
        /\ Committing(x) /\ Committing(y)
    BY <1>1, <1>2 DEF Tx, Committing
  <1>5. tx' = [tx EXCEPT ![w] = y] /\ UNCHANGED <<tables, delivered>>
    BY DEF SaveEpisode
  <1> HIDE DEF x, y
  <1>6. Resolves(memories, y) /\ Deletes(memories, y)
    BY <1>2, <1>4 DEF Ready, Resolves, Deletes, Found, After
  <1>7. Ready(memories, y) /\ \A v \in Others(w) : Apart(tx[v], y)
    BY <1>2, <1>4, <1>6, SameWrites
  <1>8. QED
    BY <1>3, <1>5, <1>7, GoesOnInv DEF Inv, TablesInv

-----------------------------------------------------------------------------
(* Process: the row a claim is resolved against.                           *)

LEMMA ResolvingFacts ==
    ASSUME Inv, NEW w \in Worker, Resolving(w)
    PROVE  /\ Running(w) /\ Committing(tx[w]) /\ tx[w].stage = "resolving"
           /\ tx[w].event \in Upsert /\ tx[w].event.occurred \in Time
           /\ tx[w].todo # <<>> /\ Claimed(w) \in Claim /\ Tail(tx[w].todo) \in Seq(Claim)
           /\ Claimed(w) = Head(tx[w].todo)
  <1>1. /\ Running(w) /\ tx[w].stage = "resolving" /\ tx[w].todo # <<>>
    BY DEF Resolving, MayRun
  <1>2. tx[w] \in Tx /\ Ready(memories, tx[w])
    BY <1>1, RunningFacts
  <1>3. Committing(tx[w])
    BY <1>1 DEF Committing
  <1>4. tx[w].event \in Upsert
    BY <1>2, <1>3 DEF Ready, Resolves
  <1>5. tx[w].event.occurred \in Time
    BY <1>4, EventAssumption
  <1>6. tx[w].todo \in Seq(Claim)
    BY <1>2 DEF Tx
  <1>7. Claimed(w) \in Claim /\ Tail(tx[w].todo) \in Seq(Claim)
    BY <1>1, <1>6 DEF Claimed
  <1>8. QED
    BY <1>1, <1>3, <1>4, <1>5, <1>7 DEF Claimed

\* y is x with another answer of lockCurrent.
Continues(x, y) ==
    /\ y \in Tx /\ y.event = x.event /\ y.stage = x.stage /\ y.todo = x.todo
    /\ y.rows = x.rows

\* The row found current is locked.
LEMMA LockInv ==
    ASSUME Inv, NEW w \in Worker, Resolving(w), Supersedes(Claimed(w).kind),
           UNCHANGED <<tables, delivered>>, NEW i, i \in CurrentFor(View(w), Claimed(w)), RowHolders(w, i) = {},
           NEW y, Continues(tx[w], y), y.current = i, y.locks = tx[w].locks \cup {i},
           tx' = [tx EXCEPT ![w] = y]
    PROVE  Inv'
  <1> DEFINE x == tx[w]
  <1>1. /\ Running(w) /\ Committing(x) /\ x.todo # <<>> /\ Claimed(w) = Head(x.todo)
        /\ Supersedes(Head(x.todo).kind)
    BY ResolvingFacts
  <1>2. /\ Ready(memories, x) /\ View(w) = After(memories, x)
        /\ \A v \in Others(w) : Apart(tx[v], x)
    BY <1>1, RunningFacts
  <1>3. Continues(x, y) /\ y.current = i /\ y.locks = x.locks \cup {i}
    OBVIOUS
  <1>4. /\ i \in DOMAIN After(memories, x) /\ After(memories, x)[i].to = None
        /\ i \in CurrentFor(After(memories, x), Head(x.todo))
    BY <1>1, <1>2 DEF CurrentFor, IsCurrent
  <1>5. i \in DOMAIN memories \cup DOMAIN x.rows
    BY <1>4, AfterFacts DEF IsAfter
  <1>6. \A v \in Others(w) : i \notin Own(tx[v])
    BY <1>1, <1>5, FreeRow
  <1> HIDE DEF x
  <1>7. Resolves(memories, y)
    BY <1>1, <1>2, <1>3, <1>4, AnswerAssumption
    DEF Ready, Resolves, Committing, Continues, After, Found, Mergeable, Sound, IsTable
  <1>8. Deletes(memories, y)
    BY <1>1, <1>3 DEF Deletes, Committing, Continues
  <1>9. y.rows = x.rows
    BY <1>3 DEF Continues
  <1>10. Ready(memories, y) /\ \A z : Apart(z, x) /\ i \notin Own(z) => Apart(z, y)
    BY <1>2, <1>3, <1>4, <1>7, <1>8, <1>9, LocksOne
  <1>11. \A v \in Others(w) : Apart(tx[v], y)
    BY <1>2, <1>6, <1>10
  <1>12. delivered' \in [Upsert \cup Deletion -> 0..MaxDeliver] /\ y \in Tx
    BY <1>3 DEF Inv, TablesInv, Continues
  <1>13. QED
    BY <1>10, <1>11, <1>12, GoesOnInv

\* Nothing found, or somebody to wait for: nothing is locked.
LEMMA AskInv ==
    ASSUME Inv, NEW w \in Worker, Resolving(w), Supersedes(Claimed(w).kind),
           UNCHANGED <<tables, delivered>>, NEW y, Continues(tx[w], y), y.locks = tx[w].locks,
           y.current = None \/ (y.current = Waiting /\ y.awaited \notin DOMAIN y.rows),
           tx' = [tx EXCEPT ![w] = y]
    PROVE  Inv'
  <1> DEFINE x == tx[w]
  <1>1. /\ Running(w) /\ Committing(x) /\ x.todo # <<>>
        /\ Supersedes(Head(x.todo).kind)
    BY ResolvingFacts
  <1>2. Ready(memories, x) /\ \A v \in Others(w) : Apart(tx[v], x)
    BY <1>1, RunningFacts
  <1>3. Continues(x, y) /\ y.locks = x.locks
    OBVIOUS
  <1> HIDE DEF x
  <1>4. Resolves(memories, y)
    BY <1>1, <1>2, <1>3, AnswerAssumption DEF Ready, Resolves, Committing, Found, Continues
  <1>5. Deletes(memories, y)
    BY <1>1, <1>3 DEF Deletes, Committing, Continues
  <1>6. y.rows = x.rows
    BY <1>3 DEF Continues
  <1>7. Ready(memories, y) /\ \A z : Apart(z, x) => Apart(z, y)
    BY <1>2, <1>3, <1>4, <1>5, <1>6, SameWrites
  <1>8. \A v \in Others(w) : Apart(tx[v], y)
    BY <1>2, <1>7
  <1>9. delivered' \in [Upsert \cup Deletion -> 0..MaxDeliver] /\ y \in Tx
    BY <1>3 DEF Inv, TablesInv, Continues
  <1>10. QED
    BY <1>7, <1>8, <1>9, GoesOnInv

LEMMA lockCurrentInv == ASSUME Inv, NEW w \in Worker, lockCurrent(w) PROVE Inv'
  <1> DEFINE x == tx[w]
  <1>1. /\ Resolving(w) /\ Running(w) /\ UNCHANGED <<tables, delivered>>
        /\ Supersedes(Claimed(w).kind)
    BY ResolvingFacts DEF lockCurrent
  <1>2. x \in Tx /\ View(w) = After(memories, x) /\ Ready(memories, x)
    BY <1>1, RunningFacts
  <1>3. DOMAIN View(w) \subseteq MemoryId
    BY <1>2 DEF Ready, Mergeable, Sound, IsTable
  <1>4. CASE CurrentFor(View(w), Claimed(w)) = {}
    <2> DEFINE y == [x EXCEPT !.current = None, !.awaited = x.awaited]
    <2>1. Continues(x, y) /\ y.locks = x.locks /\ y.current = None
      BY <1>2 DEF Tx, Continues
    <2>2. tx' = [tx EXCEPT ![w].current = None]
      BY <1>4 DEF lockCurrent
    <2>3. [x EXCEPT !.current = None] = y
      BY <1>2 DEF Tx
    <2>4. tx' = [tx EXCEPT ![w] = y]
      BY <2>2, <2>3
    <2> HIDE DEF y
    <2>5. QED
      BY <1>1, <2>1, <2>4, AskInv
  <1>5. CASE CurrentFor(View(w), Claimed(w)) # {}
    <2>1. PICK i \in CurrentFor(View(w), Claimed(w)) :
            IF RowHolders(w, i) = {}
            THEN tx' = [tx EXCEPT ![w].current = i, ![w].locks = Locked(w, i)]
            ELSE tx' = [tx EXCEPT ![w].current = Waiting, ![w].awaited = i]
      BY <1>5 DEF lockCurrent
    <2>2. i \in MemoryId /\ i \in DOMAIN View(w)
      BY <1>3 DEF CurrentFor
    <2>3. CASE RowHolders(w, i) = {}
      <3> DEFINE y == [x EXCEPT !.current = i, !.locks = @ \cup {i}]
      <3>1. Continues(x, y) /\ y.locks = x.locks \cup {i} /\ y.current = i
        BY <1>2, <2>2 DEF Tx, Continues
      <3>2. tx' = [tx EXCEPT ![w] = y]
        BY <2>1, <2>3 DEF Locked, Inv
      <3> HIDE DEF y
      <3>3. QED
        BY <1>1, <2>1, <2>3, <3>1, <3>2, LockInv
    <2>4. CASE RowHolders(w, i) # {}
      <3> DEFINE y == [x EXCEPT !.current = Waiting, !.awaited = i]
      <3>1. Continues(x, y) /\ y.locks = x.locks /\ y.current = Waiting /\ y.awaited = i
            /\ y.rows = x.rows
        BY <1>2, <2>2 DEF Tx, Continues
      <3>2. tx' = [tx EXCEPT ![w] = y]
        BY <2>1, <2>4 DEF Inv
      <3>3. PICK v \in Others(w) : i \in tx[v].locks
        BY <2>4 DEF RowHolders
      <3>4. i \notin DOMAIN x.rows
        BY <1>1, <3>3, RunningFacts DEF Apart, Own
      <3> HIDE DEF y
      <3>5. QED
        BY <1>1, <3>1, <3>2, <3>4, AskInv
    <2>5. QED
      BY <2>3, <2>4
  <1>6. QED
    BY <1>4, <1>5

LEMMA WakeInv == ASSUME Inv, NEW w \in Worker, Wake(w) PROVE Inv'
  <1> DEFINE x == tx[w]
             i == x.awaited
  <1>1. Resolving(w) /\ Running(w) /\ UNCHANGED <<tables, delivered>> /\ x.current = Waiting
    BY ResolvingFacts DEF Wake
  <1>2. x \in Tx /\ View(w) = After(memories, x) /\ Ready(memories, x)
    BY <1>1, RunningFacts
  <1>3. i \notin DOMAIN x.rows /\ Supersedes(Claimed(w).kind)
    BY <1>1, <1>2 DEF Ready, Resolves, Claimed
  <1>4. CASE i \in CurrentFor(memories, Claimed(w))
    <2> DEFINE y == [x EXCEPT !.current = i, !.awaited = None, !.locks = @ \cup {i}]
    <2>1. tx' = [tx EXCEPT ![w] = y]
      BY <1>4 DEF Wake, Locked, Inv
    <2>2. i \in DOMAIN memories /\ i \in MemoryId
      BY <1>4 DEF CurrentFor, Inv, TablesInv, Sound, IsTable
    <2>3. i \in CurrentFor(View(w), Claimed(w))
      <3>1. IsAfter(memories, x, View(w))
        BY <1>2, AfterFacts
      <3>2. i \in DOMAIN View(w) /\ View(w)[i] = memories[i]
        BY <1>3, <2>2, <3>1 DEF IsAfter
      <3>3. QED
        BY <1>4, <3>2 DEF CurrentFor
    <2>4. RowHolders(w, i) = {}
      BY <1>1, AwaitedIsFree DEF Resolving
    <2>5. Continues(x, y) /\ y.locks = x.locks \cup {i} /\ y.current = i
      BY <1>2, <2>2 DEF Tx, Continues
    <2> HIDE DEF y
    <2>6. QED
      BY <1>1, <1>3, <2>1, <2>3, <2>4, <2>5, LockInv
  <1>5. CASE i \notin CurrentFor(memories, Claimed(w))
    <2> DEFINE y == [x EXCEPT !.current = None, !.awaited = None]
    <2>1. tx' = [tx EXCEPT ![w] = y]
      <3>1. tx' = [tx EXCEPT ![w].current = None, ![w].awaited = None, ![w].locks = @]
        BY <1>5 DEF Wake
      <3>2. [x EXCEPT !.current = None, !.awaited = None, !.locks = @] = y
        BY <1>2 DEF Tx
      <3>3. QED
        BY <3>1, <3>2 DEF Inv
    <2>2. Continues(x, y) /\ y.locks = x.locks /\ y.current = None
      BY <1>2 DEF Tx, Continues
    <2> HIDE DEF y
    <2>3. QED
      BY <1>1, <1>3, <2>1, <2>2, AskInv
  <1>6. QED
    BY <1>4, <1>5

-----------------------------------------------------------------------------
(* Process: what it writes.                                                *)

LEMMA NewIdIsFresh == ASSUME Fresh # {} PROVE NewId \in Fresh
  BY DEF NewId

\* An id nobody uses is nobody's.
LEMMA FreshIsNobodys ==
    ASSUME Inv, NEW w \in Worker, Running(w), NEW id \in Fresh
    PROVE  /\ id \in MemoryId /\ id \notin DOMAIN View(w) /\ id \notin DOMAIN memories
           /\ \A v \in Others(w) : id \notin Own(tx[v])
  <1>1. id \in MemoryId /\ id \notin DOMAIN memories
    BY DEF Fresh
  <1>2. ASSUME NEW v \in Worker, Running(v)
        PROVE  id \notin DOMAIN tx[v].rows /\ id \notin DOMAIN After(memories, tx[v])
    <2>1. id \notin DOMAIN tx[v].rows
      <3>1. v \in {u \in Worker : Running(u)}
        BY <1>2
      <3>2. QED
        BY <3>1 DEF Fresh
    <2>2. IsAfter(memories, tx[v], After(memories, tx[v]))
      BY AfterFacts
    <2>3. QED
      BY <1>1, <2>1, <2>2 DEF IsAfter
  <1>3. \A v \in Others(w) : v \in Worker /\ Running(v)
    BY DEF Others
  <1>4. \A v \in Others(w) : Holds(memories, tx[v])
    BY RunningFacts DEF Ready
  <1>5. QED
    BY <1>1, <1>2, <1>3, <1>4, RunningFacts DEF Holds, Own

\* What a branch of commitOne may make of the rows a transaction wrote.
Writable(w, rows) ==
    /\ IsTable(rows) /\ IsFiniteSet(DOMAIN rows)
    /\ Sound(Overlaid(memories, rows)) /\ Extends(View(w), Overlaid(memories, rows))
    /\ DOMAIN rows \subseteq DOMAIN tx[w].rows \cup tx[w].locks \cup Fresh
    /\ \A i \in DOMAIN rows \cup tx[w].locks :
          Overlaid(memories, rows)[i].by \in DOMAIN rows \cup tx[w].locks \cup {None}
    /\ \A v \in Others(w) : KeysApart(tx[v].rows, rows)

LEMMA WriteInv ==
    ASSUME Inv, NEW w \in Worker, Resolving(w), NEW rows, NEW id \in MemoryId,
           Write(w, rows, id), SchemaAccepts(Overlaid(memories, rows)) => Writable(w, rows)
    PROVE  Inv'
  <1> DEFINE x == tx[w]
             y == [x EXCEPT !.rows = rows, !.todo = Tail(@), !.current = NotAsked,
                            !.links = @ \cup {id}]
  <1>1. CASE ~SchemaAccepts(Overlaid(memories, rows))
    <2>1. tx' = [tx EXCEPT ![w] = None] /\ UNCHANGED <<tables, delivered>>
      BY <1>1 DEF Write, Abandon
    <2>2. QED
      BY <2>1, AbandonInv
  <1>2. CASE SchemaAccepts(Overlaid(memories, rows))
    <2>1. /\ Running(w) /\ Committing(x) /\ x.event \in Upsert /\ Tail(x.todo) \in Seq(Claim)
      BY ResolvingFacts
    <2>2. /\ x \in Tx /\ Ready(memories, x) /\ View(w) = After(memories, x)
          /\ \A v \in Others(w) : Apart(tx[v], x)
      BY <2>1, RunningFacts
    <2>3. Writable(w, rows)
      BY <1>2
    <2>4. rows \in Tables
      BY <2>3, TablesAreTables DEF Writable
    <2>5. y \in Tx
      BY <2>1, <2>2, <2>4 DEF Tx
    <2>6. /\ y.rows = rows /\ y.locks = x.locks /\ y.current = NotAsked /\ y.stage = x.stage
          /\ y.event = x.event
      BY <2>2 DEF Tx
    <2>7. tx' = [tx EXCEPT ![w] = y] /\ UNCHANGED <<tables, delivered>>
      BY <1>2 DEF Write
    <2>8. After(memories, y) = Overlaid(memories, rows) /\ Own(y) = DOMAIN rows \cup x.locks
      BY <2>6 DEF After, Own
    <2>9. /\ DOMAIN View(w) \subseteq DOMAIN After(memories, y)
          /\ Extends(memories, After(memories, y))
      BY <2>2, <2>3, <2>8, ExtendsTransitive DEF Writable, Ready, Mergeable, Extends
    <2> HIDE DEF y
    <2>10. Mergeable(memories, y)
      BY <2>3, <2>6, <2>8, <2>9 DEF Writable, Mergeable
    <2>11. Holds(memories, y)
      <3>1. y.locks \subseteq DOMAIN After(memories, y)
        BY <2>2, <2>6, <2>9 DEF Ready, Holds
      <3>2. DOMAIN y.rows \cap DOMAIN memories \subseteq y.locks
        BY <2>2, <2>3, <2>6 DEF Writable, Ready, Holds, Fresh
      <3>3. \A i \in Own(y) : After(memories, y)[i].by \in Own(y) \cup {None}
        BY <2>3, <2>8 DEF Writable
      <3>4. QED
        BY <3>1, <3>2, <3>3 DEF Holds
    <2>12. Resolves(memories, y) /\ Deletes(memories, y)
      BY <2>1, <2>6, AnswerAssumption DEF Resolves, Deletes, Committing, Found, NotAsked, Waiting
    <2>13. ASSUME NEW v \in Others(w)
           PROVE  Apart(tx[v], y)
      <3>1. Own(tx[v]) \cap Own(x) = {}
        BY <2>2 DEF Apart
      <3>2. Own(tx[v]) \cap Fresh = {}
        BY <2>1, FreshIsNobodys
      <3>3. Own(y) \subseteq Own(x) \cup Fresh
        BY <2>3, <2>8 DEF Writable, Own
      <3>4. KeysApart(tx[v].rows, y.rows)
        BY <2>3, <2>6 DEF Writable
      <3>5. QED
        BY <3>1, <3>2, <3>3, <3>4 DEF Apart
    <2>14. delivered' \in [Upsert \cup Deletion -> 0..MaxDeliver]
      BY <2>7 DEF Inv, TablesInv
    <2>15. Ready(memories, y)
      BY <2>10, <2>11, <2>12 DEF Ready
    <2>16. QED
      BY <2>5, <2>7, <2>13, <2>14, <2>15, GoesOnInv
  <1>3. QED
    BY <1>1, <1>2

\* The rows of a table that no other transaction has a hand in.
WritesOwn(w, rows) ==
    /\ IsTable(rows) /\ IsFiniteSet(DOMAIN rows)
    /\ DOMAIN tx[w].rows \subseteq DOMAIN rows
    /\ DOMAIN rows \subseteq DOMAIN tx[w].rows \cup tx[w].locks \cup Fresh
    /\ \A v \in Others(w) : KeysApart(tx[v].rows, rows)

\* No other transaction has a current memory with the key of the row.
NoRival(w, row) ==
    \A v \in Others(w) : \A j \in DOMAIN tx[v].rows :
        ~ /\ IsCurrent(tx[v].rows[j]) /\ IsCurrent(row)
          /\ SameKey(tx[v].rows[j], row) /\ Supersedes(row.kind)

LEMMA OwnAlready == ASSUME Inv, NEW w \in Worker, Running(w) PROVE WritesOwn(w, tx[w].rows)
  <1>1. /\ IsTable(tx[w].rows) /\ Ready(memories, tx[w])
        /\ \A v \in Others(w) : Apart(tx[v], tx[w])
    BY RunningFacts
  <1>2. QED
    BY <1>1 DEF WritesOwn, Ready, Mergeable, Apart

LEMMA InsertsOwn ==
    ASSUME NEW w \in Worker, NEW rows, WritesOwn(w, rows), NEW id \in MemoryId,
           id \in DOMAIN tx[w].rows \cup tx[w].locks \cup Fresh,
           NEW row \in Row, NoRival(w, row)
    PROVE  WritesOwn(w, Insert(rows, id, row))
  <1> DEFINE new == Insert(rows, id, row)
  <1>1. /\ DOMAIN new = DOMAIN rows \cup {id} /\ new[id] = row
        /\ \A i \in DOMAIN rows \ {id} : new[i] = rows[i]
    BY DEF Insert
  <1>2. IsTable(new)
    BY InsertType DEF WritesOwn
  <1> HIDE DEF new
  <1>3. IsFiniteSet(DOMAIN new)
    <2>1. IsFiniteSet(DOMAIN rows)
      BY DEF WritesOwn
    <2>2. IsFiniteSet(DOMAIN rows \cup {id})
      BY <2>1, FS_AddElement
    <2>3. QED
      BY <1>1, <2>2
  <1>4. ASSUME NEW v \in Others(w)
        PROVE  KeysApart(tx[v].rows, new)
    <2>1. KeysApart(tx[v].rows, rows)
      BY DEF WritesOwn
    <2>2. SUFFICES ASSUME NEW i \in DOMAIN tx[v].rows, NEW j \in DOMAIN new,
                          IsCurrent(tx[v].rows[i]), IsCurrent(new[j]),
                          SameKey(tx[v].rows[i], new[j]), Supersedes(tx[v].rows[i].kind)
                   PROVE  FALSE
      BY DEF KeysApart
    <2>3. CASE j = id
      <3>1. Supersedes(row.kind)
        BY <1>1, <2>2, <2>3 DEF SameKey
      <3>2. QED
        BY <1>1, <2>2, <2>3, <3>1 DEF NoRival
    <2>4. CASE j # id
      BY <1>1, <2>1, <2>2, <2>4 DEF KeysApart
    <2>5. QED
      BY <2>3, <2>4
  <1>5. QED
    BY <1>1, <1>2, <1>3, <1>4 DEF WritesOwn, new

\* What is written is the transaction's own, the table it leaves is sound.
LEMMA OwnIsWritable ==
    ASSUME NEW w \in Worker, NEW rows, WritesOwn(w, rows), NEW table,
           table = Overlaid(memories, rows), Sound(table), Extends(View(w), table),
           \A i \in DOMAIN rows \cup tx[w].locks :
              table[i].by \in DOMAIN rows \cup tx[w].locks \cup {None}
    PROVE  Writable(w, rows)
  BY DEF WritesOwn, Writable

\* What lockCurrent found is nobody else's, and neither is its key.
LEMMA AnsweredFacts ==
    ASSUME Inv, NEW w \in Worker, Answered(w), tx[w].current # None
    PROVE  /\ tx[w].current \in tx[w].locks /\ tx[w].current \in MemoryId
           /\ tx[w].current \in CurrentFor(View(w), Claimed(w))
           /\ Supersedes(Claimed(w).kind)
           /\ \A row : SameKey(row, View(w)[tx[w].current]) => NoRival(w, row)
  <1> DEFINE x == tx[w]
             c == x.current
  <1>1. /\ Running(w) /\ Claimed(w) = Head(x.todo)
    BY ResolvingFacts DEF Answered
  <1>2. /\ x \in Tx /\ Ready(memories, x) /\ View(w) = After(memories, x)
    BY <1>1, RunningFacts
  <1>3. Found(x)
    BY DEF Answered, Found
  <1>4. /\ c \in x.locks /\ Supersedes(Claimed(w).kind)
        /\ c \in CurrentFor(View(w), Claimed(w))
    BY <1>1, <1>2, <1>3 DEF Ready, Resolves
  <1>5. c \in MemoryId
    BY <1>2, <1>3 DEF Tx, Found
  <1>6. c \in DOMAIN View(w) /\ IsCurrent(View(w)[c])
    BY <1>4 DEF CurrentFor
  <1>7. ASSUME NEW row, SameKey(row, View(w)[c]), NEW v \in Others(w),
               NEW j \in DOMAIN tx[v].rows,
               IsCurrent(tx[v].rows[j]), SameKey(tx[v].rows[j], row), Supersedes(row.kind)
        PROVE  FALSE
    <2>1. /\ Apart(x, tx[v]) /\ Ready(memories, tx[v])
      BY <1>1, RunningFacts
    <2>2. /\ IsAfter(memories, x, View(w))
          /\ IsAfter(memories, tx[v], After(memories, tx[v]))
      BY <1>2, AfterFacts
    <2>3. SameKey(View(w)[c], tx[v].rows[j]) /\ Supersedes(View(w)[c].kind)
      BY <1>7 DEF SameKey
    <2>4. CASE c \in DOMAIN x.rows
      <3>1. View(w)[c] = x.rows[c]
        BY <2>2, <2>4 DEF IsAfter
      <3>2. QED
        BY <1>6, <1>7, <2>1, <2>3, <2>4, <3>1 DEF Apart, KeysApart
    <2>5. CASE c \notin DOMAIN x.rows
      <3> DEFINE t == After(memories, tx[v])
      <3>1. c \notin Own(tx[v])
        BY <1>4, <2>1 DEF Apart, Own
      <3>2. c \in DOMAIN t /\ t[c] = View(w)[c] /\ j \in DOMAIN t /\ t[j] = tx[v].rows[j]
        BY <1>6, <2>2, <2>5, <3>1 DEF IsAfter, Own
      <3> HIDE DEF t
      <3>3. memories_current_topic_uidx(t)
        BY <2>1 DEF Ready, Mergeable, Sound, SchemaAccepts, t
      <3>4. j = c
        BY <1>6, <1>7, <2>3, <3>2, <3>3 DEF memories_current_topic_uidx
      <3>5. QED
        BY <3>1, <3>4 DEF Own
    <2>6. QED
      BY <2>4, <2>5
  <1>8. QED
    BY <1>4, <1>5, <1>7 DEF NoRival

\* A claim that is inserted open has waited for whoever had an entry with its key.
LEMMA InsertedAlone ==
    ASSUME NEW w \in Worker, Resolving(w), InsertsOpen(w), NEW row, SameKey(row, Claimed(w))
    PROVE  NoRival(w, row)
  <1>1. IndexHolders(w, Claimed(w)) = {}
    BY KeyIsFree DEF Resolving, InsertsOpen
  <1>2. QED
    BY <1>1 DEF IndexHolders, NoRival, SameKey

\* A row a transaction holds it also sees, and a link from it leads to another it holds.
LEMMA OwnIsViewed ==
    ASSUME Inv, NEW w \in Worker, Running(w)
    PROVE  \A i \in Own(tx[w]) : /\ i \in DOMAIN View(w)
                                 /\ View(w)[i].by \in Own(tx[w]) \cup {None}
  <1>1. Holds(memories, tx[w]) /\ View(w) = After(memories, tx[w])
    BY RunningFacts DEF Ready
  <1>2. IsAfter(memories, tx[w], View(w))
    BY <1>1, AfterFacts
  <1>3. QED
    BY <1>1, <1>2 DEF Holds, Own, IsAfter

LEMMA CreateInv == ASSUME Inv, NEW w \in Worker, Create(w) PROVE Inv'
  <1> DEFINE x == tx[w]
             at == x.event.occurred
             row == NewRow(Claimed(w), at, None, None)
             id == NewId
             rows == Insert(x.rows, id, row)
  <1>1. /\ Resolving(w) /\ Running(w) /\ Claimed(w) \in Claim /\ at \in Time
        /\ Write(w, rows, id) /\ id \in Fresh
    BY ResolvingFacts, NewIdIsFresh DEF Create
  <1>2. /\ Ready(memories, x) /\ View(w) = After(memories, x)
    BY <1>1, RunningFacts
  <1>3. id \in MemoryId /\ id \notin DOMAIN View(w)
    BY <1>1, FreshIsNobodys
  <1>4. row \in Row /\ SameKey(row, Claimed(w)) /\ row.by = None /\ IsCurrent(row)
    BY <1>1, NewRowType DEF NewRow, SameKey, IsCurrent
  <1>5. Supersedes(row.kind) => InsertsOpen(w)
    BY <1>4, AnswerAssumption DEF Create, InsertsOpen, SameKey
  <1>6. NoRival(w, row)
    <2>1. CASE Supersedes(row.kind)
      BY <1>1, <1>4, <1>5, <2>1, InsertedAlone
    <2>2. CASE ~Supersedes(row.kind)
      BY <2>2 DEF NoRival
    <2>3. QED
      BY <2>1, <2>2
  <1>7. Overlaid(memories, rows) = Insert(View(w), id, row)
    BY <1>2, OverlaidInsert DEF After
  <1>8. WritesOwn(w, rows)
    BY <1>1, <1>3, <1>4, <1>6, OwnAlready, InsertsOwn
  <1>9. Sound(View(w))
    BY <1>2 DEF Ready, Mergeable
  <1>10. row = NewRow(Claimed(w), at, None, None)
    OBVIOUS
  <1>11. DOMAIN rows = DOMAIN x.rows \cup {id}
    BY DEF Insert
  <1> HIDE DEF row, id, rows
  <1>12. ASSUME SchemaAccepts(Overlaid(memories, rows))
         PROVE  Writable(w, rows)
    <2> DEFINE table == Insert(View(w), id, row)
    <2>1. /\ DOMAIN table = DOMAIN View(w) \cup {id} /\ table[id] = row
          /\ \A i \in DOMAIN View(w) : table[i] = View(w)[i]
      BY <1>3 DEF Insert
    <2>2. table = Overlaid(memories, rows)
      BY <1>7
    <2> HIDE DEF table
    <2>3. memories_current_topic_uidx(table)
      BY <1>12, <2>2 DEF SchemaAccepts
    <2>4. ASSUME Supersedes(Claimed(w).kind), NEW c \in CurrentFor(View(w), Claimed(w))
          PROVE  FALSE
      <3>1. c \in DOMAIN table /\ c # id /\ IsCurrent(table[c]) /\ SameKey(table[c], table[id])
        BY <1>3, <1>4, <2>1, <2>4 DEF CurrentFor, SameKey
      <3>2. Supersedes(table[c].kind)
        BY <1>4, <2>1, <2>4, <3>1 DEF SameKey
      <3>3. QED
        BY <1>4, <2>1, <2>3, <3>1, <3>2 DEF memories_current_topic_uidx
    <2>5. Sound(table) /\ Extends(View(w), table)
      BY <1>1, <1>3, <1>9, <1>10, <2>4, CreateSound DEF table
    <2>6. \A i \in DOMAIN rows \cup x.locks : table[i].by \in DOMAIN rows \cup x.locks \cup {None}
      <3>1. \A i \in Own(x) : table[i].by \in Own(x) \cup {None}
        BY <1>1, <2>1, OwnIsViewed
      <3>2. QED
        BY <1>4, <1>11, <2>1, <3>1 DEF Own
    <2>7. QED
      BY <1>8, <2>2, <2>5, <2>6, OwnIsWritable
  <1>13. QED
    BY <1>1, <1>3, <1>12, WriteInv

LEMMA ReinforceInv == ASSUME Inv, NEW w \in Worker, Reinforce(w) PROVE Inv'
  <1> DEFINE x == tx[w]
             at == x.event.occurred
             c == x.current
             row == Reinforced(View(w)[c], Claimed(w), at)
             rows == Insert(x.rows, c, row)
  <1>1. /\ Resolving(w) /\ Running(w) /\ Claimed(w) \in Claim /\ at \in Time
        /\ Write(w, rows, c) /\ Answered(w) /\ c # None
    BY ResolvingFacts DEF Reinforce, Answered
  <1>2. /\ Ready(memories, x) /\ View(w) = After(memories, x)
    BY <1>1, RunningFacts
  <1>3. /\ c \in MemoryId /\ c \in x.locks /\ c \in CurrentFor(View(w), Claimed(w))
        /\ \A r : SameKey(r, View(w)[c]) => NoRival(w, r)
    BY <1>1, AnsweredFacts
  <1>4. Sound(View(w))
    BY <1>2 DEF Ready, Mergeable
  <1>5. c \in DOMAIN View(w) /\ View(w)[c] \in Row
    BY <1>3, <1>4 DEF CurrentFor, Sound, IsTable
  <1>6. row \in Row /\ SameKey(row, View(w)[c]) /\ row.by = View(w)[c].by
    BY <1>1, <1>5, ReinforcedType DEF Reinforced, SameKey, Row
  <1>7. NoRival(w, row)
    BY <1>3, <1>6
  <1>8. Overlaid(memories, rows) = Insert(View(w), c, row)
    BY <1>2, OverlaidInsert DEF After
  <1>9. WritesOwn(w, rows)
    BY <1>1, <1>3, <1>6, <1>7, OwnAlready, InsertsOwn
  <1>10. row = Reinforced(View(w)[c], Claimed(w), at)
    OBVIOUS
  <1>11. DOMAIN rows = DOMAIN x.rows \cup {c}
    BY DEF Insert
  <1> HIDE DEF row, rows
  <1>12. Writable(w, rows)
    <2> DEFINE table == Insert(View(w), c, row)
    <2>1. /\ DOMAIN table = DOMAIN View(w) /\ table[c] = row
          /\ \A i \in DOMAIN View(w) \ {c} : table[i] = View(w)[i]
      BY <1>5 DEF Insert
    <2>2. table = Overlaid(memories, rows)
      BY <1>8
    <2>3. table = [View(w) EXCEPT ![c] = Reinforced(@, Claimed(w), at)]
      BY <1>4, <1>5, <1>10 DEF Sound, IsTable, Insert
    <2> HIDE DEF table
    <2>4. Sound(table) /\ Extends(View(w), table)
      BY <1>1, <1>3, <1>4, <2>3, ReinforceSound
    <2>5. \A i \in DOMAIN rows \cup x.locks : table[i].by \in DOMAIN rows \cup x.locks \cup {None}
      <3>1. \A i \in Own(x) : i \in DOMAIN View(w) /\ View(w)[i].by \in Own(x) \cup {None}
        BY <1>1, OwnIsViewed
      <3>2. \A i \in Own(x) : table[i].by = View(w)[i].by
        BY <1>6, <2>1, <3>1
      <3>3. QED
        BY <1>3, <1>11, <3>1, <3>2 DEF Own
    <2>6. QED
      BY <1>9, <2>2, <2>4, <2>5, OwnIsWritable
  <1>13. QED
    BY <1>1, <1>3, <1>12, WriteInv

LEMMA BackfillInv == ASSUME Inv, NEW w \in Worker, Backfill(w) PROVE Inv'
  <1> DEFINE x == tx[w]
             at == x.event.occurred
             c == x.current
             taken == View(w)[c].from
             row == NewRow(Claimed(w), at, taken, c)
             id == NewId
             rows == Insert(x.rows, id, row)
  <1>1. /\ Resolving(w) /\ Running(w) /\ Claimed(w) \in Claim /\ at \in Time
        /\ Write(w, rows, id) /\ Answered(w) /\ c # None /\ id \in Fresh /\ at < taken
    BY ResolvingFacts, NewIdIsFresh DEF Backfill, Answered
  <1>2. /\ Ready(memories, x) /\ View(w) = After(memories, x)
    BY <1>1, RunningFacts
  <1>3. /\ c \in MemoryId /\ c \in x.locks /\ c \in CurrentFor(View(w), Claimed(w))
    BY <1>1, AnsweredFacts
  <1>4. Sound(View(w))
    BY <1>2 DEF Ready, Mergeable
  <1>5. c \in DOMAIN View(w) /\ View(w)[c] \in Row
    BY <1>3, <1>4 DEF CurrentFor, Sound, IsTable
  <1>6. id \in MemoryId /\ id \notin DOMAIN View(w)
    BY <1>1, FreshIsNobodys
  <1>7. row \in Row /\ row.by = c /\ ~IsCurrent(row)
    <2>1. taken \in Time /\ taken # None
      BY <1>5, NoneIsNoId DEF Row
    <2>2. QED
      BY <1>1, <1>3, <2>1, NewRowType DEF NewRow, IsCurrent
  <1>8. NoRival(w, row)
    BY <1>7 DEF NoRival
  <1>9. Overlaid(memories, rows) = Insert(View(w), id, row)
    BY <1>2, OverlaidInsert DEF After
  <1>10. WritesOwn(w, rows)
    BY <1>1, <1>6, <1>7, <1>8, OwnAlready, InsertsOwn
  <1>11. row = NewRow(Claimed(w), at, View(w)[c].from, c) /\ at < View(w)[c].from
    BY <1>1
  <1>12. DOMAIN rows = DOMAIN x.rows \cup {id}
    BY DEF Insert
  <1> HIDE DEF row, id, rows, taken
  <1>13. Writable(w, rows)
    <2> DEFINE table == Insert(View(w), id, row)
    <2>1. /\ table[id] = row /\ \A i \in DOMAIN View(w) : table[i] = View(w)[i]
      BY <1>6 DEF Insert
    <2>2. table = Overlaid(memories, rows)
      BY <1>9
    <2>3. Sound(table) /\ Extends(View(w), table)
      BY <1>1, <1>3, <1>4, <1>6, <1>11, BackfillSound
    <2> HIDE DEF table
    <2>4. \A i \in DOMAIN rows \cup x.locks : table[i].by \in DOMAIN rows \cup x.locks \cup {None}
      <3>1. \A i \in Own(x) : table[i].by \in Own(x) \cup {None}
        BY <1>1, <2>1, OwnIsViewed
      <3>2. QED
        BY <1>3, <1>7, <1>12, <2>1, <3>1 DEF Own
    <2>5. QED
      BY <1>10, <2>2, <2>3, <2>4, OwnIsWritable
  <1>14. QED
    BY <1>1, <1>6, <1>13, WriteInv

LEMMA SupersedeInv == ASSUME Inv, NEW w \in Worker, Supersede(w) PROVE Inv'
  <1> DEFINE x == tx[w]
             at == x.event.occurred
             c == x.current
             id == NewId
             shut == [View(w)[c] EXCEPT !.to = at, !.by = id]
             row == NewRow(Claimed(w), at, None, None)
             half == Insert(x.rows, c, shut)
             rows == Insert(half, id, row)
  <1>1. /\ Resolving(w) /\ Running(w) /\ Claimed(w) \in Claim /\ at \in Time
        /\ Write(w, rows, id) /\ Answered(w) /\ c # None /\ id \in Fresh
        /\ at >= View(w)[c].from
    BY ResolvingFacts, NewIdIsFresh DEF Supersede, Answered
  <1>2. /\ Ready(memories, x) /\ View(w) = After(memories, x)
    BY <1>1, RunningFacts
  <1>3. /\ c \in MemoryId /\ c \in x.locks /\ c \in CurrentFor(View(w), Claimed(w))
        /\ Supersedes(Claimed(w).kind)
    BY <1>1, AnsweredFacts
  <1>4. Sound(View(w))
    BY <1>2 DEF Ready, Mergeable
  <1>5. c \in DOMAIN View(w) /\ View(w)[c] \in Row
    BY <1>3, <1>4 DEF CurrentFor, Sound, IsTable
  <1>6. id \in MemoryId /\ id \notin DOMAIN View(w) /\ id # c
    BY <1>1, <1>5, FreshIsNobodys
  <1>7. shut \in Row /\ shut.by = id /\ ~IsCurrent(shut)
    <2>1. at # None
      BY <1>1, NoneIsNoId
    <2>2. QED
      BY <1>1, <1>5, <1>6, <2>1 DEF Row, IsCurrent
  <1>8. row \in Row /\ SameKey(row, Claimed(w)) /\ row.by = None
    BY <1>1, NewRowType DEF NewRow, SameKey
  <1>9. NoRival(w, shut)
    BY <1>7 DEF NoRival
  <1>10. InsertsOpen(w)
    BY <1>1, <1>3 DEF Supersede, Answered, InsertsOpen
  <1>11. NoRival(w, row)
    BY <1>1, <1>8, <1>10, InsertedAlone
  <1>12. /\ DOMAIN half = DOMAIN x.rows \cup {c}
         /\ DOMAIN rows = DOMAIN x.rows \cup {c, id}
    BY DEF Insert
  <1>13. row = NewRow(Claimed(w), at, None, None)
         /\ shut = [View(w)[c] EXCEPT !.to = at, !.by = id]
    OBVIOUS
  <1>14. rows = Insert(half, id, row) /\ half = Insert(x.rows, c, shut)
    OBVIOUS
  <1> HIDE DEF row, id, rows, half, shut
  <1>15. Overlaid(memories, rows) = Insert(Insert(View(w), c, shut), id, row)
    <2>1. Overlaid(memories, half) = Insert(View(w), c, shut)
      BY <1>2, <1>14, OverlaidInsert DEF After
    <2>2. Overlaid(memories, rows) = Insert(Overlaid(memories, half), id, row)
      BY <1>14, OverlaidInsert
    <2>3. QED
      BY <2>1, <2>2
  <1>16. WritesOwn(w, rows)
    <2>1. WritesOwn(w, half)
      BY <1>1, <1>3, <1>7, <1>9, <1>14, OwnAlready, InsertsOwn
    <2>2. QED
      BY <1>1, <1>6, <1>8, <1>11, <1>14, <2>1, InsertsOwn
  <1>17. Writable(w, rows)
    <2> DEFINE table == Insert(Insert(View(w), c, shut), id, row)
    <2>1. /\ DOMAIN table = DOMAIN View(w) \cup {id}
          /\ table[id] = row /\ table[c] = shut
          /\ \A i \in DOMAIN View(w) \ {c} : table[i] = View(w)[i]
      BY <1>5, <1>6 DEF Insert
    <2>2. table = Overlaid(memories, rows)
      BY <1>15
    <2> DEFINE closed == [View(w) EXCEPT ![c].to = at]
               inserted == Insert(closed, id, NewRow(Claimed(w), at, None, None))
               linked == [inserted EXCEPT ![c].by = id]
    <2>3. ~(at < View(w)[c].from)
      <3>1. View(w)[c].from \in Nat
        BY <1>5, TimeAssumption DEF Row
      <3>2. at \in Nat
        BY <1>1, TimeAssumption
      <3> HIDE DEF at
      <3>3. QED
        BY <1>1, <3>1, <3>2
    <2>4. Sound(linked) /\ Extends(View(w), linked)
      BY <1>1, <1>3, <1>4, <1>6, <2>3, SupersedeSound
    <2>5. table = linked
      <3>1. /\ DOMAIN inserted = DOMAIN View(w) \cup {id} /\ inserted[id] = row
            /\ inserted[c] = [View(w)[c] EXCEPT !.to = at]
            /\ \A i \in DOMAIN View(w) \ {c} : inserted[i] = View(w)[i]
        BY <1>4, <1>5, <1>6, <1>13 DEF Sound, IsTable, Insert
      <3> HIDE DEF inserted
      <3>2. [inserted[c] EXCEPT !.by = id] = shut
        BY <1>5, <1>13, <3>1 DEF Row
      <3>3. /\ DOMAIN linked = DOMAIN View(w) \cup {id} /\ linked[id] = row
            /\ linked[c] = shut
            /\ \A i \in DOMAIN View(w) \ {c} : linked[i] = View(w)[i]
        BY <1>5, <1>6, <3>1, <3>2
      <3>4. linked = [i \in DOMAIN linked |-> linked[i]]
        OBVIOUS
      <3>5. table = [i \in DOMAIN table |-> table[i]]
        BY DEF Insert
      <3> HIDE DEF linked, table
      <3>6. \A i \in DOMAIN table : table[i] = linked[i]
        BY <2>1, <3>3
      <3>7. QED
        BY <2>1, <3>3, <3>4, <3>5, <3>6
    <2>6. Sound(table) /\ Extends(View(w), table)
      BY <2>4, <2>5
    <2> HIDE DEF table
    <2>7. \A i \in DOMAIN rows \cup x.locks : table[i].by \in DOMAIN rows \cup x.locks \cup {None}
      <3>1. \A i \in Own(x) : i \in DOMAIN View(w) /\ View(w)[i].by \in Own(x) \cup {None}
        BY <1>1, OwnIsViewed
      <3>2. \A i \in Own(x) \ {c} : table[i].by \in Own(x) \cup {None}
        BY <2>1, <3>1
      <3>3. QED
        BY <1>3, <1>7, <1>8, <1>12, <2>1, <3>2 DEF Own
    <2>8. QED
      BY <1>16, <2>2, <2>6, <2>7, OwnIsWritable
  <1>18. QED
    BY <1>1, <1>6, <1>17, WriteInv

-----------------------------------------------------------------------------
(* Process: expertise, and the commit.                                     *)

LEMMA recordExpertiseInv == ASSUME Inv, NEW w \in Worker, recordExpertise(w) PROVE Inv'
  <1> DEFINE x == tx[w]
             y == [x EXCEPT !.credits = @ \cup {Head(x.owed)}, !.owed = Tail(@)]
  <1>1. Running(w) /\ x.stage = "resolving" /\ x.owed # <<>>
    BY DEF recordExpertise, MayRun
  <1>2. x \in Tx /\ Ready(memories, x) /\ \A v \in Others(w) : Apart(tx[v], x)
    BY <1>1, RunningFacts
  <1>3. x.owed \in Seq(Topic) /\ Head(x.owed) \in Topic /\ Tail(x.owed) \in Seq(Topic)
    BY <1>1, <1>2 DEF Tx
  <1>4. y \in Tx
    BY <1>2, <1>3 DEF Tx
  <1>5. /\ y.rows = x.rows /\ y.locks = x.locks /\ y.todo = x.todo /\ y.event = x.event
        /\ y.current = x.current /\ y.awaited = x.awaited
        /\ Committing(x) /\ Committing(y)
    BY <1>1, <1>2 DEF Tx, Committing
  <1>6. tx' = [tx EXCEPT ![w] = y] /\ UNCHANGED <<tables, delivered>>
    BY DEF recordExpertise, Inv
  <1> HIDE DEF x, y
  <1>7. Resolves(memories, y) /\ Deletes(memories, y)
    BY <1>2, <1>5 DEF Ready, Resolves, Deletes, Found, After
  <1>8. Ready(memories, y) /\ \A v \in Others(w) : Apart(tx[v], y)
    BY <1>2, <1>5, <1>7, SameWrites
  <1>9. QED
    BY <1>4, <1>6, <1>8, GoesOnInv DEF Inv, TablesInv

LEMMA FinishCommitInv == ASSUME Inv, NEW w \in Worker, FinishCommit(w) PROVE Inv'
  <1> DEFINE u == tx[w].event
  <1>1. Running(w) /\ tx[w].stage = "resolving"
    BY DEF FinishCommit, MayRun
  <1>2. tx[w] \in Tx /\ Ready(memories, tx[w])
    BY <1>1, RunningFacts
  <1>3. u \in Upsert
    BY <1>1, <1>2 DEF Ready, Resolves, Committing
  <1>4. u.episode \in Episode /\ u.document \in Document
    BY <1>3, EventAssumption
  <1>5. tx[w].links \subseteq MemoryId
    BY <1>2 DEF Tx
  <1>6. /\ provenance \subseteq MemoryId \X Episode /\ ingested \subseteq Episode
        /\ episodes \in [Episode -> Document \cup {None}]
    BY DEF Inv, TablesInv
  <1>7. /\ provenance' = provenance \cup (tx[w].links \X {u.episode})
        /\ episodes' = [episodes EXCEPT ![u.episode] =
                          IF episodes[u.episode] = None THEN u.document ELSE episodes[u.episode]]
        /\ ingested' = ingested \cup {u.episode}
        /\ memories' = View(w) /\ tx' = [tx EXCEPT ![w] = None] /\ UNCHANGED delivered
    BY DEF FinishCommit
  <1> HIDE DEF u
  <1>8. provenance' \subseteq MemoryId \X Episode
    BY <1>4, <1>5, <1>6, <1>7
  <1>9. episodes' \in [Episode -> Document \cup {None}]
    BY <1>4, <1>6, <1>7
  <1>10. ingested' \subseteq Episode
    BY <1>4, <1>6, <1>7
  <1>11. QED
    BY <1>1, <1>7, <1>8, <1>9, <1>10, CommitsInv

LEMMA FailInv == ASSUME Inv, NEW w \in Worker, Abandon(w) PROVE Inv'
  BY AbandonInv DEF Abandon

-----------------------------------------------------------------------------
(* InvalidateByDocument. *)

LEMMA InvalidateByDocumentInv ==
    ASSUME Inv, NEW w \in Worker, NEW d \in Deletion, InvalidateByDocument(w, d)
    PROVE  Inv'
  <1> DEFINE derived == {i \in DOMAIN memories :
                           \E e \in Episode : <<i, e>> \in provenance /\ episodes[e] = d.document}
  <1>1. UNCHANGED tables /\ delivered' \in [Upsert \cup Deletion -> 0..MaxDeliver]
    BY DeliverType DEF InvalidateByDocument
  <1>2. derived \subseteq DOMAIN memories /\ derived \subseteq MemoryId
    BY DEF Inv, TablesInv, Sound, IsTable
  <1>3. CASE derived = {}
    <2>1. tx' = tx
      BY <1>3 DEF InvalidateByDocument
    <2>2. QED
      BY <1>1, <2>1 DEF Inv, TablesInv, Running, tables
  <1>4. CASE derived # {}
    <2> DEFINE y == [Begun(d, "selected") EXCEPT !.derived = derived]
    <2>1. tx' = [tx EXCEPT ![w] = y]
      BY <1>4 DEF InvalidateByDocument
    <2> HIDE DEF derived
    <2>2. Begun(d, "selected") \in Tx /\ DOMAIN Begun(d, "selected").rows = {}
      BY BegunFacts DEF Stage
    <2>3. y \in Tx
      BY <1>2, <2>2 DEF Tx
    <2>4. /\ DOMAIN y.rows = {} /\ y.locks = {} /\ y.current = NotAsked /\ y.ids = <<>>
          /\ ~Committing(y) /\ y.event = d /\ y.derived = derived
      BY <2>2 DEF Begun, Committing
    <2> HIDE DEF y
    <2>5. Ready(memories, y) /\ \A v \in Others(w) : Apart(tx[v], y)
      BY <1>2, <2>4, BegunReady, FS_EmptySet DEF Inv, TablesInv
    <2>6. QED
      BY <1>1, <2>1, <2>3, <2>5, GoesOnInv
  <1>5. QED
    BY <1>3, <1>4

\* A deletion that goes on to other rows, and writes none.
LEMMA DeletionGoesOn ==
    ASSUME Inv, NEW w \in Worker, Running(w), ~Committing(tx[w]), NEW y \in Tx,
           y.event = tx[w].event, y.rows = tx[w].rows, y.locks = tx[w].locks,
           y.current = tx[w].current, y.derived = tx[w].derived, ~Committing(y),
           \A n \in DOMAIN y.ids : y.ids[n] \in DOMAIN memories,
           tx' = [tx EXCEPT ![w] = y], UNCHANGED <<tables, delivered>>
    PROVE  Inv'
  <1> DEFINE x == tx[w]
  <1>1. Ready(memories, x) /\ \A v \in Others(w) : Apart(tx[v], x)
    BY RunningFacts
  <1>2. /\ y.rows = x.rows /\ y.locks = x.locks /\ y.current = x.current
        /\ y.event = x.event /\ y.derived = x.derived /\ ~Committing(x)
    OBVIOUS
  <1> HIDE DEF x
  <1>3. Deletes(memories, y)
    BY <1>1, <1>2 DEF Ready, Deletes
  <1>4. Resolves(memories, y)
    BY <1>3, AnswerAssumption DEF Deletes, Resolves, Found, NotAsked, Waiting
  <1>5. Ready(memories, y) /\ \A v \in Others(w) : Apart(tx[v], y)
    BY <1>1, <1>2, <1>3, <1>4, SameWrites
  <1>6. QED
    BY <1>5, GoesOnInv DEF Inv, TablesInv

LEMMA DeletingFacts ==
    ASSUME Inv, NEW w \in Worker, Running(w), ~Committing(tx[w])
    PROVE  /\ tx[w] \in Tx /\ tx[w].event \in Deletion /\ tx[w].event.occurred \in Time
           /\ tx[w].derived \subseteq DOMAIN memories /\ IsFiniteSet(tx[w].derived)
           /\ tx[w].ids \in Seq(DOMAIN memories) /\ DOMAIN memories \subseteq MemoryId
  <1>1. tx[w] \in Tx /\ Ready(memories, tx[w])
    BY RunningFacts
  <1>2. /\ tx[w].event \in Deletion /\ tx[w].derived \subseteq DOMAIN memories
        /\ \A n \in DOMAIN tx[w].ids : tx[w].ids[n] \in DOMAIN memories
    BY <1>1 DEF Ready, Deletes
  <1>3. tx[w].event.occurred \in Time
    BY <1>2, EventAssumption
  <1>4. IsFiniteSet(tx[w].derived)
    BY <1>2, FS_Subset DEF Inv, TablesInv
  <1>5. tx[w].ids \in Seq(MemoryId)
    BY <1>1 DEF Tx
  <1>6. tx[w].ids \in Seq(DOMAIN memories)
    BY <1>2, <1>5
  <1>7. DOMAIN memories \subseteq MemoryId
    BY DEF Inv, TablesInv, Sound, IsTable
  <1>8. QED
    BY <1>1, <1>2, <1>3, <1>4, <1>6, <1>7

\* Rows are taken in some order, all of them rows of the table.
LEMMA OrderedInv ==
    ASSUME Inv, NEW w \in Worker, Running(w), ~Committing(tx[w]),
           NEW S, S \subseteq tx[w].derived, NEW ids \in Orders(S),
           NEW stage \in {"closing", "auditing"},
           tx' = [tx EXCEPT ![w].stage = stage, ![w].ids = ids],
           UNCHANGED <<tables, delivered>>
    PROVE  Inv'
  <1> DEFINE x == tx[w]
             y == [x EXCEPT !.stage = stage, !.ids = ids]
  <1>1. /\ x \in Tx /\ x.derived \subseteq DOMAIN memories /\ IsFiniteSet(x.derived)
        /\ DOMAIN memories \subseteq MemoryId
    BY DeletingFacts
  <1>2. ids \in Seq(S)
    BY <1>1, FS_Subset, OrdersFacts
  <1>3. ids \in Seq(MemoryId) /\ \A n \in DOMAIN ids : ids[n] \in DOMAIN memories
    BY <1>1, <1>2
  <1>4. y \in Tx
    BY <1>1, <1>3 DEF Tx, Stage
  <1>5. /\ y.event = x.event /\ y.rows = x.rows /\ y.locks = x.locks
        /\ y.current = x.current /\ y.derived = x.derived /\ y.ids = ids /\ ~Committing(y)
    BY <1>1 DEF Tx, Committing
  <1>6. tx' = [tx EXCEPT ![w] = y]
    BY DEF Inv
  <1> HIDE DEF y
  <1>7. QED
    BY <1>3, <1>4, <1>5, <1>6, DeletionGoesOn

LEMMA RestFacts ==
    ASSUME NEW S, NEW T, S \subseteq T, NEW s \in Seq(S), s # <<>>
    PROVE  /\ Head(s) \in S /\ Tail(s) \in Seq(T)
           /\ \A n \in DOMAIN Tail(s) : Tail(s)[n] \in S
  <1>1. Head(s) \in S /\ Tail(s) \in Seq(S)
    BY HeadTailProperties
  <1> DEFINE rest == Tail(s)
  <1> HIDE DEF rest
  <1>2. rest \in Seq(S)
    BY <1>1 DEF rest
  <1>3. rest \in Seq(T) /\ \A n \in DOMAIN rest : rest[n] \in S
    BY <1>2
  <1>4. QED
    BY <1>1, <1>3 DEF rest

\* One row is done with.
LEMMA NextRowInv ==
    ASSUME Inv, NEW w \in Worker, Running(w), ~Committing(tx[w]), tx[w].ids # <<>>,
           tx' = [tx EXCEPT ![w].ids = Tail(@)], UNCHANGED <<tables, delivered>>
    PROVE  Inv'
  <1> DEFINE x == tx[w]
             y == [x EXCEPT !.ids = Tail(@)]
  <1>1. x \in Tx /\ x.ids \in Seq(DOMAIN memories) /\ DOMAIN memories \subseteq MemoryId
    BY DeletingFacts
  <1>2. Tail(x.ids) \in Seq(MemoryId) /\ \A n \in DOMAIN Tail(x.ids) : Tail(x.ids)[n] \in DOMAIN memories
    BY <1>1, RestFacts
  <1>3. y \in Tx
    BY <1>1, <1>2 DEF Tx
  <1>4. /\ y.event = x.event /\ y.rows = x.rows /\ y.locks = x.locks
        /\ y.current = x.current /\ y.derived = x.derived /\ y.ids = Tail(x.ids) /\ ~Committing(y)
    BY <1>1 DEF Tx, Committing
  <1>5. tx' = [tx EXCEPT ![w] = y]
    BY DEF Inv
  <1> HIDE DEF y
  <1>6. QED
    BY <1>2, <1>3, <1>4, <1>5, DeletionGoesOn

LEMMA CloseRowsInv == ASSUME Inv, NEW w \in Worker, CloseRows(w) PROVE Inv'
  <1>1. Running(w) /\ ~Committing(tx[w])
    BY DEF CloseRows, MayRun, Committing
  <1>2. Closing(tx[w].derived, tx[w].event.document) \subseteq tx[w].derived
    BY DEF Closing
  <1>3. QED
    BY <1>1, <1>2, OrderedInv DEF CloseRows

LEMMA AuditRowsInv == ASSUME Inv, NEW w \in Worker, AuditRows(w) PROVE Inv'
  <1>1. Running(w) /\ ~Committing(tx[w])
    BY DEF AuditRows, MayRun, Committing
  <1>2. QED
    BY <1>1, OrderedInv DEF AuditRows

LEMMA recordInvalidationInv == ASSUME Inv, NEW w \in Worker, recordInvalidation(w) PROVE Inv'
  <1>1. Running(w) /\ ~Committing(tx[w])
    BY DEF recordInvalidation, MayRun, Committing
  <1>2. QED
    BY <1>1, NextRowInv DEF recordInvalidation

LEMMA FinishDeletionInv == ASSUME Inv, NEW w \in Worker, FinishDeletion(w) PROVE Inv'
  <1>1. Running(w)
    BY DEF FinishDeletion, MayRun
  <1>2. UNCHANGED <<provenance, episodes, ingested>>
    BY DEF FinishDeletion
  <1>3. /\ provenance' \subseteq MemoryId \X Episode /\ ingested' \subseteq Episode
        /\ episodes' \in [Episode -> Document \cup {None}]
    BY <1>2 DEF Inv, TablesInv
  <1>4. QED
    BY <1>1, <1>3, CommitsInv DEF FinishDeletion

LEMMA ClosedKeysApart ==
    ASSUME NEW a, NEW b, KeysApart(a, b), NEW id, NEW row, ~IsCurrent(row)
    PROVE  KeysApart(a, Insert(b, id, row))
  BY DEF KeysApart, Insert

LEMMA CloseRowInv == ASSUME Inv, NEW w \in Worker, CloseRow(w) PROVE Inv'
  <1> DEFINE x == tx[w]
             i == Head(x.ids)
             at == x.event.occurred
             row == [memories[i] EXCEPT !.to = at]
             rows == Insert(x.rows, i, row)
             y == [x EXCEPT !.ids = Tail(@), !.rows = rows, !.locks = @ \cup {i}]
  <1>1. /\ Running(w) /\ ~Committing(x) /\ x.ids # <<>> /\ UNCHANGED <<tables, delivered>>
        /\ RowHolders(w, i) = {}
    BY HeadIsFree DEF CloseRow, MayRun, Committing
  <1>2. CASE ~StillOpen(i)
    BY <1>1, <1>2, NextRowInv DEF CloseRow
  <1>3. CASE StillOpen(i) /\ ~SchemaAccepts(Overlaid(memories, rows))
    <2>1. tx' = [tx EXCEPT ![w] = None]
      BY <1>3 DEF CloseRow
    <2>2. QED
      BY <1>1, <2>1, AbandonInv
  <1>4. CASE StillOpen(i) /\ SchemaAccepts(Overlaid(memories, rows))
    <2>1. /\ x \in Tx /\ x.event \in Deletion /\ at \in Time
          /\ x.derived \subseteq DOMAIN memories
          /\ x.ids \in Seq(DOMAIN memories) /\ DOMAIN memories \subseteq MemoryId
      BY <1>1, DeletingFacts
    <2>2. /\ Ready(memories, x) /\ IsTable(x.rows)
          /\ \A v \in Others(w) : Apart(tx[v], x)
      BY <1>1, RunningFacts
    <2>3. i \in DOMAIN memories /\ i \in MemoryId
      BY <1>1, <2>1
    <2>5. Tail(x.ids) \in Seq(MemoryId) /\ \A n \in DOMAIN Tail(x.ids) : Tail(x.ids)[n] \in DOMAIN memories
      BY <1>1, <2>1, RestFacts
    <2>6. Sound(memories) /\ memories[i] \in Row /\ memories[i].to = None
      BY <1>4, <2>3 DEF Inv, TablesInv, Sound, IsTable, StillOpen
    <2>7. memories[i].by = None
      BY <2>3, <2>6 DEF Sound, SchemaAccepts, memories_supersede_ck
    <2>8. at # None
      BY <2>1, NoneIsNoId
    <2>9. row \in Row /\ row.by = None /\ ~IsCurrent(row)
      BY <2>1, <2>6, <2>7, <2>8 DEF Row, IsCurrent
    <2>10. rows \in Tables
      BY <2>2, <2>3, <2>9, InsertType, TablesAreTables
    <2>11. y \in Tx
      BY <2>1, <2>3, <2>5, <2>10 DEF Tx
    <2>12. tx' = [tx EXCEPT ![w] = y]
      BY <1>4 DEF CloseRow, Inv, Locked
    <2>13. /\ y.rows = rows /\ y.locks = x.locks \cup {i} /\ y.ids = Tail(x.ids)
           /\ y.event = x.event /\ y.current = x.current /\ y.derived = x.derived
           /\ ~Committing(y)
      BY <1>1, <2>1 DEF Tx, Committing
    <2>14. /\ DOMAIN rows = DOMAIN x.rows \cup {i} /\ rows[i] = row
           /\ \A j \in DOMAIN x.rows \ {i} : rows[j] = x.rows[j]
      BY DEF Insert
    <2>15. rows = Insert(x.rows, i, row) /\ row = [memories[i] EXCEPT !.to = at]
      OBVIOUS
    <2> HIDE DEF y, rows, row
    <2> DEFINE before == After(memories, x)
               after == After(memories, y)
    <2>16. IsAfter(memories, x, before)
      BY AfterFacts
    <2>17. after = Insert(before, i, row)
      BY <2>13, <2>15, OverlaidInsert DEF After
    <2>18. Sound(before) /\ Extends(memories, before) /\ IsFiniteSet(DOMAIN x.rows)
      BY <2>2 DEF Ready, Mergeable
    <2>19. SchemaAccepts(after)
      BY <1>4, <2>13 DEF After
    <2> HIDE DEF before, after
    <2>20. i \in DOMAIN before
      BY <2>3, <2>16 DEF IsAfter
    <2>21. Sound(after) /\ Extends(before, after)
      <3>1. CASE i \in DOMAIN x.rows
        <4>1. before[i] = row
          BY <1>1, <2>2, <2>15, <2>16, <3>1 DEF Ready, Deletes, IsAfter
        <4>2. after = before
          BY <2>17, <2>18, <2>20, <4>1 DEF Insert, Sound, IsTable
        <4>3. QED
          BY <2>18, <4>2 DEF Extends, SameMemory, SameKey
      <3>2. CASE i \notin DOMAIN x.rows
        <4>1. before[i] = memories[i]
          BY <2>3, <2>16, <3>2 DEF IsAfter
        <4>2. after = Closed(before, {i}, at)
          BY <2>15, <2>17, <2>20, <4>1 DEF Insert, Closed
        <4>3. \A j \in {i} \cap DOMAIN before : before[j].to = None
          BY <2>6, <4>1
        <4>4. QED
          BY <2>1, <2>18, <2>19, <4>2, <4>3, ClosedSound
      <3>3. QED
        BY <3>1, <3>2
    <2>22. Mergeable(memories, y)
      <3>1. Extends(memories, after)
        BY <2>18, <2>21, ExtendsTransitive
      <3>2. IsFiniteSet(DOMAIN x.rows \cup {i})
        BY <2>18, FS_AddElement
      <3>3. QED
        BY <2>13, <2>14, <2>21, <3>1, <3>2 DEF Mergeable, after
    <2>23. /\ DOMAIN after = DOMAIN before /\ after[i] = row
           /\ \A j \in DOMAIN before \ {i} : after[j] = before[j]
      BY <2>17, <2>20 DEF Insert
    <2>24. Own(y) = Own(x) \cup {i}
      BY <2>13, <2>14 DEF Own
    <2>25. Holds(memories, y)
      <3>1. /\ x.locks \subseteq DOMAIN before
            /\ DOMAIN x.rows \cap DOMAIN memories \subseteq x.locks
            /\ \A j \in Own(x) : j \in DOMAIN before /\ before[j].by \in Own(x) \cup {None}
        BY <2>2, <2>16 DEF Ready, Holds, before, Own, IsAfter
      <3>2. \A j \in Own(y) : after[j].by \in Own(y) \cup {None}
        BY <2>9, <2>23, <2>24, <3>1
      <3>3. QED
        BY <2>13, <2>14, <2>20, <2>23, <3>1, <3>2 DEF Holds, after
    <2>26. Deletes(memories, y)
      <3>1. /\ x.current = NotAsked
            /\ \A j \in DOMAIN x.rows : /\ j \in DOMAIN memories /\ memories[j].to = None
                                        /\ x.rows[j] = [memories[j] EXCEPT !.to = at]
        BY <1>1, <2>2 DEF Ready, Deletes
      <3>2. \A j \in DOMAIN rows : /\ j \in DOMAIN memories /\ memories[j].to = None
                                   /\ rows[j] = [memories[j] EXCEPT !.to = at]
        BY <2>3, <2>6, <2>14, <2>15, <3>1
      <3>3. QED
        BY <2>1, <2>5, <2>13, <3>1, <3>2 DEF Deletes
    <2>27. Resolves(memories, y)
      BY <2>13, <2>26, AnswerAssumption DEF Deletes, Resolves, Found, NotAsked, Waiting
    <2>28. ASSUME NEW v \in Others(w)
           PROVE  Apart(tx[v], y)
      <3>1. i \notin Own(tx[v])
        BY <1>1, <2>3, FreeRow
      <3>2. KeysApart(tx[v].rows, y.rows)
        BY <2>2, <2>9, <2>13, <2>15, ClosedKeysApart DEF Apart
      <3>3. QED
        BY <2>2, <2>24, <3>1, <3>2 DEF Apart
    <2>29. Ready(memories, y)
      BY <2>22, <2>25, <2>26, <2>27 DEF Ready
    <2>30. QED
      BY <1>1, <2>11, <2>12, <2>28, <2>29, GoesOnInv DEF Inv, TablesInv
  <1>5. QED
    BY <1>2, <1>3, <1>4

-----------------------------------------------------------------------------
(* The theorems. *)

LEMMA CommitStepInv == ASSUME Inv, NEW w \in Worker, CommitStep(w) PROVE Inv'
  <1>1. CASE SaveEpisode(w)
    BY <1>1, SaveEpisodeInv
  <1>2. CASE lockCurrent(w)
    BY <1>2, lockCurrentInv
  <1>3. CASE Wake(w)
    BY <1>3, WakeInv
  <1>4. CASE Create(w)
    BY <1>4, CreateInv
  <1>5. CASE Reinforce(w)
    BY <1>5, ReinforceInv
  <1>6. CASE Backfill(w)
    BY <1>6, BackfillInv
  <1>7. CASE Supersede(w)
    BY <1>7, SupersedeInv
  <1>8. CASE recordExpertise(w)
    BY <1>8, recordExpertiseInv
  <1>9. CASE FinishCommit(w)
    BY <1>9, FinishCommitInv
  <1>10. QED
    BY <1>1, <1>2, <1>3, <1>4, <1>5, <1>6, <1>7, <1>8, <1>9 DEF CommitStep

LEMMA DeletionStepInv == ASSUME Inv, NEW w \in Worker, DeletionStep(w) PROVE Inv'
  <1>1. CASE CloseRows(w)
    BY <1>1, CloseRowsInv
  <1>2. CASE CloseRow(w)
    BY <1>2, CloseRowInv
  <1>3. CASE AuditRows(w)
    BY <1>3, AuditRowsInv
  <1>4. CASE recordInvalidation(w)
    BY <1>4, recordInvalidationInv
  <1>5. CASE FinishDeletion(w)
    BY <1>5, FinishDeletionInv
  <1>6. QED
    BY <1>1, <1>2, <1>3, <1>4, <1>5 DEF DeletionStep

LEMMA StepInv == Inv /\ [Next]_vars => Inv'
  <1>1. SUFFICES ASSUME Inv, [Next]_vars PROVE Inv'
    OBVIOUS
  <1>2. CASE UNCHANGED vars
    BY <1>1, <1>2 DEF Inv, TablesInv, Running, vars, tables
  <1>3. CASE Next
    <2>1. PICK w \in Worker :
             \/ \E u \in Upsert, claims \in Extraction : Process(w, u, claims)
             \/ \E d \in Deletion : InvalidateByDocument(w, d)
             \/ CommitStep(w)
             \/ DeletionStep(w)
             \/ DeadlockDetected(w)
             \/ Fail(w)
      BY <1>3 DEF Next
    <2>2. CASE \E u \in Upsert, claims \in Extraction : Process(w, u, claims)
      BY <1>1, <2>2, ProcessInv
    <2>3. CASE \E d \in Deletion : InvalidateByDocument(w, d)
      BY <1>1, <2>3, InvalidateByDocumentInv
    <2>4. CASE CommitStep(w)
      BY <1>1, <2>4, CommitStepInv
    <2>5. CASE DeletionStep(w)
      BY <1>1, <2>5, DeletionStepInv
    <2>6. CASE DeadlockDetected(w) \/ Fail(w)
      BY <1>1, <2>6, FailInv DEF DeadlockDetected, Fail
    <2>7. QED
      BY <2>1, <2>2, <2>3, <2>4, <2>5, <2>6
  <1>4. QED
    BY <1>1, <1>2, <1>3

LEMMA InvHolds == Spec => []Inv
  <1>1. QED
    BY InitInv, StepInv, PTL DEF Spec

LEMMA TxIsTransaction == ASSUME NEW x \in Tx PROVE IsTransaction(x)
  <1>1. IsTable(x.rows)
    BY TablesAreTables DEF Tx
  <1>2. [f \in DOMAIN x \ {"rows"} |-> x[f]] \in Transaction
    BY DEF Tx, Transaction
  <1>3. QED
    BY <1>1, <1>2 DEF IsTransaction

\* However commits and deletions interleave, every table and every transaction is what the
\* code takes it for: what a transaction is halfway through its claims, its closes and its
\* audit entries included (commit.go, query.go).
THEOREM OverlapTypeCorrect == Spec => []TypeOK
  <1>1. Inv => TypeOK
    BY TxIsTransaction DEF Inv, TablesInv, TypeOK, Sound
  <1>2. QED
    BY <1>1, InvHolds, PTL

\* Any number of commits and deletions that overlap in READ COMMITTED transactions leave a
\* table the schema accepts, without a gap between a memory and its successor and without a
\* circle of successors: the row lock of lockCurrent and the wait for the partial unique
\* index are enough for that, READ COMMITTED or not (commit.go, 0001_memory.sql).
THEOREM OverlapIsSound == Spec => []OverlapLeavesSoundTable
  <1>1. Inv => OverlapLeavesSoundTable
    BY DEF Inv, TablesInv, OverlapLeavesSoundTable, Sound
  <1>2. QED
    BY <1>1, InvHolds, PTL

\* What commitOne compares a claim with is the current memory until commitOne has written:
\* SELECT ... FOR UPDATE keeps every other transaction from closing, moving or replacing it.
THEOREM AnsweredStaysCurrent == Spec => []ResolvesAgainstCurrent
  <1>1. ASSUME Inv, NEW w \in Worker, Running(w), tx[w].current \in MemoryId
        PROVE  IF tx[w].current \in DOMAIN tx[w].rows
               THEN IsCurrent(tx[w].rows[tx[w].current])
               ELSE IsCurrent(memories[tx[w].current])
    <2>1. Ready(memories, tx[w])
      BY <1>1, RunningFacts
    <2>2. IsAfter(memories, tx[w], After(memories, tx[w]))
      BY AfterFacts
    <2>3. Found(tx[w])
      BY <1>1, NoneIsNoId, AnswerAssumption DEF Found
    <2>4. tx[w].current \in DOMAIN After(memories, tx[w])
          /\ IsCurrent(After(memories, tx[w])[tx[w].current])
      BY <2>1, <2>3 DEF Ready, Resolves, CurrentFor
    <2>5. QED
      BY <2>2, <2>4 DEF IsAfter
  <1>2. Inv => ResolvesAgainstCurrent
    BY <1>1 DEF ResolvesAgainstCurrent
  <1>3. QED
    BY <1>2, InvHolds, PTL

-----------------------------------------------------------------------------
(***************************************************************************)
(* ConcurrentCommit implements SerialCommit: a transaction that commits    *)
(* leaves what its claims, resolved one after the other, make of the table *)
(* it commits on, whoever committed since it began.                        *)
(*                                                                         *)
(* Each transaction has a history: what it had written after each claim.   *)
(* The history is one of the table as it is now, and it stays one when     *)
(* another transaction commits, since the two are apart.                   *)
(***************************************************************************)

(* The words of SerialCommit are those of ConcurrentCommit. *)

LEMMA SerialWords ==
    ASSUME NEW table, NEW claim
    PROVE  /\ Serial!Supersedes(claim.kind) <=> Supersedes(claim.kind)
           /\ Serial!CurrentFor(table, claim) = CurrentFor(table, claim)
           /\ \A row : Serial!isRestatement(row, claim) <=> isRestatement(row, claim)
           /\ \A row, t : Serial!Reinforced(row, claim, t) = Reinforced(row, claim, t)
           /\ \A t, to, by : Serial!NewRow(claim, t, to, by) = NewRow(claim, t, to, by)
           /\ \A id, row : Serial!Insert(table, id, row) = Insert(table, id, row)
  <1>1. Serial!CurrentFor(table, claim) = CurrentFor(table, claim)
    BY DEF Serial!CurrentFor, CurrentFor, Serial!IsCurrent, IsCurrent, Serial!SameKey, SameKey
  <1>2. \A row : Serial!isRestatement(row, claim) <=> isRestatement(row, claim)
    BY DEF Serial!isRestatement, isRestatement
  <1>3. \A row, t : Serial!Reinforced(row, claim, t) = Reinforced(row, claim, t)
    BY DEF Serial!Reinforced, Reinforced, Serial!Later, Later
  <1>4. QED
    BY <1>1, <1>2, <1>3
    DEF Serial!Supersedes, Supersedes, Serial!NewRow, NewRow, Serial!Insert, Insert

LEMMA ResolvedCreated ==
    ASSUME NEW table, NEW claim, NEW t, NEW id,
           Supersedes(claim.kind) => CurrentFor(table, claim) = {}
    PROVE  /\ ~Serial!Reinforces(table, claim)
           /\ Serial!Supported(table, claim, id) = id
           /\ Serial!Resolved(table, claim, t, id) = Insert(table, id, NewRow(claim, t, None, None))
  <1>1. Serial!Created(table, claim)
    BY SerialWords DEF Serial!Created
  <1>2. ~Serial!Reinforces(table, claim) /\ Serial!Supported(table, claim, id) = id
    BY <1>1 DEF Serial!Reinforces, Serial!Supported
  <1>3. Serial!Resolved(table, claim, t, id)
          = Serial!Insert(table, id, Serial!NewRow(claim, t, None, None))
    BY <1>1, <1>2 DEF Serial!Resolved
  <1>4. QED
    BY <1>2, <1>3, SerialWords

\* The claim is resolved against c, the one row current for it.
Finds(table, claim, c, row) ==
    Supersedes(claim.kind) /\ CurrentFor(table, claim) = {c} /\ row = table[c]

LEMMA FoundWords ==
    ASSUME NEW table, NEW claim, NEW c, NEW row, Finds(table, claim, c, row)
    PROVE  /\ ~Serial!Created(table, claim) /\ Serial!Current(table, claim) = c
           /\ Serial!Reinforces(table, claim) <=> isRestatement(row, claim)
           /\ c \in DOMAIN table /\ row = table[c]
  <1>1. Serial!CurrentFor(table, claim) = {c} /\ Serial!Supersedes(claim.kind)
    BY SerialWords DEF Finds
  <1>2. ~Serial!Created(table, claim) /\ Serial!Current(table, claim) = c
    BY <1>1 DEF Serial!Created, Serial!Current
  <1>3. c \in DOMAIN table /\ row = table[c]
    BY DEF CurrentFor, Finds
  <1>4. Serial!Reinforces(table, claim) <=> isRestatement(row, claim)
    BY <1>2, <1>3, SerialWords DEF Serial!Reinforces
  <1>5. QED
    BY <1>2, <1>3, <1>4

LEMMA ResolvedReinforced ==
    ASSUME NEW table, NEW claim, NEW c, NEW row, Finds(table, claim, c, row),
           isRestatement(row, claim), NEW t, NEW id
    PROVE  /\ Serial!Supported(table, claim, id) = c
           /\ Serial!Resolved(table, claim, t, id)
                = Insert(table, c, Reinforced(row, claim, t))
  <1>1. /\ ~Serial!Created(table, claim) /\ Serial!Current(table, claim) = c
        /\ Serial!Reinforces(table, claim) /\ c \in DOMAIN table /\ row = table[c]
    BY FoundWords
  <1>2. Serial!Supported(table, claim, id) = c
    BY <1>1 DEF Serial!Supported
  <1>3. Serial!Resolved(table, claim, t, id)
          = [table EXCEPT ![c] = Serial!Reinforced(@, claim, t)]
    BY <1>1 DEF Serial!Resolved
  <1>4. Serial!Reinforced(table[c], claim, t) = Reinforced(table[c], claim, t)
    BY SerialWords
  <1>5. QED
    BY <1>1, <1>2, <1>3, <1>4 DEF Insert

LEMMA ResolvedBackfilled ==
    ASSUME NEW table, NEW claim, NEW c, NEW row, Finds(table, claim, c, row),
           ~isRestatement(row, claim), NEW t, t < row.from, NEW id
    PROVE  /\ Serial!Supported(table, claim, id) = id
           /\ Serial!Resolved(table, claim, t, id)
                = Insert(table, id, NewRow(claim, t, row.from, c))
  <1>1. /\ ~Serial!Created(table, claim) /\ Serial!Current(table, claim) = c
        /\ ~Serial!Reinforces(table, claim) /\ row = table[c]
    BY FoundWords
  <1>2. Serial!Supported(table, claim, id) = id
    BY <1>1 DEF Serial!Supported
  <1>3. Serial!Resolved(table, claim, t, id)
          = Serial!Insert(table, id, Serial!NewRow(claim, t, row.from, c))
    BY <1>1 DEF Serial!Resolved
  <1>4. QED
    BY <1>2, <1>3, SerialWords

\* The row that a claim closes.
Shut(row, t, id) == [row EXCEPT !.to = t, !.by = id]

LEMMA ResolvedSuperseded ==
    ASSUME NEW table, NEW claim, NEW c, NEW row, Finds(table, claim, c, row),
           ~isRestatement(row, claim), NEW t, ~(t < row.from), NEW id
    PROVE  /\ Serial!Supported(table, claim, id) = id
           /\ Serial!Resolved(table, claim, t, id)
                = Insert(Insert(table, c, Shut(row, t, id)), id, NewRow(claim, t, None, None))
  <1>1. /\ ~Serial!Created(table, claim) /\ Serial!Current(table, claim) = c
        /\ ~Serial!Reinforces(table, claim) /\ c \in DOMAIN table /\ row = table[c]
    BY FoundWords
  <1>2. Serial!Supported(table, claim, id) = id
    BY <1>1 DEF Serial!Supported
  <1> DEFINE closed == [table EXCEPT ![c].to = t, ![c].by = id]
  <1>3. Serial!Resolved(table, claim, t, id)
          = Serial!Insert(closed, id, Serial!NewRow(claim, t, None, None))
    BY <1>1 DEF Serial!Resolved
  <1>4. closed = Insert(table, c, Shut(row, t, id))
    BY <1>1 DEF Insert, Shut
  <1> HIDE DEF closed
  <1>5. QED
    BY <1>2, <1>3, <1>4, SerialWords

-----------------------------------------------------------------------------
(* Histories. *)

\* A current row with the key of the claim that nobody else can have one beside.
KeyHeld(table, x, claim) ==
    \E j \in Own(x) : IsCurrent(After(table, x)[j]) /\ SameKey(After(table, x)[j], claim)

\* The claim was resolved: from what x had written before it to what it had after it.
StepDone(table, x, claim, id, before, after) ==
    /\ DOMAIN before \subseteq DOMAIN x.rows /\ DOMAIN after \subseteq DOMAIN x.rows
    /\ id # None => id \in DOMAIN x.rows \ DOMAIN table
    /\ id = None <=> Serial!Reinforces(Overlaid(table, before), claim)
    /\ Overlaid(table, after)
         = Serial!Resolved(Overlaid(table, before), claim, x.event.occurred, id)
    /\ Supersedes(claim.kind) =>
          /\ KeyHeld(table, x, claim)
          /\ \A c \in CurrentFor(Overlaid(table, before), claim) :
                c \in Own(x) /\ CurrentFor(Overlaid(table, before), claim) = {c}

\* n of the claims are resolved: after the k-th of them x had written rows[k].
IsHistory(table, x, claims, n, ids, rows) ==
    /\ n \in Nat /\ Len(claims) = n + Len(x.todo)
    /\ \A k \in 1..Len(x.todo) : x.todo[k] = claims[n + k]
    /\ ids \in [1..n -> MemoryId \cup {None}]
    /\ \A j, k \in 1..n : ids[j] = ids[k] => j = k \/ ids[j] = None
    /\ DOMAIN rows[0] = {} /\ rows[n] = x.rows
    /\ \A k \in 1..n : StepDone(table, x, claims[k], ids[k], rows[k - 1], rows[k])
    /\ x.links = {Serial!Supported(Overlaid(table, rows[k - 1]), claims[k], ids[k]) : k \in 1..n}

HasHistory(table, x) ==
    \E claims \in Extraction : \E n, ids, rows : IsHistory(table, x, claims, n, ids, rows)

\* What a deletion selected rests on the document, and it closes nothing else.
Grounded(x) ==
    /\ \A i \in x.derived :
          \E e \in Episode : <<i, e>> \in provenance /\ episodes[e] = x.event.document
    /\ DOMAIN x.rows \subseteq x.derived
    /\ \A n \in DOMAIN x.ids : x.ids[n] \in x.derived

Story(x) ==
    /\ Committing(x) => HasHistory(memories, x)
    /\ ~Committing(x) => Grounded(x)

SerialInv == Inv /\ \A w \in Worker : Running(w) => Story(tx[w])

-----------------------------------------------------------------------------
(* A history is one beside another transaction that commits. *)

LEMMA OverlaidCommutes ==
    ASSUME NEW table, NEW a, NEW b, DOMAIN a \cap DOMAIN b = {}
    PROVE  Overlaid(Overlaid(table, a), b) = Overlaid(Overlaid(table, b), a)
  <1> DEFINE left == Overlaid(Overlaid(table, a), b)
             right == Overlaid(Overlaid(table, b), a)
  <1>1. DOMAIN left = DOMAIN right
    BY DEF Overlaid
  <1>2. \A i \in DOMAIN left : left[i] = right[i]
    BY DEF Overlaid
  <1>3. left = [i \in DOMAIN left |-> left[i]] /\ right = [i \in DOMAIN right |-> right[i]]
    BY DEF Overlaid
  <1> HIDE DEF left, right
  <1>4. left = right
    BY <1>1, <1>2, <1>3
  <1>5. QED
    BY <1>4 DEF left, right

LEMMA InsertUnder ==
    ASSUME NEW table, NEW rows, NEW id, id \notin DOMAIN rows, NEW row
    PROVE  Overlaid(Insert(table, id, row), rows) = Insert(Overlaid(table, rows), id, row)
  <1> DEFINE left == Overlaid(Insert(table, id, row), rows)
             right == Insert(Overlaid(table, rows), id, row)
  <1>1. DOMAIN left = DOMAIN right
    BY DEF Overlaid, Insert
  <1>2. \A i \in DOMAIN left : left[i] = right[i]
    BY DEF Overlaid, Insert
  <1>3. left = [i \in DOMAIN left |-> left[i]] /\ right = [i \in DOMAIN right |-> right[i]]
    BY DEF Overlaid, Insert
  <1> HIDE DEF left, right
  <1>4. left = right
    BY <1>1, <1>2, <1>3
  <1>5. QED
    BY <1>4 DEF left, right

\* The tables of the schema have at most one current row for a claim that supersedes.
LEMMA OneCurrent ==
    ASSUME NEW table, memories_current_topic_uidx(table), NEW claim, Supersedes(claim.kind),
           NEW c \in CurrentFor(table, claim)
    PROVE  CurrentFor(table, claim) = {c}
  BY DEF memories_current_topic_uidx, CurrentFor, SameKey

\* A key that x holds nobody else writes a current row for.
LEMMA HeldAlone ==
    ASSUME NEW table, NEW x, NEW y, Apart(x, y), Sound(After(table, y)), NEW claim,
           KeyHeld(table, x, claim), Supersedes(claim.kind), x.locks \subseteq DOMAIN After(table, x)
    PROVE  \A k \in DOMAIN y.rows : ~(IsCurrent(y.rows[k]) /\ SameKey(y.rows[k], claim))
  <1>1. SUFFICES ASSUME NEW k \in DOMAIN y.rows, IsCurrent(y.rows[k]), SameKey(y.rows[k], claim)
                 PROVE  FALSE
    OBVIOUS
  <1>2. PICK j \in Own(x) : IsCurrent(After(table, x)[j]) /\ SameKey(After(table, x)[j], claim)
    BY DEF KeyHeld
  <1>3. IsAfter(table, x, After(table, x)) /\ IsAfter(table, y, After(table, y))
    BY AfterFacts
  <1>4. j \notin Own(y)
    BY DEF Apart
  <1>5. SameKey(After(table, x)[j], y.rows[k]) /\ Supersedes(After(table, x)[j].kind)
    BY <1>1, <1>2 DEF SameKey
  <1>6. CASE j \in DOMAIN x.rows
    <2>1. After(table, x)[j] = x.rows[j]
      BY <1>3, <1>6 DEF IsAfter
    <2>2. QED
      BY <1>1, <1>2, <1>5, <1>6, <2>1 DEF Apart, KeysApart
  <1>7. CASE j \notin DOMAIN x.rows
    <2> DEFINE t == After(table, y)
    <2>1. j \in DOMAIN After(table, x)
      BY <1>7 DEF Own
    <2>2. j \in DOMAIN t /\ t[j] = After(table, x)[j] /\ k \in DOMAIN t /\ t[k] = y.rows[k]
      BY <1>3, <1>4, <1>7, <2>1 DEF IsAfter, Own
    <2> HIDE DEF t
    <2>3. memories_current_topic_uidx(t)
      BY DEF Sound, SchemaAccepts, t
    <2>4. j = k
      BY <1>1, <1>2, <1>5, <2>2, <2>3 DEF memories_current_topic_uidx
    <2>5. QED
      BY <1>4, <2>4 DEF Own
  <1>8. QED
    BY <1>6, <1>7

\* What y writes does not change what a claim of x is resolved against.
LEMMA SameCurrentFor ==
    ASSUME NEW table, NEW rows, NEW claim, CurrentFor(table, claim) \cap DOMAIN rows = {},
           \A k \in DOMAIN rows : ~(IsCurrent(rows[k]) /\ SameKey(rows[k], claim))
    PROVE  CurrentFor(Overlaid(table, rows), claim) = CurrentFor(table, claim)
  <1> DEFINE t == Overlaid(table, rows)
  <1>1. /\ DOMAIN t = DOMAIN table \cup DOMAIN rows
        /\ \A i \in DOMAIN rows : t[i] = rows[i]
        /\ \A i \in DOMAIN table \ DOMAIN rows : t[i] = table[i]
    BY OverlaidFacts
  <1> HIDE DEF t
  <1>2. QED
    BY <1>1 DEF CurrentFor, t

\* Neither does it change what a claim makes of the current memory,
LEMMA SameFound ==
    ASSUME NEW table, NEW rows, NEW claim, NEW t, NEW id, id \notin DOMAIN rows,
           NEW other, other = Overlaid(table, rows), NEW c, c \notin DOMAIN rows, NEW old,
           Finds(table, claim, c, old), Finds(other, claim, c, old)
    PROVE  /\ Serial!Reinforces(other, claim) <=> Serial!Reinforces(table, claim)
           /\ Serial!Supported(other, claim, id) = Serial!Supported(table, claim, id)
           /\ Serial!Resolved(other, claim, t, id)
                = Overlaid(Serial!Resolved(table, claim, t, id), rows)
  <1>1. \A i, row : i \notin DOMAIN rows =>
          Overlaid(Insert(table, i, row), rows) = Insert(other, i, row)
    BY InsertUnder
  <1>2. Serial!Reinforces(table, claim) <=> isRestatement(old, claim)
    BY FoundWords
  <1>3. Serial!Reinforces(other, claim) <=> isRestatement(old, claim)
    BY FoundWords
  <1>4. CASE isRestatement(old, claim)
    <2>1. /\ Serial!Supported(table, claim, id) = c
          /\ Serial!Resolved(table, claim, t, id) = Insert(table, c, Reinforced(old, claim, t))
      BY <1>4, ResolvedReinforced
    <2>2. /\ Serial!Supported(other, claim, id) = c
          /\ Serial!Resolved(other, claim, t, id) = Insert(other, c, Reinforced(old, claim, t))
      BY <1>4, ResolvedReinforced
    <2>3. QED
      BY <1>1, <1>2, <1>3, <2>1, <2>2
  <1>5. CASE ~isRestatement(old, claim) /\ t < old.from
    <2>1. /\ Serial!Supported(table, claim, id) = id
          /\ Serial!Resolved(table, claim, t, id)
               = Insert(table, id, NewRow(claim, t, old.from, c))
      BY <1>5, ResolvedBackfilled
    <2>2. /\ Serial!Supported(other, claim, id) = id
          /\ Serial!Resolved(other, claim, t, id)
               = Insert(other, id, NewRow(claim, t, old.from, c))
      BY <1>5, ResolvedBackfilled
    <2>3. QED
      BY <1>1, <1>2, <1>3, <2>1, <2>2
  <1>6. CASE ~isRestatement(old, claim) /\ ~(t < old.from)
    <2> DEFINE half == Insert(table, c, Shut(old, t, id))
    <2>1. /\ Serial!Supported(table, claim, id) = id
          /\ Serial!Resolved(table, claim, t, id) = Insert(half, id, NewRow(claim, t, None, None))
      BY <1>6, ResolvedSuperseded
    <2>2. /\ Serial!Supported(other, claim, id) = id
          /\ Serial!Resolved(other, claim, t, id)
               = Insert(Insert(other, c, Shut(old, t, id)), id, NewRow(claim, t, None, None))
      BY <1>6, ResolvedSuperseded
    <2>3. Overlaid(half, rows) = Insert(other, c, Shut(old, t, id))
      BY <1>1
    <2> HIDE DEF half
    <2>4. Overlaid(Insert(half, id, NewRow(claim, t, None, None)), rows)
            = Insert(Overlaid(half, rows), id, NewRow(claim, t, None, None))
      BY InsertUnder
    <2>5. QED
      BY <1>2, <1>3, <2>1, <2>2, <2>3, <2>4
  <1>7. QED
    BY <1>4, <1>5, <1>6

\* The rows touch nothing that the claim is resolved against, nor its new row.
Untouched(table, rows, claim, id) ==
    /\ id \notin DOMAIN rows
    /\ Supersedes(claim.kind) =>
          /\ CurrentFor(table, claim) \cap DOMAIN rows = {}
          /\ \A c \in CurrentFor(table, claim) : CurrentFor(table, claim) = {c}
          /\ \A k \in DOMAIN rows : ~(IsCurrent(rows[k]) /\ SameKey(rows[k], claim))

\* nor what it makes of the table.
LEMMA SameResolution ==
    ASSUME NEW table, NEW rows, NEW claim, NEW t, NEW id, Untouched(table, rows, claim, id),
           NEW other, other = Overlaid(table, rows)
    PROVE  /\ Serial!Reinforces(other, claim) <=> Serial!Reinforces(table, claim)
           /\ Serial!Supported(other, claim, id) = Serial!Supported(table, claim, id)
           /\ Serial!Resolved(other, claim, t, id)
                = Overlaid(Serial!Resolved(table, claim, t, id), rows)
  <1>1. CASE Supersedes(claim.kind) => CurrentFor(table, claim) = {}
    <2>1. Supersedes(claim.kind) => CurrentFor(other, claim) = {}
      BY <1>1, SameCurrentFor DEF Untouched
    <2>2. /\ ~Serial!Reinforces(table, claim) /\ Serial!Supported(table, claim, id) = id
          /\ Serial!Resolved(table, claim, t, id)
               = Insert(table, id, NewRow(claim, t, None, None))
      BY <1>1, ResolvedCreated
    <2>3. /\ ~Serial!Reinforces(other, claim) /\ Serial!Supported(other, claim, id) = id
          /\ Serial!Resolved(other, claim, t, id)
               = Insert(other, id, NewRow(claim, t, None, None))
      BY <2>1, ResolvedCreated
    <2>4. QED
      BY <2>2, <2>3, InsertUnder DEF Untouched
  <1>2. CASE Supersedes(claim.kind) /\ CurrentFor(table, claim) # {}
    <2>1. PICK c : CurrentFor(table, claim) = {c}
      BY <1>2 DEF Untouched
    <2>2. CurrentFor(other, claim) = {c}
      BY <1>2, <2>1, SameCurrentFor DEF Untouched
    <2>3. c \in DOMAIN table /\ c \notin DOMAIN rows
      BY <1>2, <2>1 DEF CurrentFor, Untouched
    <2>4. other[c] = table[c]
      BY <2>3, OverlaidFacts
    <2>5. Finds(table, claim, c, table[c]) /\ Finds(other, claim, c, table[c])
      BY <1>2, <2>1, <2>2, <2>4 DEF Finds
    <2>6. QED
      BY <2>3, <2>5, SameFound DEF Untouched
  <1>3. QED
    BY <1>1, <1>2

\* What x holds is the same after y.
LEMMA OwnUnchanged ==
    ASSUME NEW table, NEW x, NEW y, Apart(x, y), x.locks \subseteq DOMAIN After(table, x)
    PROVE  \A j \in Own(x) : After(After(table, y), x)[j] = After(table, x)[j]
  <1>1. /\ IsAfter(table, x, After(table, x)) /\ IsAfter(table, y, After(table, y))
        /\ IsAfter(After(table, y), x, After(After(table, y), x))
    BY AfterFacts
  <1>2. ASSUME NEW j \in Own(x)
        PROVE  After(After(table, y), x)[j] = After(table, x)[j]
    <2>1. j \notin DOMAIN y.rows
      BY DEF Apart, Own
    <2>2. CASE j \in DOMAIN x.rows
      BY <1>1, <2>2 DEF IsAfter
    <2>3. CASE j \notin DOMAIN x.rows
      <3>1. j \in DOMAIN table
        BY <1>1, <2>3 DEF IsAfter, Own
      <3>2. QED
        BY <1>1, <2>1, <2>3, <3>1 DEF IsAfter
    <2>4. QED
      BY <2>2, <2>3
  <1>3. QED
    BY <1>2

\* A step that was done is one of the table that y leaves.
LEMMA RebasedStep ==
    ASSUME NEW table, NEW x, NEW y, Apart(x, y), Sound(After(table, y)), IsTable(y.rows),
           x.locks \subseteq DOMAIN After(table, x),
           NEW claim, NEW id, NEW before, NEW after, StepDone(table, x, claim, id, before, after)
    PROVE  /\ StepDone(After(table, y), x, claim, id, before, after)
           /\ Serial!Supported(Overlaid(After(table, y), before), claim, id)
                = Serial!Supported(Overlaid(table, before), claim, id)
  <1> DEFINE t == Overlaid(table, before)
             new == After(table, y)
             other == Overlaid(new, before)
  <1>1. DOMAIN x.rows \cap DOMAIN y.rows = {} /\ Own(x) \cap DOMAIN y.rows = {}
    BY DEF Apart, Own
  <1>2. DOMAIN before \subseteq DOMAIN x.rows /\ DOMAIN after \subseteq DOMAIN x.rows
    BY DEF StepDone
  <1>3. other = Overlaid(t, y.rows) /\ Overlaid(new, after) = Overlaid(Overlaid(table, after), y.rows)
    BY <1>1, <1>2, OverlaidCommutes DEF After
  <1>4. DOMAIN new = DOMAIN table \cup DOMAIN y.rows
    BY AfterFacts DEF IsAfter
  <1>5. id \notin DOMAIN y.rows
    BY <1>1, NoneIsNoId DEF StepDone, IsTable
  <1>6. Untouched(t, y.rows, claim, id)
    BY <1>1, <1>5, HeldAlone DEF StepDone, Untouched
  <1>7. Supersedes(claim.kind) => KeyHeld(new, x, claim)
    BY OwnUnchanged DEF StepDone, KeyHeld
  <1>8. /\ id # None => id \in DOMAIN x.rows \ DOMAIN table
        /\ id = None <=> Serial!Reinforces(t, claim)
        /\ Overlaid(table, after) = Serial!Resolved(t, claim, x.event.occurred, id)
        /\ Supersedes(claim.kind) =>
              \A c \in CurrentFor(t, claim) : c \in Own(x) /\ CurrentFor(t, claim) = {c}
    BY DEF StepDone
  <1> HIDE DEF t, other, new
  <1>9. /\ Serial!Reinforces(other, claim) <=> Serial!Reinforces(t, claim)
        /\ Serial!Supported(other, claim, id) = Serial!Supported(t, claim, id)
        /\ Serial!Resolved(other, claim, x.event.occurred, id)
             = Overlaid(Serial!Resolved(t, claim, x.event.occurred, id), y.rows)
    BY <1>3, <1>6, SameResolution
  <1>10. Supersedes(claim.kind) => CurrentFor(other, claim) = CurrentFor(t, claim)
    BY <1>3, <1>6, SameCurrentFor DEF Untouched
  <1>11. id # None => id \in DOMAIN x.rows \ DOMAIN new
    BY <1>1, <1>4, <1>8
  <1>12. Overlaid(new, after) = Serial!Resolved(other, claim, x.event.occurred, id)
    BY <1>3, <1>8, <1>9
  <1>13. StepDone(new, x, claim, id, before, after)
    BY <1>2, <1>7, <1>8, <1>9, <1>10, <1>11, <1>12 DEF StepDone, other
  <1>14. QED
    BY <1>9, <1>13 DEF t, other, new

LEMMA RebasedHistory ==
    ASSUME NEW table, NEW x, NEW y, Apart(x, y), Sound(After(table, y)), IsTable(y.rows),
           x.locks \subseteq DOMAIN After(table, x), HasHistory(table, x)
    PROVE  HasHistory(After(table, y), x)
  <1> DEFINE new == After(table, y)
  <1>1a. PICK claims \in Extraction : \E n, ids, rows : IsHistory(table, x, claims, n, ids, rows)
    BY DEF HasHistory
  <1>1. PICK n, ids, rows : IsHistory(table, x, claims, n, ids, rows)
    BY <1>1a
  <1>2. \A k \in 1..n :
          /\ StepDone(new, x, claims[k], ids[k], rows[k - 1], rows[k])
          /\ Serial!Supported(Overlaid(new, rows[k - 1]), claims[k], ids[k])
               = Serial!Supported(Overlaid(table, rows[k - 1]), claims[k], ids[k])
    BY <1>1, RebasedStep DEF IsHistory
  <1> HIDE DEF new
  <1>3. x.links = {Serial!Supported(Overlaid(new, rows[k - 1]), claims[k], ids[k]) : k \in 1..n}
    BY <1>1, <1>2 DEF IsHistory
  <1>4. IsHistory(new, x, claims, n, ids, rows)
    BY <1>1, <1>2, <1>3 DEF IsHistory
  <1>5. QED
    BY <1>4 DEF HasHistory, new

-----------------------------------------------------------------------------
(* A transaction resolves its next claim. *)

\* y is w's transaction after it: `drawn` is the id of the row inserted for it, if any.
Advances(w, y, drawn) ==
    LET x == tx[w]
        table == View(w)
        claim == Claimed(w)
    IN  /\ y.event = x.event /\ y.todo = Tail(x.todo) /\ y.locks = x.locks
        /\ DOMAIN x.rows \subseteq DOMAIN y.rows
        /\ drawn \in MemoryId \cup {None}
        /\ drawn # None => /\ drawn \in DOMAIN y.rows
                           /\ drawn \notin DOMAIN memories /\ drawn \notin DOMAIN x.rows
        /\ drawn = None <=> Serial!Reinforces(table, claim)
        /\ After(memories, y) = Serial!Resolved(table, claim, x.event.occurred, drawn)
        /\ y.links = x.links \cup {Serial!Supported(table, claim, drawn)}
        /\ Supersedes(claim.kind) =>
              /\ KeyHeld(memories, y, claim)
              /\ \A c \in CurrentFor(table, claim) :
                    c \in Own(x) /\ CurrentFor(table, claim) = {c}
        /\ \A other : KeyHeld(memories, x, other) => KeyHeld(memories, y, other)

LEMMA AdvancedHistory ==
    ASSUME Inv, NEW w \in Worker, Running(w), tx[w].todo # <<>>, HasHistory(memories, tx[w]),
           NEW y, NEW drawn, Advances(w, y, drawn)
    PROVE  HasHistory(memories, y)
  <1> DEFINE x == tx[w]
  <1>1a. PICK claims \in Extraction : \E n, ids, rows : IsHistory(memories, x, claims, n, ids, rows)
    BY DEF HasHistory
  <1>1. PICK n, ids, rows : IsHistory(memories, x, claims, n, ids, rows)
    BY <1>1a
  <1>2. x.todo \in Seq(Claim) /\ View(w) = Overlaid(memories, x.rows) /\ Claimed(w) = Head(x.todo)
    BY RunningFacts DEF Tx, View, Claimed
  <1>3. /\ n \in Nat /\ Len(claims) = n + Len(x.todo)
        /\ \A k \in 1..Len(x.todo) : x.todo[k] = claims[n + k]
        /\ ids \in [1..n -> MemoryId \cup {None}] /\ DOMAIN rows[0] = {} /\ rows[n] = x.rows
    BY <1>1 DEF IsHistory
  <1>4. /\ y.event = x.event /\ y.todo = Tail(x.todo) /\ y.locks = x.locks
        /\ DOMAIN x.rows \subseteq DOMAIN y.rows /\ Own(x) \subseteq Own(y)
    BY DEF Advances, Own
  <1>5. Claimed(w) = claims[n + 1]
    BY <1>2, <1>3
  <1>6. /\ Len(claims) = n + 1 + Len(y.todo)
        /\ \A k \in 1..Len(y.todo) : y.todo[k] = claims[n + 1 + k]
    <2>1. Len(y.todo) = Len(x.todo) - 1 /\ Len(x.todo) \in Nat
      BY <1>2, <1>4
    <2>2. \A k \in 1..Len(y.todo) : y.todo[k] = x.todo[k + 1]
      BY <1>2, <1>4
    <2>3. \A k \in 1..Len(y.todo) : k + 1 \in 1..Len(x.todo) /\ n + (k + 1) = n + 1 + k
      BY <1>3, <2>1
    <2>4. \A k \in 1..Len(y.todo) : y.todo[k] = claims[n + 1 + k]
      BY <1>3, <2>2, <2>3
    <2> DEFINE a == Len(x.todo)
               b == Len(y.todo)
    <2> HIDE DEF a, b
    <2>5. Len(claims) = n + a /\ b = a - 1 /\ a \in Nat /\ n \in Nat
      BY <1>3, <2>1 DEF a, b
    <2>6. Len(claims) = n + 1 + b
      BY <2>5
    <2>7. QED
      BY <2>4, <2>6 DEF b
  <1> DEFINE ids2 == [k \in 1..(n + 1) |-> IF k = n + 1 THEN drawn ELSE ids[k]]
             rows2 == [k \in 0..(n + 1) |-> IF k = n + 1 THEN y.rows ELSE rows[k]]
  <1>7. /\ ids2 \in [1..(n + 1) -> MemoryId \cup {None}]
        /\ ids2[n + 1] = drawn /\ rows2[n + 1] = y.rows /\ rows2[n] = x.rows
        /\ DOMAIN rows2[0] = {}
        /\ \A k \in 1..n : ids2[k] = ids[k] /\ rows2[k] = rows[k] /\ rows2[k - 1] = rows[k - 1]
    BY <1>3 DEF Advances
  <1> HIDE DEF x, ids2, rows2
  <1>8. \A k \in 1..n :
          /\ StepDone(memories, x, claims[k], ids[k], rows[k - 1], rows[k])
          /\ StepDone(memories, y, claims[k], ids[k], rows[k - 1], rows[k])
    <2>1. \A k \in 1..n : StepDone(memories, x, claims[k], ids[k], rows[k - 1], rows[k])
      BY <1>1 DEF IsHistory
    <2>2. \A other : KeyHeld(memories, x, other) => KeyHeld(memories, y, other)
      BY DEF Advances, x
    <2>3. \A claim, id, before, after :
            StepDone(memories, x, claim, id, before, after)
              => StepDone(memories, y, claim, id, before, after)
      BY <1>4, <2>2 DEF StepDone
    <2>4. QED
      BY <2>1, <2>3
  <1>9. StepDone(memories, y, claims[n + 1], drawn, x.rows, y.rows)
    <2>1. /\ DOMAIN x.rows \subseteq DOMAIN y.rows
          /\ drawn # None => drawn \in DOMAIN y.rows \ DOMAIN memories
          /\ drawn = None <=> Serial!Reinforces(View(w), Claimed(w))
          /\ Overlaid(memories, y.rows)
               = Serial!Resolved(View(w), Claimed(w), y.event.occurred, drawn)
      BY <1>4 DEF Advances, After, x
    <2>2. Supersedes(Claimed(w).kind) =>
            /\ KeyHeld(memories, y, Claimed(w))
            /\ \A c \in CurrentFor(View(w), Claimed(w)) :
                  c \in Own(y) /\ CurrentFor(View(w), Claimed(w)) = {c}
      BY <1>4 DEF Advances, x
    <2>3. QED
      BY <1>2, <1>5, <2>1, <2>2 DEF StepDone
  <1>10. \A k \in 1..(n + 1) :
           StepDone(memories, y, claims[k], ids2[k], rows2[k - 1], rows2[k])
    <2>1. \A k \in 1..(n + 1) : k \in 1..n \/ (k = n + 1 /\ k - 1 = n)
      BY <1>3
    <2>2. QED
      BY <1>7, <1>8, <1>9, <2>1
  <1>11. \A j, k \in 1..(n + 1) : ids2[j] = ids2[k] => j = k \/ ids2[j] = None
    <2>1. \A k \in 1..n : ids[k] # None => ids[k] \in DOMAIN x.rows
      BY <1>8 DEF StepDone
    <2>2. drawn # None => drawn \notin DOMAIN x.rows
      BY DEF Advances, x
    <2>3. \A j, k \in 1..n : ids[j] = ids[k] => j = k \/ ids[j] = None
      BY <1>1 DEF IsHistory
    <2>4. \A k \in 1..(n + 1) : k \in 1..n \/ k = n + 1
      BY <1>3
    <2>5. QED
      BY <1>7, <2>1, <2>2, <2>3, <2>4
  <1>12. y.links = {Serial!Supported(Overlaid(memories, rows2[k - 1]), claims[k], ids2[k]) :
                      k \in 1..(n + 1)}
    <2>1. x.links = {Serial!Supported(Overlaid(memories, rows[k - 1]), claims[k], ids[k]) :
                       k \in 1..n}
      BY <1>1 DEF IsHistory
    <2>2. y.links = x.links \cup {Serial!Supported(View(w), Claimed(w), drawn)}
      BY DEF Advances, x
    <2>3. Serial!Supported(View(w), Claimed(w), drawn)
            = Serial!Supported(Overlaid(memories, rows2[n]), claims[n + 1], ids2[n + 1])
      BY <1>2, <1>5, <1>7
    <2> DEFINE f(k) == Serial!Supported(Overlaid(memories, rows2[k - 1]), claims[k], ids2[k])
    <2>4. x.links = {f(k) : k \in 1..n}
      BY <1>7, <2>1
    <2>5. y.links = {f(k) : k \in 1..n} \cup {f(n + 1)}
      BY <1>3, <2>2, <2>3, <2>4
    <2> HIDE DEF f
    <2>6. 1..(n + 1) = (1..n) \cup {n + 1}
      BY <1>3
    <2>7. y.links = {f(k) : k \in 1..(n + 1)}
      BY <2>5, <2>6
    <2>8. QED
      BY <2>7 DEF f
  <1>13. n + 1 \in Nat
    BY <1>3
  <1>14. IsHistory(memories, y, claims, n + 1, ids2, rows2)
    BY <1>6, <1>7, <1>10, <1>11, <1>12, <1>13 DEF IsHistory
  <1>15. QED
    BY <1>14 DEF HasHistory

\* The transaction of w when it has written `rows`, the last of them for the claim.
Written(w, rows, id) ==
    [tx[w] EXCEPT !.rows = rows, !.todo = Tail(@), !.current = NotAsked, !.links = @ \cup {id}]

\* The table that `rows` leave is what the claim makes of the one w sees.
ResolvesTo(w, rows, id, drawn) ==
    LET table == View(w)
        claim == Claimed(w)
    IN  /\ DOMAIN tx[w].rows \subseteq DOMAIN rows
        /\ drawn \in Fresh \cup {None}
        /\ drawn # None => drawn \in DOMAIN rows
        /\ drawn = None <=> Serial!Reinforces(table, claim)
        /\ Overlaid(memories, rows) = Serial!Resolved(table, claim, tx[w].event.occurred, drawn)
        /\ id = Serial!Supported(table, claim, drawn)
        /\ Supersedes(claim.kind) =>
              \A c \in CurrentFor(table, claim) : c \in Own(tx[w]) /\ CurrentFor(table, claim) = {c}

\* Each current row of w's is followed by one with its key, and the claim has one.
KeepsKeys(w, rows) ==
    LET own == DOMAIN rows \cup tx[w].locks
        after == Overlaid(memories, rows)
    IN  /\ \A j \in Own(tx[w]) : IsCurrent(View(w)[j]) =>
              \E k \in own : IsCurrent(after[k]) /\ SameKey(after[k], View(w)[j])
        /\ Supersedes(Claimed(w).kind) =>
              \E k \in own : IsCurrent(after[k]) /\ SameKey(after[k], Claimed(w))

LEMMA WriteAdvances ==
    ASSUME Inv, NEW w \in Worker, Resolving(w), NEW rows, NEW id, NEW drawn,
           ResolvesTo(w, rows, id, drawn), KeepsKeys(w, rows)
    PROVE  Advances(w, Written(w, rows, id), drawn)
  <1> DEFINE x == tx[w]
             y == Written(w, rows, id)
  <1>1. /\ Running(w) /\ x \in Tx /\ View(w) = After(memories, x)
    BY ResolvingFacts, RunningFacts
  <1>2. /\ y.event = x.event /\ y.todo = Tail(x.todo) /\ y.locks = x.locks /\ y.rows = rows
        /\ y.links = x.links \cup {id}
    BY <1>1 DEF Written, Tx
  <1> HIDE DEF y
  <1>3. After(memories, y) = Overlaid(memories, rows) /\ Own(y) = DOMAIN rows \cup x.locks
    BY <1>2 DEF After, Own
  <1>4. \A other : KeyHeld(memories, x, other) => KeyHeld(memories, y, other)
    BY <1>1, <1>3 DEF KeyHeld, KeepsKeys, SameKey
  <1>5. Supersedes(Claimed(w).kind) => KeyHeld(memories, y, Claimed(w))
    BY <1>3 DEF KeyHeld, KeepsKeys
  <1>6. drawn # None => drawn \in MemoryId /\ drawn \notin DOMAIN memories /\ drawn \notin DOMAIN x.rows
    <2>1. SUFFICES ASSUME drawn # None
                   PROVE  drawn \in MemoryId /\ drawn \notin DOMAIN memories /\ drawn \notin DOMAIN x.rows
      OBVIOUS
    <2>2. drawn \in Fresh
      BY <2>1 DEF ResolvesTo
    <2>3. drawn \in MemoryId /\ drawn \notin DOMAIN View(w) /\ drawn \notin DOMAIN memories
      BY <1>1, <2>2, FreshIsNobodys
    <2>4. IsAfter(memories, x, View(w))
      BY <1>1, AfterFacts
    <2>5. QED
      BY <2>3, <2>4 DEF IsAfter
  <1>7. /\ After(memories, y) = Serial!Resolved(View(w), Claimed(w), x.event.occurred, drawn)
        /\ y.links = x.links \cup {Serial!Supported(View(w), Claimed(w), drawn)}
        /\ DOMAIN x.rows \subseteq DOMAIN y.rows
        /\ drawn = None <=> Serial!Reinforces(View(w), Claimed(w))
        /\ drawn # None => drawn \in DOMAIN y.rows
    BY <1>2, <1>3 DEF ResolvesTo
  <1>8. Supersedes(Claimed(w).kind) =>
          \A c \in CurrentFor(View(w), Claimed(w)) :
             c \in Own(x) /\ CurrentFor(View(w), Claimed(w)) = {c}
    BY DEF ResolvesTo
  <1>9. QED
    BY <1>2, <1>4, <1>5, <1>6, <1>7, <1>8 DEF Advances, y

\* What the answer of lockCurrent says of the claim.
LEMMA AnsweredFinds ==
    ASSUME Inv, NEW w \in Worker, Answered(w), tx[w].current # None,
           NEW c, c = tx[w].current, NEW row, row = View(w)[c]
    PROVE  /\ Finds(View(w), Claimed(w), c, row) /\ c \in Own(tx[w])
           /\ \A i \in CurrentFor(View(w), Claimed(w)) :
                 i \in Own(tx[w]) /\ CurrentFor(View(w), Claimed(w)) = {i}
  <1>1. /\ c \in tx[w].locks /\ c \in CurrentFor(View(w), Claimed(w))
        /\ Supersedes(Claimed(w).kind)
    BY AnsweredFacts
  <1>2. Running(w)
    BY ResolvingFacts DEF Answered
  <1>3. View(w) = After(memories, tx[w]) /\ Ready(memories, tx[w])
    BY <1>2, RunningFacts
  <1>4. memories_current_topic_uidx(View(w))
    BY <1>3 DEF Ready, Mergeable, Sound, SchemaAccepts
  <1>5. CurrentFor(View(w), Claimed(w)) = {c}
    BY <1>1, <1>4, OneCurrent
  <1>6. QED
    BY <1>1, <1>5 DEF Finds, Own

LEMMA CreateResolves ==
    ASSUME Inv, NEW w \in Worker, Create(w),
           NEW rows, rows = Insert(tx[w].rows, NewId, NewRow(Claimed(w), tx[w].event.occurred, None, None)),
           SchemaAccepts(Overlaid(memories, rows))
    PROVE  ResolvesTo(w, rows, NewId, NewId) /\ KeepsKeys(w, rows)
  <1> DEFINE x == tx[w]
             at == x.event.occurred
             row == NewRow(Claimed(w), at, None, None)
             id == NewId
             table == Insert(View(w), id, row)
  <1>1. Resolving(w) /\ Running(w) /\ id \in Fresh
    BY ResolvingFacts, NewIdIsFresh DEF Create
  <1>2. View(w) = After(memories, x) /\ Ready(memories, x)
    BY <1>1, RunningFacts
  <1>3. id \in MemoryId /\ id \notin DOMAIN View(w) /\ id # None
    BY <1>1, FreshIsNobodys, NoneIsNoId
  <1>4. SameKey(row, Claimed(w)) /\ IsCurrent(row)
    BY DEF NewRow, SameKey, IsCurrent
  <1>5. Overlaid(memories, rows) = table
    BY <1>2, OverlaidInsert DEF After
  <1>6. DOMAIN rows = DOMAIN x.rows \cup {id}
    BY DEF Insert
  <1>7. /\ DOMAIN table = DOMAIN View(w) \cup {id} /\ table[id] = row
        /\ \A i \in DOMAIN View(w) : table[i] = View(w)[i]
    BY <1>3 DEF Insert
  <1>8. \A i \in Own(x) : i \in DOMAIN View(w)
    BY <1>1, OwnIsViewed
  <1> HIDE DEF row, id
  <1>9. Supersedes(Claimed(w).kind) => CurrentFor(View(w), Claimed(w)) = {}
    <2> HIDE DEF table
    <2>1. SUFFICES ASSUME Supersedes(Claimed(w).kind), NEW c \in CurrentFor(View(w), Claimed(w))
                   PROVE  FALSE
      OBVIOUS
    <2>2. memories_current_topic_uidx(table)
      BY <1>5 DEF SchemaAccepts
    <2>3. c \in DOMAIN table /\ c # id /\ IsCurrent(table[c]) /\ SameKey(table[c], table[id])
      BY <1>3, <1>4, <1>7, <2>1 DEF CurrentFor, SameKey
    <2>4. Supersedes(table[c].kind)
      BY <1>4, <1>7, <2>1, <2>3 DEF SameKey
    <2>5. QED
      BY <1>4, <1>7, <2>2, <2>3, <2>4 DEF memories_current_topic_uidx
  <1>10. /\ ~Serial!Reinforces(View(w), Claimed(w)) /\ Serial!Supported(View(w), Claimed(w), id) = id
         /\ Serial!Resolved(View(w), Claimed(w), at, id) = table
    BY <1>9, ResolvedCreated DEF row
  <1> HIDE DEF table
  <1>11. ResolvesTo(w, rows, id, id)
    BY <1>1, <1>3, <1>5, <1>6, <1>9, <1>10 DEF ResolvesTo
  <1>12. KeepsKeys(w, rows)
    <2>1. \A j \in Own(x) : j \in DOMAIN rows \cup x.locks /\ table[j] = View(w)[j]
      BY <1>6, <1>7, <1>8 DEF Own
    <2>2. id \in DOMAIN rows \cup x.locks
      BY <1>6
    <2>3. QED
      BY <1>4, <1>5, <1>7, <2>1, <2>2 DEF KeepsKeys, SameKey
  <1>13. QED
    BY <1>11, <1>12 DEF id

LEMMA ReinforceResolves ==
    ASSUME Inv, NEW w \in Worker, Reinforce(w), NEW c, c = tx[w].current,
           NEW rows, rows = Insert(tx[w].rows, c,
                                   Reinforced(View(w)[c], Claimed(w), tx[w].event.occurred))
    PROVE  ResolvesTo(w, rows, c, None) /\ KeepsKeys(w, rows)
  <1> DEFINE x == tx[w]
             at == x.event.occurred
             old == View(w)[c]
             row == Reinforced(old, Claimed(w), at)
             table == Insert(View(w), c, row)
  <1>1. Resolving(w) /\ Running(w) /\ Answered(w) /\ c # None /\ isRestatement(old, Claimed(w))
    BY ResolvingFacts DEF Reinforce, Answered
  <1>2. View(w) = After(memories, x) /\ Ready(memories, x)
    BY <1>1, RunningFacts
  <1> HIDE DEF old
  <1>3. /\ Finds(View(w), Claimed(w), c, old) /\ c \in Own(x)
        /\ \A i \in CurrentFor(View(w), Claimed(w)) :
              i \in Own(x) /\ CurrentFor(View(w), Claimed(w)) = {i}
    BY <1>1, AnsweredFinds DEF old
  <1>4. IsCurrent(old) /\ SameKey(old, Claimed(w)) /\ c \in DOMAIN View(w)
    BY <1>3 DEF Finds, CurrentFor
  <1>5. row.kind = old.kind /\ row.topic = old.topic /\ row.to = old.to
        /\ row.archived = FALSE
    <2>1. Sound(View(w))
      BY <1>2 DEF Ready, Mergeable
    <2>2. old \in Row
      BY <1>4, <2>1 DEF Sound, IsTable, old
    <2>3. QED
      BY <2>2 DEF Reinforced, Row
  <1>6. IsCurrent(row) /\ SameKey(row, Claimed(w))
    BY <1>4, <1>5 DEF IsCurrent, SameKey
  <1>7. Overlaid(memories, rows) = table
    BY <1>2, OverlaidInsert DEF After, old
  <1>8. DOMAIN rows = DOMAIN x.rows \cup {c}
    BY DEF Insert
  <1>9. table[c] = row /\ \A i \in DOMAIN View(w) \ {c} : table[i] = View(w)[i]
    BY DEF Insert
  <1>10. \A i \in Own(x) : i \in DOMAIN View(w)
    BY <1>1, OwnIsViewed
  <1> HIDE DEF row, table
  <1>11. /\ Serial!Reinforces(View(w), Claimed(w)) /\ Serial!Supported(View(w), Claimed(w), None) = c
         /\ Serial!Resolved(View(w), Claimed(w), at, None) = table
    BY <1>1, <1>3, FoundWords, ResolvedReinforced DEF row, table
  <1>12. ResolvesTo(w, rows, c, None)
    BY <1>3, <1>7, <1>8, <1>11 DEF ResolvesTo
  <1>13. KeepsKeys(w, rows)
    <2>1. c \in DOMAIN rows \cup x.locks
      BY <1>8
    <2>2. \A j \in Own(x) \ {c} : j \in DOMAIN rows \cup x.locks /\ table[j] = View(w)[j]
      BY <1>8, <1>9, <1>10 DEF Own
    <2>3. SameKey(row, old)
      BY <1>5 DEF SameKey
    <2>4. QED
      BY <1>6, <1>7, <1>9, <2>1, <2>2, <2>3 DEF KeepsKeys, SameKey, old
  <1>14. QED
    BY <1>12, <1>13

LEMMA BackfillResolves ==
    ASSUME Inv, NEW w \in Worker, Backfill(w), NEW c, c = tx[w].current,
           NEW rows, rows = Insert(tx[w].rows, NewId,
                                   NewRow(Claimed(w), tx[w].event.occurred, View(w)[c].from, c))
    PROVE  ResolvesTo(w, rows, NewId, NewId) /\ KeepsKeys(w, rows)
  <1> DEFINE x == tx[w]
             at == x.event.occurred
             old == View(w)[c]
             row == NewRow(Claimed(w), at, old.from, c)
             id == NewId
             table == Insert(View(w), id, row)
  <1>1. /\ Resolving(w) /\ Running(w) /\ Answered(w) /\ c # None /\ id \in Fresh
        /\ ~isRestatement(old, Claimed(w)) /\ at < old.from
    BY ResolvingFacts, NewIdIsFresh DEF Backfill, Answered
  <1>2. View(w) = After(memories, x)
    BY <1>1, RunningFacts
  <1>3. id \in MemoryId /\ id \notin DOMAIN View(w) /\ id # None
    BY <1>1, FreshIsNobodys, NoneIsNoId
  <1> HIDE DEF old
  <1>4. /\ Finds(View(w), Claimed(w), c, old) /\ c \in Own(x)
        /\ \A i \in CurrentFor(View(w), Claimed(w)) :
              i \in Own(x) /\ CurrentFor(View(w), Claimed(w)) = {i}
    BY <1>1, AnsweredFinds DEF old
  <1>5. IsCurrent(old) /\ SameKey(old, Claimed(w)) /\ c \in DOMAIN View(w)
    BY <1>4 DEF Finds, CurrentFor
  <1>6. Overlaid(memories, rows) = table
    BY <1>2, OverlaidInsert DEF After, old
  <1>7. DOMAIN rows = DOMAIN x.rows \cup {id}
    BY DEF Insert
  <1>8. \A i \in DOMAIN View(w) : table[i] = View(w)[i]
    BY <1>3 DEF Insert
  <1>9. \A i \in Own(x) : i \in DOMAIN View(w)
    BY <1>1, OwnIsViewed
  <1> HIDE DEF row, table, id, at
  <1>10. /\ ~Serial!Reinforces(View(w), Claimed(w)) /\ Serial!Supported(View(w), Claimed(w), id) = id
         /\ Serial!Resolved(View(w), Claimed(w), at, id) = table
    BY <1>1, <1>4, FoundWords, ResolvedBackfilled DEF row, table
  <1>11. ResolvesTo(w, rows, id, id)
    BY <1>1, <1>3, <1>4, <1>6, <1>7, <1>10 DEF ResolvesTo, at
  <1>12. KeepsKeys(w, rows)
    <2>1. \A j \in Own(x) : j \in DOMAIN rows \cup x.locks /\ table[j] = View(w)[j]
      BY <1>7, <1>8, <1>9 DEF Own
    <2>2. c \in DOMAIN rows \cup x.locks /\ table[c] = old
      BY <1>4, <2>1 DEF old
    <2>3. QED
      BY <1>5, <1>6, <2>1, <2>2 DEF KeepsKeys, SameKey
  <1>13. QED
    BY <1>11, <1>12 DEF id

LEMMA SupersedeResolves ==
    ASSUME Inv, NEW w \in Worker, Supersede(w), NEW c, c = tx[w].current,
           NEW half, half = Insert(tx[w].rows, c, Shut(View(w)[c], tx[w].event.occurred, NewId)),
           NEW rows, rows = Insert(half, NewId, NewRow(Claimed(w), tx[w].event.occurred, None, None))
    PROVE  ResolvesTo(w, rows, NewId, NewId) /\ KeepsKeys(w, rows)
  <1> DEFINE x == tx[w]
             at == x.event.occurred
             old == View(w)[c]
             id == NewId
             shut == Shut(old, at, id)
             row == NewRow(Claimed(w), at, None, None)
             table == Insert(Insert(View(w), c, shut), id, row)
  <1>1. /\ Resolving(w) /\ Running(w) /\ Answered(w) /\ c # None /\ id \in Fresh
        /\ ~isRestatement(old, Claimed(w)) /\ at >= old.from /\ at \in Time
    BY ResolvingFacts, NewIdIsFresh DEF Supersede, Answered
  <1>2. View(w) = After(memories, x) /\ Ready(memories, x)
    BY <1>1, RunningFacts
  <1>3. id \in MemoryId /\ id \notin DOMAIN View(w) /\ id # None
    BY <1>1, FreshIsNobodys, NoneIsNoId
  <1> HIDE DEF old
  <1>4. /\ Finds(View(w), Claimed(w), c, old) /\ c \in Own(x)
        /\ \A i \in CurrentFor(View(w), Claimed(w)) :
              i \in Own(x) /\ CurrentFor(View(w), Claimed(w)) = {i}
    BY <1>1, AnsweredFinds DEF old
  <1>5. IsCurrent(old) /\ SameKey(old, Claimed(w)) /\ c \in DOMAIN View(w)
    BY <1>4 DEF Finds, CurrentFor
  <1>6. ~(at < old.from)
    <2>1. old \in Row
      BY <1>2, <1>5 DEF Ready, Mergeable, Sound, IsTable, old
    <2>2. old.from \in Nat /\ at \in Nat
      BY <1>1, <2>1, TimeAssumption DEF Row
    <2> HIDE DEF at
    <2>3. QED
      BY <1>1, <2>2
  <1>7. Overlaid(memories, rows) = table
    <2>1. Overlaid(memories, half) = Insert(View(w), c, shut)
      BY <1>2, OverlaidInsert DEF After, old
    <2>2. Overlaid(memories, rows) = Insert(Overlaid(memories, half), id, row)
      BY OverlaidInsert
    <2>3. QED
      BY <2>1, <2>2
  <1>8. DOMAIN rows = DOMAIN x.rows \cup {c, id}
    BY DEF Insert
  <1>9. /\ table[id] = row
        /\ \A i \in DOMAIN View(w) \ {c} : table[i] = View(w)[i]
    BY <1>3 DEF Insert
  <1>10. \A i \in Own(x) : i \in DOMAIN View(w)
    BY <1>1, OwnIsViewed
  <1>11. IsCurrent(row) /\ SameKey(row, Claimed(w))
    BY DEF NewRow, SameKey, IsCurrent
  <1> HIDE DEF row, shut, table, id, at
  <1>12. /\ ~Serial!Reinforces(View(w), Claimed(w)) /\ Serial!Supported(View(w), Claimed(w), id) = id
         /\ Serial!Resolved(View(w), Claimed(w), at, id) = table
    BY <1>1, <1>4, <1>6, FoundWords, ResolvedSuperseded DEF row, shut, table
  <1>13. ResolvesTo(w, rows, id, id)
    BY <1>1, <1>3, <1>4, <1>7, <1>8, <1>12 DEF ResolvesTo, at
  <1>14. KeepsKeys(w, rows)
    <2>1. \A j \in Own(x) \ {c} : j \in DOMAIN rows \cup x.locks /\ table[j] = View(w)[j]
      BY <1>8, <1>9, <1>10 DEF Own
    <2>2. id \in DOMAIN rows \cup x.locks
      BY <1>8
    <2>3. SameKey(table[id], old)
      BY <1>5, <1>9, <1>11 DEF SameKey
    <2>4. QED
      BY <1>7, <1>9, <1>11, <2>1, <2>2, <2>3 DEF KeepsKeys, SameKey, old
  <1>15. QED
    BY <1>13, <1>14 DEF id

-----------------------------------------------------------------------------
(* The stories go on. *)

\* Nobody but w takes a step.
LEMMA StoryGoesOn ==
    ASSUME SerialInv, Inv', NEW w \in Worker, UNCHANGED tables,
           \A v \in Worker \ {w} : tx'[v] = tx[v], tx'[w] # None => Story(tx'[w])
    PROVE  SerialInv'
  <1>1. UNCHANGED <<memories, provenance, episodes>>
    BY DEF tables
  <1>2. \A v \in Worker : Running(v)' => Story(tx'[v])
    BY DEF SerialInv, Running
  <1>3. \A v \in Worker : Running(v)' => Story(tx[v])'
    <2>1. \A x : Grounded(x) <=> /\ \A i \in x.derived :
                                      \E e \in Episode : /\ <<i, e>> \in provenance'
                                                         /\ episodes'[e] = x.event.document
                                 /\ DOMAIN x.rows \subseteq x.derived
                                 /\ \A n \in DOMAIN x.ids : x.ids[n] \in x.derived
      BY <1>1 DEF Grounded
    <2>2. \A v \in Worker : Grounded(tx'[v]) => Grounded(tx[v])'
      BY <2>1 DEF Grounded
    <2>3. \A v \in Worker : HasHistory(memories, tx'[v]) => HasHistory(memories, tx[v])'
      BY <1>1
    <2>4. QED
      BY <1>2, <2>2, <2>3 DEF Story
  <1>4. QED
    BY <1>3 DEF SerialInv

LEMMA StoryEnds ==
    ASSUME SerialInv, Inv', NEW w \in Worker, Abandon(w)
    PROVE  SerialInv'
  <1>1. /\ UNCHANGED tables /\ \A v \in Worker \ {w} : tx'[v] = tx[v]
        /\ tx'[w] = None
    BY DEF Abandon, SerialInv, Inv
  <1>2. QED
    BY <1>1, StoryGoesOn

\* What a commit has written so far, and its claims, are as before.
LEMMA SameHistory ==
    ASSUME NEW table, NEW x, HasHistory(table, x), NEW y, y.event = x.event, y.todo = x.todo,
           y.rows = x.rows, y.links = x.links, x.locks \subseteq y.locks
    PROVE  HasHistory(table, y)
  <1>1a. PICK claims \in Extraction : \E n, ids, rows : IsHistory(table, x, claims, n, ids, rows)
    BY DEF HasHistory
  <1>1. PICK n, ids, rows : IsHistory(table, x, claims, n, ids, rows)
    BY <1>1a
  <1>2. \A claim : KeyHeld(table, x, claim) => KeyHeld(table, y, claim)
    BY DEF KeyHeld, Own, After
  <1>3. \A claim, id, before, after :
          StepDone(table, x, claim, id, before, after)
            => StepDone(table, y, claim, id, before, after)
    BY <1>2 DEF StepDone, Own
  <1>4. IsHistory(table, y, claims, n, ids, rows)
    BY <1>1, <1>3 DEF IsHistory
  <1>5. QED
    BY <1>4 DEF HasHistory

LEMMA CommitGoesOn ==
    ASSUME SerialInv, Inv', NEW w \in Worker, Running(w), Committing(tx[w]),
           NEW y, tx' = [tx EXCEPT ![w] = y], UNCHANGED tables, Committing(y),
           y.event = tx[w].event, y.todo = tx[w].todo, y.rows = tx[w].rows,
           y.links = tx[w].links, tx[w].locks \subseteq y.locks
    PROVE  SerialInv'
  <1>1. \A v \in Worker \ {w} : tx'[v] = tx[v]
    BY DEF SerialInv, Inv
  <1>2. tx'[w] = y
    BY DEF SerialInv, Inv
  <1>3. HasHistory(memories, tx[w])
    BY DEF SerialInv, Story
  <1>4. HasHistory(memories, y)
    BY <1>3, SameHistory
  <1>5. QED
    BY <1>1, <1>2, <1>4, StoryGoesOn DEF Story

LEMMA DeletionStoryGoesOn ==
    ASSUME SerialInv, Inv', NEW w \in Worker, Running(w), ~Committing(tx[w]),
           NEW y, tx' = [tx EXCEPT ![w] = y], UNCHANGED tables, ~Committing(y),
           y.event = tx[w].event, y.derived = tx[w].derived,
           DOMAIN y.rows \subseteq y.derived, \A n \in DOMAIN y.ids : y.ids[n] \in y.derived
    PROVE  SerialInv'
  <1>1. \A v \in Worker \ {w} : tx'[v] = tx[v]
    BY DEF SerialInv, Inv
  <1>2. tx'[w] = y
    BY DEF SerialInv, Inv
  <1>3. Grounded(tx[w])
    BY DEF SerialInv, Story
  <1>4. Grounded(y)
    BY <1>3 DEF Grounded
  <1>5. QED
    BY <1>1, <1>2, <1>4, StoryGoesOn DEF Story

LEMMA WriteStory ==
    ASSUME SerialInv, Inv', NEW w \in Worker, Resolving(w), NEW rows, NEW id, NEW drawn,
           Write(w, rows, id),
           SchemaAccepts(Overlaid(memories, rows)) =>
              ResolvesTo(w, rows, id, drawn) /\ KeepsKeys(w, rows)
    PROVE  SerialInv'
  <1> DEFINE x == tx[w]
             y == Written(w, rows, id)
  <1>1. Inv
    BY DEF SerialInv
  <1>2. CASE ~SchemaAccepts(Overlaid(memories, rows))
    BY <1>2, StoryEnds DEF Write
  <1>3. CASE SchemaAccepts(Overlaid(memories, rows))
    <2>1. tx' = [tx EXCEPT ![w] = y] /\ UNCHANGED tables
      BY <1>3 DEF Write, Written
    <2>2. /\ Running(w) /\ Committing(x) /\ x.todo # <<>>
      BY <1>1, ResolvingFacts
    <2>3. x \in Tx
      BY <1>1, <2>2, RunningFacts
    <2>4. y.stage = x.stage
      BY <2>3 DEF Written, Tx
    <2>5. Advances(w, y, drawn)
      BY <1>1, <1>3, WriteAdvances
    <2> HIDE DEF y
    <2>6. HasHistory(memories, x)
      BY <2>2 DEF SerialInv, Story
    <2>7. HasHistory(memories, y)
      BY <1>1, <2>2, <2>5, <2>6, AdvancedHistory
    <2>8. Story(y)
      BY <2>2, <2>4, <2>7 DEF Story, Committing
    <2>9. tx'[w] = y /\ \A v \in Worker \ {w} : tx'[v] = tx[v]
      BY <1>1, <2>1 DEF Inv
    <2>10. QED
      BY <2>1, <2>8, <2>9, StoryGoesOn
  <1>4. QED
    BY <1>2, <1>3

\* w commits: the others find their histories on the table it leaves.
LEMMA StoryCommits ==
    ASSUME SerialInv, Inv', NEW w \in Worker, Running(w), tx' = [tx EXCEPT ![w] = None],
           memories' = View(w), provenance \subseteq provenance',
           \A e \in Episode : episodes[e] # None => episodes'[e] = episodes[e]
    PROVE  SerialInv'
  <1>1. Inv
    BY DEF SerialInv
  <1>2. /\ memories' = After(memories, tx[w]) /\ IsTable(tx[w].rows)
        /\ Sound(After(memories, tx[w]))
    BY <1>1, RunningFacts DEF Ready, Mergeable
  <1>3. ASSUME NEW v \in Worker, Running(v)'
        PROVE  tx'[v] = tx[v] /\ v \in Others(w) /\ Running(v)
    BY <1>1, <1>3 DEF Inv, Running, Others
  <1>4. ASSUME NEW v \in Worker, Running(v)', Committing(tx[v])
        PROVE  HasHistory(memories', tx[v])
    <2>1. v \in Others(w) /\ Running(v)
      BY <1>3, <1>4
    <2>2. HasHistory(memories, tx[v])
      BY <1>4, <2>1 DEF SerialInv, Story
    <2>3. Apart(tx[v], tx[w]) /\ tx[v].locks \subseteq DOMAIN After(memories, tx[v])
      BY <1>1, <2>1, RunningFacts DEF Ready, Holds
    <2>4. QED
      BY <1>2, <2>2, <2>3, RebasedHistory
  <1>5. ASSUME NEW v \in Worker, Running(v)', ~Committing(tx[v])
        PROVE  /\ \A i \in tx[v].derived :
                     \E e \in Episode : /\ <<i, e>> \in provenance'
                                        /\ episodes'[e] = tx[v].event.document
               /\ DOMAIN tx[v].rows \subseteq tx[v].derived
               /\ \A n \in DOMAIN tx[v].ids : tx[v].ids[n] \in tx[v].derived
    <2>1. Running(v)
      BY <1>3, <1>5
    <2>2. Grounded(tx[v]) /\ tx[v].event \in Deletion
      BY <1>1, <1>5, <2>1, DeletingFacts DEF SerialInv, Story
    <2>3. tx[v].event.document # None
      BY <2>2, EventAssumption, DocumentAssumption
    <2>4. QED
      BY <2>2, <2>3 DEF Grounded
  <1>6. \A v \in Worker : Running(v)' => Story(tx[v])'
    <2>1. SUFFICES ASSUME NEW v \in Worker, Running(v)'
                   PROVE  Story(tx[v])'
      OBVIOUS
    <2>2. (tx[v])' = tx[v]
      BY <1>3, <2>1
    <2>3. CASE Committing(tx[v])
      <3>1. HasHistory(memories, tx[v])'
        BY <1>4, <2>1, <2>2, <2>3
      <3>2. QED
        BY <2>2, <2>3, <3>1 DEF Story
    <2>4. CASE ~Committing(tx[v])
      <3>1. Grounded(tx[v])'
        BY <1>5, <2>1, <2>2, <2>4 DEF Grounded
      <3>2. QED
        BY <2>2, <2>4, <3>1 DEF Story
    <2>5. QED
      BY <2>3, <2>4
  <1>7. QED
    BY <1>6 DEF SerialInv

-----------------------------------------------------------------------------
(* Every step keeps the stories. *)

LEMMA ProcessStory ==
    ASSUME SerialInv, Inv', NEW w \in Worker, NEW u \in Upsert, NEW claims \in Extraction,
           Process(w, u, claims)
    PROVE  SerialInv'
  <1>1. PICK owed \in Orders({claims[n].topic : n \in DOMAIN claims}) :
          tx' = [tx EXCEPT ![w] = [Begun(u, "extracting") EXCEPT !.todo = claims, !.owed = owed]]
    BY DEF Process
  <1> DEFINE y == [Begun(u, "extracting") EXCEPT !.todo = claims, !.owed = owed]
  <1>2. /\ y.stage = "extracting" /\ y.todo = claims /\ y.links = {} /\ y.event = u
        /\ DOMAIN y.rows = {}
    BY DEF Begun
  <1>3. UNCHANGED tables /\ tx'[w] = y /\ \A v \in Worker \ {w} : tx'[v] = tx[v]
    BY <1>1 DEF Process, SerialInv, Inv
  <1> HIDE DEF y
  <1>4. claims \in Seq(Claim)
    BY ExtractionAssumption
  <1> DEFINE ids == [k \in 1..0 |-> None]
             rows == [k \in {0} |-> y.rows]
  <1>5. IsHistory(memories, y, claims, 0, ids, rows)
    <2>1. /\ Len(claims) = 0 + Len(y.todo)
          /\ \A k \in 1..Len(y.todo) : y.todo[k] = claims[0 + k]
      <3>1. Len(claims) \in Nat /\ y.todo = claims
        BY <1>2, <1>4
      <3>2. Len(y.todo) = Len(claims) /\ Len(claims) = 0 + Len(claims)
        BY <3>1
      <3>3. \A k \in 1..Len(claims) : 0 + k = k
        BY <3>1
      <3>4. QED
        BY <3>1, <3>2, <3>3
    <2>2. ids \in [1..0 -> MemoryId \cup {None}] /\ \A k \in 1..0 : FALSE
      OBVIOUS
    <2>3. DOMAIN rows[0] = {} /\ rows[0] = y.rows
      BY <1>2
    <2> HIDE DEF ids, rows
    <2>4. y.links = {Serial!Supported(Overlaid(memories, rows[k - 1]), claims[k], ids[k]) : k \in 1..0}
      BY <1>2, <2>2
    <2>5. QED
      BY <2>1, <2>2, <2>3, <2>4 DEF IsHistory
  <1>6. HasHistory(memories, y)
    BY <1>5 DEF HasHistory
  <1>7. QED
    BY <1>2, <1>3, <1>6, StoryGoesOn DEF Story, Committing

LEMMA SaveEpisodeStory ==
    ASSUME SerialInv, Inv', NEW w \in Worker, SaveEpisode(w)
    PROVE  SerialInv'
  <1> DEFINE y == [tx[w] EXCEPT !.stage = "resolving"]
  <1>1. Running(w) /\ Committing(tx[w]) /\ UNCHANGED tables
    BY DEF SaveEpisode, MayRun, Committing
  <1>2. tx[w] \in Tx
    BY <1>1, RunningFacts DEF SerialInv
  <1>3. tx' = [tx EXCEPT ![w] = y]
    BY DEF SaveEpisode, SerialInv, Inv
  <1>4. /\ Committing(y) /\ y.event = tx[w].event /\ y.todo = tx[w].todo /\ y.rows = tx[w].rows
        /\ y.links = tx[w].links /\ tx[w].locks \subseteq y.locks
    BY <1>2 DEF Tx, Committing
  <1> HIDE DEF y
  <1>5. QED
    BY <1>1, <1>3, <1>4, CommitGoesOn

LEMMA recordExpertiseStory ==
    ASSUME SerialInv, Inv', NEW w \in Worker, recordExpertise(w)
    PROVE  SerialInv'
  <1> DEFINE y == [tx[w] EXCEPT !.credits = @ \cup {Head(tx[w].owed)}, !.owed = Tail(@)]
  <1>1. Running(w) /\ Committing(tx[w]) /\ UNCHANGED tables
    BY DEF recordExpertise, MayRun, Committing
  <1>2. tx[w] \in Tx
    BY <1>1, RunningFacts DEF SerialInv
  <1>3. tx' = [tx EXCEPT ![w] = y]
    BY DEF recordExpertise, SerialInv, Inv
  <1>4. /\ Committing(y) /\ y.event = tx[w].event /\ y.todo = tx[w].todo /\ y.rows = tx[w].rows
        /\ y.links = tx[w].links /\ tx[w].locks \subseteq y.locks
    BY <1>1, <1>2 DEF Tx, Committing
  <1> HIDE DEF y
  <1>5. QED
    BY <1>1, <1>3, <1>4, CommitGoesOn

\* lockCurrent and Wake change the answer and the locks.
LEMMA AnswerStory ==
    ASSUME SerialInv, Inv', NEW w \in Worker, Resolving(w), UNCHANGED tables,
           NEW current, NEW awaited, NEW locks, tx[w].locks \subseteq locks,
           tx' = [tx EXCEPT ![w] = [tx[w] EXCEPT !.current = current, !.awaited = awaited,
                                                 !.locks = locks]]
    PROVE  SerialInv'
  <1> DEFINE y == [tx[w] EXCEPT !.current = current, !.awaited = awaited, !.locks = locks]
  <1>1. Running(w) /\ Committing(tx[w])
    BY ResolvingFacts DEF SerialInv
  <1>2. tx[w] \in Tx
    BY <1>1, RunningFacts DEF SerialInv
  <1>3. /\ Committing(y) /\ y.event = tx[w].event /\ y.todo = tx[w].todo /\ y.rows = tx[w].rows
        /\ y.links = tx[w].links /\ tx[w].locks \subseteq y.locks
    BY <1>1, <1>2 DEF Tx, Committing
  <1>4. tx' = [tx EXCEPT ![w] = y]
    OBVIOUS
  <1> HIDE DEF y
  <1>5. QED
    BY <1>1, <1>3, <1>4, CommitGoesOn

LEMMA lockCurrentStory ==
    ASSUME SerialInv, Inv', NEW w \in Worker, lockCurrent(w)
    PROVE  SerialInv'
  <1> DEFINE x == tx[w]
  <1>1. Resolving(w) /\ UNCHANGED tables
    BY DEF lockCurrent
  <1>2. x \in Tx /\ tx \in [Worker -> Tx \cup {None}]
    BY <1>1, ResolvingFacts, RunningFacts DEF SerialInv, Inv
  <1>3. CASE CurrentFor(View(w), Claimed(w)) = {}
    <2>1. tx' = [tx EXCEPT ![w].current = None]
      BY <1>3 DEF lockCurrent
    <2>2. tx' = [tx EXCEPT ![w] = [x EXCEPT !.current = None]]
      BY <1>2, <2>1
    <2>3. [x EXCEPT !.current = None]
            = [x EXCEPT !.current = None, !.awaited = x.awaited, !.locks = x.locks]
      BY <1>2 DEF Tx
    <2> DEFINE awaited == x.awaited
               locks == x.locks
    <2>4. /\ tx' = [tx EXCEPT ![w] = [x EXCEPT !.current = None, !.awaited = awaited, !.locks = locks]]
          /\ x.locks \subseteq locks
      BY <2>2, <2>3
    <2> HIDE DEF awaited, locks
    <2>5. QED
      BY <1>1, <2>4, AnswerStory
  <1>4. CASE CurrentFor(View(w), Claimed(w)) # {}
    <2>1. PICK i \in CurrentFor(View(w), Claimed(w)) :
            IF RowHolders(w, i) = {}
            THEN tx' = [tx EXCEPT ![w].current = i, ![w].locks = Locked(w, i)]
            ELSE tx' = [tx EXCEPT ![w].current = Waiting, ![w].awaited = i]
      BY <1>4 DEF lockCurrent
    <2>2. CASE RowHolders(w, i) = {}
      <3>1. tx' = [tx EXCEPT ![w] = [x EXCEPT !.current = i, !.locks = x.locks \cup {i}]]
        BY <1>2, <2>1, <2>2 DEF Locked
      <3>2. [x EXCEPT !.current = i, !.locks = x.locks \cup {i}]
              = [x EXCEPT !.current = i, !.awaited = x.awaited, !.locks = x.locks \cup {i}]
        BY <1>2 DEF Tx
      <3>3. QED
        BY <1>1, <3>1, <3>2, AnswerStory
    <2>3. CASE RowHolders(w, i) # {}
      <3>1. tx' = [tx EXCEPT ![w] = [x EXCEPT !.current = Waiting, !.awaited = i]]
        BY <1>2, <2>1, <2>3
      <3>2. [x EXCEPT !.current = Waiting, !.awaited = i]
              = [x EXCEPT !.current = Waiting, !.awaited = i, !.locks = x.locks]
        BY <1>2 DEF Tx
      <3>3. QED
        BY <1>1, <3>1, <3>2, AnswerStory
    <2>4. QED
      BY <2>2, <2>3
  <1>5. QED
    BY <1>3, <1>4

LEMMA WakeStory ==
    ASSUME SerialInv, Inv', NEW w \in Worker, Wake(w)
    PROVE  SerialInv'
  <1> DEFINE x == tx[w]
             i == x.awaited
             still == i \in CurrentFor(memories, Claimed(w))
             current == IF still THEN i ELSE None
             locks == IF still THEN x.locks \cup {i} ELSE x.locks
  <1>1. Resolving(w) /\ UNCHANGED tables
    BY DEF Wake
  <1>2. tx \in [Worker -> Tx \cup {None}]
    BY DEF SerialInv, Inv
  <1>3. tx' = [tx EXCEPT ![w] = [x EXCEPT !.current = current, !.awaited = None, !.locks = locks]]
    BY <1>2 DEF Wake, Locked
  <1>4. x.locks \subseteq locks
    OBVIOUS
  <1> HIDE DEF current, locks
  <1>5. QED
    BY <1>1, <1>3, <1>4, AnswerStory

LEMMA CreateStory == ASSUME SerialInv, Inv', NEW w \in Worker, Create(w) PROVE SerialInv'
  <1> DEFINE rows == Insert(tx[w].rows, NewId, NewRow(Claimed(w), tx[w].event.occurred, None, None))
  <1>1. Resolving(w) /\ Write(w, rows, NewId) /\ Inv
    BY DEF Create, SerialInv
  <1>2. SchemaAccepts(Overlaid(memories, rows)) =>
          ResolvesTo(w, rows, NewId, NewId) /\ KeepsKeys(w, rows)
    BY <1>1, CreateResolves
  <1> HIDE DEF rows
  <1>3. QED
    BY <1>1, <1>2, WriteStory

LEMMA ReinforceStory == ASSUME SerialInv, Inv', NEW w \in Worker, Reinforce(w) PROVE SerialInv'
  <1> DEFINE c == tx[w].current
             rows == Insert(tx[w].rows, c, Reinforced(View(w)[c], Claimed(w), tx[w].event.occurred))
  <1>1. Resolving(w) /\ Write(w, rows, c) /\ Inv
    BY DEF Reinforce, Answered, SerialInv
  <1>2. ResolvesTo(w, rows, c, None) /\ KeepsKeys(w, rows)
    BY <1>1, ReinforceResolves
  <1> HIDE DEF c, rows
  <1>3. QED
    BY <1>1, <1>2, WriteStory

LEMMA BackfillStory == ASSUME SerialInv, Inv', NEW w \in Worker, Backfill(w) PROVE SerialInv'
  <1> DEFINE c == tx[w].current
             rows == Insert(tx[w].rows, NewId,
                            NewRow(Claimed(w), tx[w].event.occurred, View(w)[c].from, c))
  <1>1. Resolving(w) /\ Write(w, rows, NewId) /\ Inv
    BY DEF Backfill, Answered, SerialInv
  <1>2. ResolvesTo(w, rows, NewId, NewId) /\ KeepsKeys(w, rows)
    BY <1>1, BackfillResolves
  <1> HIDE DEF c, rows
  <1>3. QED
    BY <1>1, <1>2, WriteStory

LEMMA SupersedeStory == ASSUME SerialInv, Inv', NEW w \in Worker, Supersede(w) PROVE SerialInv'
  <1> DEFINE c == tx[w].current
             at == tx[w].event.occurred
             half == Insert(tx[w].rows, c, Shut(View(w)[c], at, NewId))
             rows == Insert(half, NewId, NewRow(Claimed(w), at, None, None))
  <1>1. Resolving(w) /\ Write(w, rows, NewId) /\ Inv
    BY DEF Supersede, Answered, SerialInv, Shut
  <1>2. ResolvesTo(w, rows, NewId, NewId) /\ KeepsKeys(w, rows)
    BY <1>1, SupersedeResolves
  <1> HIDE DEF c, rows, half
  <1>3. QED
    BY <1>1, <1>2, WriteStory

LEMMA FinishCommitStory ==
    ASSUME SerialInv, Inv', NEW w \in Worker, FinishCommit(w)
    PROVE  SerialInv'
  <1>1. Running(w) /\ Inv /\ tx' = [tx EXCEPT ![w] = None] /\ memories' = View(w)
    BY DEF FinishCommit, MayRun, SerialInv
  <1>2. provenance \subseteq provenance'
    BY DEF FinishCommit
  <1>3. \A e \in Episode : episodes[e] # None => episodes'[e] = episodes[e]
    <2>1. DOMAIN episodes = Episode
      BY <1>1 DEF Inv, TablesInv
    <2> DEFINE u == tx[w].event.episode
               d == tx[w].event.document
    <2>2. episodes' = [episodes EXCEPT ![u] = IF @ = None THEN d ELSE @]
      BY DEF FinishCommit
    <2> HIDE DEF u, d
    <2>3. QED
      BY <2>1, <2>2
  <1>4. QED
    BY <1>1, <1>2, <1>3, StoryCommits

LEMMA FinishDeletionStory ==
    ASSUME SerialInv, Inv', NEW w \in Worker, FinishDeletion(w)
    PROVE  SerialInv'
  <1>1. Running(w) /\ tx' = [tx EXCEPT ![w] = None] /\ memories' = View(w)
    BY DEF FinishDeletion, MayRun
  <1>2. provenance \subseteq provenance' /\ episodes' = episodes
    BY DEF FinishDeletion
  <1>3. QED
    BY <1>1, <1>2, StoryCommits

LEMMA InvalidateByDocumentStory ==
    ASSUME SerialInv, Inv', NEW w \in Worker, NEW d \in Deletion, InvalidateByDocument(w, d)
    PROVE  SerialInv'
  <1> DEFINE derived == {i \in DOMAIN memories :
                           \E e \in Episode : <<i, e>> \in provenance /\ episodes[e] = d.document}
             y == [Begun(d, "selected") EXCEPT !.derived = derived]
  <1>1. UNCHANGED tables /\ ~Running(w)
    BY DEF InvalidateByDocument
  <1>2. CASE derived = {}
    <2>1. tx' = tx
      BY <1>2 DEF InvalidateByDocument
    <2>2. QED
      BY <1>1, <2>1, StoryGoesOn DEF Running
  <1>3. CASE derived # {}
    <2>1. tx' = [tx EXCEPT ![w] = y]
      BY <1>3 DEF InvalidateByDocument
    <2>2. tx'[w] = y /\ \A v \in Worker \ {w} : tx'[v] = tx[v]
      BY <2>1 DEF SerialInv, Inv
    <2>3. /\ y.stage = "selected" /\ y.derived = derived /\ y.event = d
          /\ DOMAIN y.rows = {} /\ y.ids = <<>>
      BY DEF Begun
    <2>4. \A i \in derived : \E e \in Episode : <<i, e>> \in provenance /\ episodes[e] = d.document
      OBVIOUS
    <2> HIDE DEF y, derived
    <2>5. Grounded(y)
      BY <2>3, <2>4 DEF Grounded
    <2>6. QED
      BY <1>1, <2>2, <2>3, <2>5, StoryGoesOn DEF Story, Committing
  <1>4. QED
    BY <1>2, <1>3

LEMMA SelectedFacts ==
    ASSUME SerialInv, NEW w \in Worker, Running(w), ~Committing(tx[w])
    PROVE  /\ tx[w] \in Tx /\ Grounded(tx[w]) /\ IsFiniteSet(tx[w].derived)
           /\ tx[w].ids \in Seq(tx[w].derived)
  <1>1. Inv /\ Grounded(tx[w])
    BY DEF SerialInv, Story
  <1>2. tx[w] \in Tx /\ IsFiniteSet(tx[w].derived) /\ tx[w].ids \in Seq(DOMAIN memories)
    BY <1>1, DeletingFacts
  <1>3. tx[w].ids \in Seq(tx[w].derived)
    BY <1>1, <1>2 DEF Grounded
  <1>4. QED
    BY <1>1, <1>2, <1>3

LEMMA OrderedStory ==
    ASSUME SerialInv, Inv', NEW w \in Worker, Running(w), ~Committing(tx[w]),
           NEW S, S \subseteq tx[w].derived, NEW ids \in Orders(S),
           NEW stage \in {"closing", "auditing"},
           tx' = [tx EXCEPT ![w].stage = stage, ![w].ids = ids], UNCHANGED tables
    PROVE  SerialInv'
  <1> DEFINE x == tx[w]
             y == [x EXCEPT !.stage = stage, !.ids = ids]
  <1>1. x \in Tx /\ Grounded(x) /\ IsFiniteSet(x.derived)
    BY SelectedFacts
  <1>2. ids \in Seq(S)
    BY <1>1, FS_Subset, OrdersFacts
  <1>3. /\ y.event = x.event /\ y.rows = x.rows /\ y.derived = x.derived /\ y.ids = ids
        /\ ~Committing(y)
    BY <1>1 DEF Tx, Committing
  <1>4. tx' = [tx EXCEPT ![w] = y]
    BY DEF SerialInv, Inv
  <1> HIDE DEF y
  <1>5. DOMAIN y.rows \subseteq y.derived /\ \A n \in DOMAIN y.ids : y.ids[n] \in y.derived
    BY <1>1, <1>2, <1>3 DEF Grounded
  <1>6. QED
    BY <1>3, <1>4, <1>5, DeletionStoryGoesOn

\* One row is done with, closed or not.
NextRow(w, rows, locks) ==
    /\ tx' = [tx EXCEPT ![w] = [tx[w] EXCEPT !.ids = Tail(@), !.rows = rows, !.locks = locks]]
    /\ UNCHANGED tables

LEMMA NextRowStory ==
    ASSUME SerialInv, Inv', NEW w \in Worker, Running(w), ~Committing(tx[w]), tx[w].ids # <<>>,
           NEW rows, DOMAIN rows \subseteq DOMAIN tx[w].rows \cup {Head(tx[w].ids)}, NEW locks,
           NextRow(w, rows, locks)
    PROVE  SerialInv'
  <1> DEFINE x == tx[w]
             y == [x EXCEPT !.ids = Tail(@), !.rows = rows, !.locks = locks]
  <1>1. x \in Tx /\ Grounded(x) /\ x.ids \in Seq(x.derived)
    BY SelectedFacts
  <1>2. Head(x.ids) \in x.derived /\ \A n \in DOMAIN Tail(x.ids) : Tail(x.ids)[n] \in x.derived
    BY <1>1, RestFacts
  <1>3. /\ y.event = x.event /\ y.rows = rows /\ y.derived = x.derived /\ y.ids = Tail(x.ids)
        /\ ~Committing(y)
    BY <1>1 DEF Tx, Committing
  <1>4. tx' = [tx EXCEPT ![w] = y] /\ UNCHANGED tables
    BY DEF NextRow
  <1> HIDE DEF y
  <1>5. DOMAIN y.rows \subseteq y.derived /\ \A n \in DOMAIN y.ids : y.ids[n] \in y.derived
    BY <1>1, <1>2, <1>3 DEF Grounded
  <1>6. QED
    BY <1>3, <1>4, <1>5, DeletionStoryGoesOn

LEMMA CloseRowsStory == ASSUME SerialInv, Inv', NEW w \in Worker, CloseRows(w) PROVE SerialInv'
  <1>1. Running(w) /\ ~Committing(tx[w])
    BY DEF CloseRows, MayRun, Committing
  <1>2. Closing(tx[w].derived, tx[w].event.document) \subseteq tx[w].derived
    BY DEF Closing
  <1>3. QED
    BY <1>1, <1>2, OrderedStory DEF CloseRows

LEMMA AuditRowsStory == ASSUME SerialInv, Inv', NEW w \in Worker, AuditRows(w) PROVE SerialInv'
  <1>1. Running(w) /\ ~Committing(tx[w])
    BY DEF AuditRows, MayRun, Committing
  <1>2. QED
    BY <1>1, OrderedStory DEF AuditRows

\* A row that is passed over.
LEMMA SkippedStory ==
    ASSUME SerialInv, Inv', NEW w \in Worker, Running(w), ~Committing(tx[w]), tx[w].ids # <<>>,
           tx' = [tx EXCEPT ![w].ids = Tail(@)], UNCHANGED tables
    PROVE  SerialInv'
  <1> DEFINE x == tx[w]
             rows == x.rows
             locks == x.locks
  <1>1. x \in Tx /\ tx \in [Worker -> Tx \cup {None}]
    BY SelectedFacts DEF SerialInv, Inv
  <1>2. tx' = [tx EXCEPT ![w] = [x EXCEPT !.ids = Tail(@)]]
    BY <1>1
  <1>3. [x EXCEPT !.ids = Tail(@)] = [x EXCEPT !.ids = Tail(@), !.rows = rows, !.locks = locks]
    BY <1>1 DEF Tx
  <1>4. tx' = [tx EXCEPT ![w] = [x EXCEPT !.ids = Tail(@), !.rows = rows, !.locks = locks]]
    BY <1>2, <1>3
  <1>5. DOMAIN rows \subseteq DOMAIN x.rows \cup {Head(x.ids)}
    OBVIOUS
  <1> HIDE DEF rows, locks
  <1>6. NextRow(w, rows, locks)
    BY <1>4 DEF NextRow
  <1>7. QED
    BY <1>5, <1>6, NextRowStory

LEMMA recordInvalidationStory ==
    ASSUME SerialInv, Inv', NEW w \in Worker, recordInvalidation(w)
    PROVE  SerialInv'
  <1>1. Running(w) /\ ~Committing(tx[w])
    BY DEF recordInvalidation, MayRun, Committing
  <1>2. QED
    BY <1>1, SkippedStory DEF recordInvalidation

LEMMA CloseRowStory == ASSUME SerialInv, Inv', NEW w \in Worker, CloseRow(w) PROVE SerialInv'
  <1> DEFINE x == tx[w]
             i == Head(x.ids)
             rows == Insert(x.rows, i, [memories[i] EXCEPT !.to = x.event.occurred])
             locks == x.locks \cup {i}
  <1>1. /\ Running(w) /\ ~Committing(x) /\ x.ids # <<>> /\ UNCHANGED <<tables, delivered>>
    BY DEF CloseRow, MayRun, Committing
  <1>2. CASE ~StillOpen(i)
    BY <1>1, <1>2, SkippedStory DEF CloseRow
  <1>3. CASE StillOpen(i) /\ ~SchemaAccepts(Overlaid(memories, rows))
    <2>1. tx' = [tx EXCEPT ![w] = None]
      BY <1>3 DEF CloseRow
    <2>2. Abandon(w)
      BY <1>1, <2>1 DEF Abandon
    <2>3. QED
      BY <2>2, StoryEnds
  <1>4. CASE StillOpen(i) /\ SchemaAccepts(Overlaid(memories, rows))
    <2>1. tx' = [tx EXCEPT ![w] = [x EXCEPT !.ids = Tail(@), !.rows = rows, !.locks = locks]]
      BY <1>4 DEF CloseRow, Locked, SerialInv, Inv
    <2>2. DOMAIN rows \subseteq DOMAIN x.rows \cup {i}
      BY DEF Insert
    <2> HIDE DEF rows, locks
    <2>3. NextRow(w, rows, locks)
      BY <1>1, <2>1 DEF NextRow
    <2>4. QED
      BY <1>1, <2>2, <2>3, NextRowStory
  <1>5. QED
    BY <1>2, <1>3, <1>4

LEMMA CommitStepStory == ASSUME SerialInv, Inv', NEW w \in Worker, CommitStep(w) PROVE SerialInv'
  <1>1. CASE SaveEpisode(w)
    BY <1>1, SaveEpisodeStory
  <1>2. CASE lockCurrent(w)
    BY <1>2, lockCurrentStory
  <1>3. CASE Wake(w)
    BY <1>3, WakeStory
  <1>4. CASE Create(w)
    BY <1>4, CreateStory
  <1>5. CASE Reinforce(w)
    BY <1>5, ReinforceStory
  <1>6. CASE Backfill(w)
    BY <1>6, BackfillStory
  <1>7. CASE Supersede(w)
    BY <1>7, SupersedeStory
  <1>8. CASE recordExpertise(w)
    BY <1>8, recordExpertiseStory
  <1>9. CASE FinishCommit(w)
    BY <1>9, FinishCommitStory
  <1>10. QED
    BY <1>1, <1>2, <1>3, <1>4, <1>5, <1>6, <1>7, <1>8, <1>9 DEF CommitStep

LEMMA DeletionStepStory ==
    ASSUME SerialInv, Inv', NEW w \in Worker, DeletionStep(w)
    PROVE  SerialInv'
  <1>1. CASE CloseRows(w)
    BY <1>1, CloseRowsStory
  <1>2. CASE CloseRow(w)
    BY <1>2, CloseRowStory
  <1>3. CASE AuditRows(w)
    BY <1>3, AuditRowsStory
  <1>4. CASE recordInvalidation(w)
    BY <1>4, recordInvalidationStory
  <1>5. CASE FinishDeletion(w)
    BY <1>5, FinishDeletionStory
  <1>6. QED
    BY <1>1, <1>2, <1>3, <1>4, <1>5 DEF DeletionStep

LEMMA SerialStep == SerialInv /\ [Next]_vars => SerialInv'
  <1>1. SUFFICES ASSUME SerialInv, [Next]_vars PROVE SerialInv'
    OBVIOUS
  <1>2. Inv'
    BY <1>1, StepInv DEF SerialInv
  <1>3. CASE UNCHANGED vars
    <2>1. UNCHANGED tables /\ UNCHANGED tx
      BY <1>3 DEF vars
    <2>2. CASE \E w \in Worker : TRUE
      <3>1. PICK w \in Worker : TRUE
        BY <2>2
      <3>2. tx'[w] # None => Story(tx'[w])
        BY <1>1, <2>1 DEF SerialInv, Running
      <3>3. QED
        BY <1>1, <1>2, <2>1, <3>2, StoryGoesOn
    <2>3. CASE Worker = {}
      BY <1>2, <2>3 DEF SerialInv
    <2>4. QED
      BY <2>2, <2>3
  <1>4. CASE Next
    <2>1. PICK w \in Worker :
             \/ \E u \in Upsert, claims \in Extraction : Process(w, u, claims)
             \/ \E d \in Deletion : InvalidateByDocument(w, d)
             \/ CommitStep(w)
             \/ DeletionStep(w)
             \/ DeadlockDetected(w)
             \/ Fail(w)
      BY <1>4 DEF Next
    <2>2. CASE \E u \in Upsert, claims \in Extraction : Process(w, u, claims)
      BY <1>1, <1>2, <2>2, ProcessStory
    <2>3. CASE \E d \in Deletion : InvalidateByDocument(w, d)
      BY <1>1, <1>2, <2>3, InvalidateByDocumentStory
    <2>4. CASE CommitStep(w)
      BY <1>1, <1>2, <2>4, CommitStepStory
    <2>5. CASE DeletionStep(w)
      BY <1>1, <1>2, <2>5, DeletionStepStory
    <2>6. CASE DeadlockDetected(w) \/ Fail(w)
      BY <1>1, <1>2, <2>6, StoryEnds DEF DeadlockDetected, Fail
    <2>7. QED
      BY <2>1, <2>2, <2>3, <2>4, <2>5, <2>6
  <1>5. QED
    BY <1>1, <1>3, <1>4

LEMMA SerialInvHolds == Spec => []SerialInv
  <1>1. Init => SerialInv
    BY InitInv DEF Init, SerialInv, Running
  <1>2. QED
    BY <1>1, SerialStep, PTL DEF Spec

-----------------------------------------------------------------------------
(* The table that the claims make one after the other.                     *)

LEMMA LeastElement ==
    ASSUME NEW T, T \subseteq Nat, T # {}
    PROVE  \E x \in T : \A y \in T : x <= y
  <1> DEFINE below == {1..n : n \in T}
  <1>1. \A n \in Nat : 1..n \in FiniteSubsetsOf(Nat)
    BY FS_Interval DEF FiniteSubsetsOf
  <1>2. below \subseteq FiniteSubsetsOf(Nat) /\ below # {}
    BY <1>1
  <1>3. IsWellFoundedOn(StrictSubsetOrdering(Nat), FiniteSubsetsOf(Nat))
    BY FS_StrictSubsetOrderingWellFounded
  <1>4. PICK S \in below : \A R \in below : ~(<<R, S>> \in StrictSubsetOrdering(Nat))
    <2> HIDE DEF below
    <2>1. QED
      BY <1>2, <1>3, WFMin
  <1>5. PICK x \in T : S = 1..x
    BY <1>4
  <1>6. ASSUME NEW y \in T
        PROVE  x <= y
    <2>1. ~(<<1..y, 1..x>> \in StrictSubsetOrdering(Nat))
      BY <1>4, <1>5
    <2>2. ~(1..y \subseteq 1..x /\ 1..y # 1..x)
      BY <2>1 DEF StrictSubsetOrdering
    <2>3. SUFFICES ASSUME y < x PROVE FALSE
      OBVIOUS
    <2>4. x \in 1..x /\ x \notin 1..y
      BY <2>3
    <2>5. QED
      BY <2>2, <2>3, <2>4
  <1>7. QED
    BY <1>6

\* What is done at each step is done by the function that is defined by it.
LEMMA ResolutionsAre ==
    ASSUME NEW claims \in Extraction, NEW t, NEW ids, NEW tabs,
           DOMAIN tabs = 0..Len(claims), tabs = [n \in DOMAIN tabs |-> tabs[n]],
           tabs[0] = memories,
           \A n \in 1..Len(claims) :
              tabs[n] = Serial!Resolved(tabs[n - 1], claims[n], t, ids[n])
    PROVE  Serial!Resolutions(claims, t, ids) = tabs
  <1> DEFINE L == Len(claims)
             Step(f, n) == IF n = 0 THEN memories
                           ELSE Serial!Resolved(f[n - 1], claims[n], t, ids[n])
             Is(f) == f = [n \in 0..L |-> Step(f, n)]
  <1>1. L \in Nat
    BY ExtractionAssumption
  <1>2. Is(tabs)
    <2>1. \A n \in 0..L : n = 0 \/ n \in 1..L
      BY <1>1
    <2>2. \A n \in 0..L : tabs[n] = Step(tabs, n)
      BY <2>1
    <2> HIDE DEF Step
    <2>3. QED
      BY <2>2
  <1>3. Serial!Resolutions(claims, t, ids) = CHOOSE f : Is(f)
    BY DEF Serial!Resolutions
  <1>4. ASSUME NEW f, Is(f)
        PROVE  f = tabs
    <2> DEFINE wrong == {n \in 0..L : f[n] # tabs[n]}
    <2>1. DOMAIN f = 0..L /\ \A n \in 0..L : f[n] = Step(f, n)
      BY <1>4
    <2>2. \A n \in 0..L : tabs[n] = Step(tabs, n)
      BY <1>2
    <2>3. wrong = {}
      <3>1. SUFFICES ASSUME wrong # {} PROVE FALSE
        OBVIOUS
      <3>2. wrong \subseteq Nat
        BY <1>1
      <3>3. PICK n \in wrong : \A m \in wrong : n <= m
        <4> HIDE DEF wrong
        <4>1. QED
          BY <3>1, <3>2, LeastElement
      <3>4. n # 0
        BY <2>1, <2>2, <3>3
      <3>5. n - 1 \in 0..L /\ n - 1 \notin wrong
        BY <1>1, <3>3, <3>4
      <3>6. f[n - 1] = tabs[n - 1]
        BY <3>5
      <3>7. f[n] = tabs[n]
        BY <2>1, <2>2, <3>3, <3>6
      <3>8. QED
        BY <3>3, <3>7
    <2>4. \A n \in 0..L : f[n] = tabs[n]
      BY <2>3
    <2>5. f = [n \in 0..L |-> f[n]] /\ tabs = [n \in 0..L |-> tabs[n]]
      BY <1>4
    <2> HIDE DEF Is
    <2>6. QED
      BY <2>4, <2>5
  <1> HIDE DEF Is
  <1>5. QED
    BY <1>2, <1>3, <1>4

-----------------------------------------------------------------------------
(* A commit is one step of SerialCommit. *)

LEMMA CommitIsSerial ==
    ASSUME SerialInv, NEW w \in Worker, FinishCommit(w)
    PROVE  \E u \in Upsert, claims \in Extraction : Serial!CommitEpisode(u, claims)
  <1> DEFINE x == tx[w]
             u == x.event
  <1>1. Running(w) /\ Inv /\ x.stage = "resolving" /\ x.todo = <<>>
    BY DEF FinishCommit, MayRun, SerialInv
  <1>2. /\ memories' = Overlaid(memories, x.rows)
        /\ provenance' = provenance \cup (x.links \X {u.episode})
        /\ episodes' = [episodes EXCEPT ![u.episode] = IF @ = None THEN u.document ELSE @]
        /\ ingested' = ingested \cup {u.episode}
    BY DEF FinishCommit, View
  <1>3. u \in Upsert
    BY <1>1, RunningFacts DEF Ready, Resolves, Committing
  <1>4. HasHistory(memories, x)
    BY <1>1 DEF SerialInv, Story, Committing
  <1>5a. PICK claims \in Extraction : \E n, ids, rows : IsHistory(memories, x, claims, n, ids, rows)
    BY <1>4 DEF HasHistory
  <1>5. PICK n, ids, rows : IsHistory(memories, x, claims, n, ids, rows)
    BY <1>5a
  <1> HIDE DEF u, x
  <1>6. /\ n \in Nat /\ Len(claims) = n + Len(x.todo)
        /\ ids \in [1..n -> MemoryId \cup {None}]
        /\ \A j, k \in 1..n : ids[j] = ids[k] => j = k \/ ids[j] = None
        /\ DOMAIN rows[0] = {} /\ rows[n] = x.rows
        /\ \A k \in 1..n : StepDone(memories, x, claims[k], ids[k], rows[k - 1], rows[k])
        /\ x.links = {Serial!Supported(Overlaid(memories, rows[k - 1]), claims[k], ids[k]) :
                        k \in 1..n}
    BY <1>5 DEF IsHistory
  <1>7. Len(claims) = n /\ DOMAIN claims = 1..n
    <2>1. claims \in Seq(Claim) /\ Len(x.todo) = 0
      BY <1>1, ExtractionAssumption
    <2>2. QED
      BY <1>6, <2>1
  <1> DEFINE tabs == [k \in 0..n |-> Overlaid(memories, rows[k])]
             t == u.occurred
  <1>8. /\ DOMAIN tabs = 0..Len(claims) /\ tabs = [k \in DOMAIN tabs |-> tabs[k]]
        /\ \A k \in 1..n : /\ tabs[k] = Overlaid(memories, rows[k])
                           /\ tabs[k - 1] = Overlaid(memories, rows[k - 1])
        /\ tabs[n] = Overlaid(memories, rows[n]) /\ tabs[0] = Overlaid(memories, rows[0])
    BY <1>6, <1>7
  <1>9. tabs[0] = memories
    <2>1. IsTable(memories)
      BY <1>1 DEF Inv, TablesInv, Sound
    <2>2. Overlaid(memories, rows[0]) = memories
      BY <1>6, <2>1, OverlaidNothing
    <2>3. QED
      BY <1>8, <2>2
  <1> HIDE DEF tabs, t
  <1>10. \A k \in 1..n :
           /\ tabs[k] = Serial!Resolved(tabs[k - 1], claims[k], t, ids[k])
           /\ ids[k] # None => ids[k] \notin DOMAIN memories
           /\ ids[k] = None <=> Serial!Reinforces(tabs[k - 1], claims[k])
    BY <1>6, <1>8 DEF StepDone, t, u
  <1>11. Serial!Resolutions(claims, t, ids) = tabs
    BY <1>7, <1>8, <1>9, <1>10, ResolutionsAre
  <1>12. ids \in Serial!DrawnIds(Len(claims))
    <2>1. \A k \in 1..n : ids[k] \in Serial!Fresh \cup {None}
      BY <1>6, <1>10 DEF Serial!Fresh
    <2>2. ids \in [1..n -> Serial!Fresh \cup {None}]
      BY <1>6, <2>1
    <2>3. QED
      BY <1>6, <1>7, <2>2 DEF Serial!DrawnIds
  <1>13. provenance' = provenance \cup
           {<<Serial!Supported(tabs[k - 1], claims[k], ids[k]), u.episode>> : k \in DOMAIN claims}
    <2> DEFINE f(k) == Serial!Supported(tabs[k - 1], claims[k], ids[k])
           g(k) == Serial!Supported(Overlaid(memories, rows[k - 1]), claims[k], ids[k])
    <2>1. x.links = {f(k) : k \in 1..n}
      <3>1. \A k \in 1..n : f(k) = g(k)
        BY <1>8
      <3>2. x.links = {g(k) : k \in 1..n}
        BY <1>6
      <3> HIDE DEF f, g
      <3>3. QED
        BY <3>1, <3>2
    <2> HIDE DEF f
    <2>2. x.links \X {u.episode} = {<<f(k), u.episode>> : k \in 1..n}
      BY <2>1
    <2>3. QED
      BY <1>2, <1>7, <2>2 DEF f
  <1>14. memories' = tabs[Len(claims)]
    BY <1>2, <1>6, <1>7, <1>8
  <1>15. Serial!CommitEpisode(u, claims)
    BY <1>2, <1>7, <1>10, <1>11, <1>12, <1>13, <1>14 DEF Serial!CommitEpisode, t
  <1>16. QED
    BY <1>3, <1>15

LEMMA DeletionIsSerial ==
    ASSUME SerialInv, NEW w \in Worker, FinishDeletion(w)
    PROVE  \E d \in Deletion : Serial!Withdraw(d)
  <1> DEFINE x == tx[w]
             d == x.event
             at == d.occurred
             ids == DOMAIN x.rows
  <1>1. Running(w) /\ Inv /\ ~Committing(x) /\ memories' = Overlaid(memories, x.rows)
        /\ UNCHANGED <<provenance, episodes, ingested>>
    BY DEF FinishDeletion, MayRun, SerialInv, Committing, View
  <1>2. Ready(memories, x) /\ Grounded(x)
    BY <1>1, RunningFacts DEF SerialInv, Story
  <1>3. d \in Deletion /\ \A i \in ids : /\ i \in DOMAIN memories /\ memories[i].to = None
                                         /\ x.rows[i] = [memories[i] EXCEPT !.to = at]
    BY <1>1, <1>2 DEF Ready, Deletes
  <1>4. \A i \in ids : \E e \in Episode : <<i, e>> \in provenance /\ episodes[e] = d.document
    BY <1>2 DEF Grounded
  <1>5. Overlaid(memories, x.rows) = Closed(memories, ids, at)
    <2> DEFINE left == Overlaid(memories, x.rows)
               right == Closed(memories, ids, at)
    <2>1. DOMAIN left = DOMAIN memories /\ DOMAIN right = DOMAIN memories
      BY <1>3 DEF Overlaid, Closed
    <2>2. \A i \in DOMAIN memories : left[i] = right[i]
      BY <1>3 DEF Overlaid, Closed
    <2>3. left = [i \in DOMAIN left |-> left[i]] /\ right = [i \in DOMAIN right |-> right[i]]
      BY DEF Overlaid, Closed
    <2> HIDE DEF left, right
    <2>4. left = right
      BY <2>1, <2>2, <2>3
    <2>5. QED
      BY <2>4 DEF left, right
  <1> HIDE DEF ids, at, d
  <1>6. memories' = Serial!Closed(memories, ids, at)
    BY <1>1, <1>5 DEF Closed, Serial!Closed
  <1>7. ids \in SUBSET {i \in DOMAIN memories :
                          /\ memories[i].to = None
                          /\ \E e \in Episode : <<i, e>> \in provenance
                                                /\ episodes[e] = d.document}
    BY <1>3, <1>4
  <1>8. Serial!Withdraw(d)
    BY <1>1, <1>6, <1>7 DEF Serial!Withdraw, at
  <1>9. QED
    BY <1>3, <1>8

LEMMA StepIsSerial == SerialInv /\ [Next]_vars => [Serial!Next]_(Serial!serialVars)
  <1>1. SUFFICES ASSUME SerialInv, [Next]_vars, ~UNCHANGED tables
                 PROVE  Serial!Next
    BY DEF tables, Serial!serialVars
  <1>2. Serial!serialVars' # Serial!serialVars
    BY <1>1 DEF tables, Serial!serialVars
  <1>3. Next
    BY <1>1 DEF vars
  <1>4. PICK w \in Worker :
           \/ \E u \in Upsert, claims \in Extraction : Process(w, u, claims)
           \/ \E d \in Deletion : InvalidateByDocument(w, d)
           \/ CommitStep(w)
           \/ DeletionStep(w)
           \/ DeadlockDetected(w)
           \/ Fail(w)
    BY <1>3 DEF Next
  <1>5. FinishCommit(w) \/ FinishDeletion(w)
    <2>1. UNCHANGED tables \/ CommitStep(w) \/ DeletionStep(w)
      BY <1>4 DEF Process, InvalidateByDocument, DeadlockDetected, Fail, Abandon
    <2>2. CommitStep(w) => UNCHANGED tables \/ FinishCommit(w)
      BY DEF CommitStep, SaveEpisode, lockCurrent, Wake, Create, Reinforce, Backfill, Supersede,
             recordExpertise, Write, Abandon
    <2>3. DeletionStep(w) => UNCHANGED tables \/ FinishDeletion(w)
      BY DEF DeletionStep, CloseRows, CloseRow, AuditRows, recordInvalidation
    <2>4. QED
      BY <1>1, <2>1, <2>2, <2>3
  <1>6. QED
    BY <1>1, <1>2, <1>5, CommitIsSerial, DeletionIsSerial DEF Serial!Next

\* Commits and deletions that overlap have the effect of commits and deletions one after
\* the other: an episode's claims appear all together, each resolved against what the one
\* before it left, none lost, none against a stale memory, though every statement runs in
\* READ COMMITTED (commit.go: "Everything lands in a single transaction").
THEOREM OverlapIsSerializable == Spec => Serializable
  <1>1. Init => Serial!Init
    BY DEF Init, Serial!Init
  <1>2. QED
    BY <1>1, SerialInvHolds, StepIsSerial, PTL DEF Spec, Serializable, Serial!Spec
=============================================================================
