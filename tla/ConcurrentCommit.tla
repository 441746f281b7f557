--------------------------- MODULE ConcurrentCommit ---------------------------
(***************************************************************************)
(* Commits and deletions that overlap: replicas and HTTP requests run      *)
(* Process side by side, each in its own READ COMMITTED transaction, and   *)
(* meet in the locks of PostgreSQL: the row lock of lockCurrent, the wait  *)
(* of an INSERT for an uncommitted entry of the partial unique index, the  *)
(* row of an episode, the rows of memory_expertise.                        *)
(*                                                                         *)
(* What others can read is in the four tables; what a transaction wrote is *)
(* in its record until it commits.  Decay, consolidation and purge are the *)
(* subject of MemoryStore.                                                 *)
(***************************************************************************)
EXTENDS MemoryRows

CONSTANTS
    Episode, Document, Upsert, Deletion, Extraction,   \* as in SerialCommit (Merge sorts
                    \* the claims of an extraction by kind and topic)
    Worker,         \* consumers of the replicas and requests of the API
    MaxDeliver      \* deliveries of one event

ASSUME EventAssumption ==
    /\ Upsert \subseteq [episode : Episode, document : Document, occurred : Time]
    /\ Deletion \subseteq [document : Document, occurred : Time]
    /\ Upsert \cap Deletion = {}
ASSUME DocumentAssumption == None \notin Document
ASSUME ExtractionAssumption == Extraction \subseteq Seq(Claim)
ASSUME MaxDeliverAssumption == MaxDeliver \in Nat

VARIABLES
    memories, provenance, episodes, ingested,   \* the tables, as committed
    tx,             \* the transaction of each worker, None when it has none
    delivered       \* how often each event was delivered

tables == <<memories, provenance, episodes, ingested>>
vars == <<tables, tx, delivered>>

\* Where a transaction stands: not yet begun (the model is extracting), resolving claims,
\* crediting expertise; having selected what a deletion concerns, closing it, auditing it.
Stage == {"extracting", "resolving", "selected", "closing", "auditing"}

\* What lockCurrent has not answered yet (None: ErrNotFound), and what it waits for.
NotAsked == "not asked"
Waiting == "waiting"

ASSUME AnswerAssumption == {NotAsked, Waiting} \cap (MemoryId \cup {None}) = {}

Transaction ==
    [event : Upsert \cup Deletion, stage : Stage,
     todo : Seq(Claim),         \* proposals left
     owed : Seq(Topic),         \* expertise rows left, in the order of a Go map
     ids : Seq(MemoryId),       \* rows left to close, then to audit
     derived : SUBSET MemoryId, \* what the deletion selected
     current : MemoryId \cup {None, NotAsked, Waiting},
     awaited : MemoryId \cup {None},
     locks : SUBSET MemoryId,   \* row locks
     credits : SUBSET Topic,    \* row locks on expertise
     links : SUBSET MemoryId]   \* provenance written

\* The rows a transaction wrote are a table of their own.
IsTransaction(x) ==
    /\ IsTable(x.rows)
    /\ [f \in DOMAIN x \ {"rows"} |-> x[f]] \in Transaction

Begun(event, stage) ==
    [event |-> event, stage |-> stage, todo |-> <<>>, owed |-> <<>>, ids |-> <<>>,
     derived |-> {}, current |-> NotAsked, awaited |-> None, locks |-> {}, credits |-> {},
     links |-> {}, rows |-> [i \in {} |-> None]]

Orders(S) == {s \in [1..Cardinality(S) -> S] : {s[n] : n \in DOMAIN s} = S}

Running(w) == tx[w] # None
Others(w) == {v \in Worker \ {w} : Running(v)}

Overlaid(table, rows) ==
    [i \in DOMAIN table \cup DOMAIN rows |-> IF i \in DOMAIN rows THEN rows[i] ELSE table[i]]

\* What a statement of w reads: what is committed when it starts, and w's own writes.
View(w) == Overlaid(memories, tx[w].rows)

Fresh == MemoryId \ (DOMAIN memories \cup UNION {DOMAIN tx[v].rows : v \in {x \in Worker : Running(x)}})

\* gen_random_uuid: an id nobody uses.
NewId == CHOOSE i \in Fresh : TRUE

Init ==
    /\ memories = [i \in {} |-> None]
    /\ provenance = {}
    /\ episodes = [e \in Episode |-> None]
    /\ ingested = {}
    /\ tx = [w \in Worker |-> None]
    /\ delivered = [u \in Upsert \cup Deletion |-> 0]

-----------------------------------------------------------------------------
(* Who waits for whom. *)

\* Workers that hold the lock of row i against w.
RowHolders(w, i) == {v \in Others(w) : i \in tx[v].locks}

\* Workers with an uncommitted entry in memories_current_topic_uidx for the claim's key:
\* an open row they wrote, or the current row they are closing.
IndexHolders(w, claim) ==
    {v \in Others(w) :
        \E i \in DOMAIN tx[v].rows :
            /\ SameKey(tx[v].rows[i], claim)
            /\ \/ IsCurrent(tx[v].rows[i])
               \/ i \in DOMAIN memories /\ IsCurrent(memories[i])}

\* Workers that hold the row of the episode w wants to save.
EpisodeHolders(w) ==
    {v \in Others(w) : tx[v].event \in Upsert /\ tx[v].stage = "resolving"
                       /\ tx[v].event.episode = tx[w].event.episode}

CreditHolders(w, topic) == {v \in Others(w) : topic \in tx[v].credits}

Claimed(w) == Head(tx[w].todo)

\* The branch of commitOne that w is in inserts an open row.
InsertsOpen(w) ==
    /\ tx[w].current # NotAsked /\ tx[w].current # Waiting
    /\ Supersedes(Claimed(w).kind)
    /\ tx[w].current # None =>
          /\ ~isRestatement(View(w)[tx[w].current], Claimed(w))
          /\ tx[w].event.occurred >= View(w)[tx[w].current].from

\* Who the next statement of w has to wait for.
WaitsFor(w) ==
    CASE tx[w].stage = "extracting" -> EpisodeHolders(w)
      [] tx[w].stage = "resolving" /\ tx[w].todo # <<>> ->
            IF tx[w].current = Waiting THEN RowHolders(w, tx[w].awaited)
            ELSE IF InsertsOpen(w) THEN IndexHolders(w, Claimed(w)) ELSE {}
      [] tx[w].stage = "resolving" /\ tx[w].todo = <<>> /\ tx[w].owed # <<>> ->
            CreditHolders(w, Head(tx[w].owed))
      [] tx[w].stage \in {"closing", "auditing"} /\ tx[w].ids # <<>> ->
            RowHolders(w, Head(tx[w].ids))
      [] OTHER -> {}

MayRun(w) == Running(w) /\ WaitsFor(w) = {}

\* Workers that w waits for, directly or through others.
Ahead(w) ==
    LET within[n \in 0..Cardinality(Worker)] ==
            IF n = 0 THEN WaitsFor(w)
            ELSE within[n - 1] \cup UNION {WaitsFor(v) : v \in within[n - 1]}
    IN  within[Cardinality(Worker)]

Deadlocked(w) == Running(w) /\ w \in Ahead(w)

-----------------------------------------------------------------------------
(* Process, one episode. *)

\* Mutant: the consumer is created without MaxDeliver.
DeliverUnbounded(event) == delivered' = [delivered EXCEPT ![event] = @ + 1]

\* MaxDeliver bounds the deliveries of an event.
Deliver(event) ==
    /\ delivered[event] < MaxDeliver
    /\ delivered' = [delivered EXCEPT ![event] = @ + 1]

\* AlreadyProcessed answers no; then the model is asked, outside any transaction.
Process(w, u, claims) ==
    /\ ~Running(w)
    /\ Deliver(u)
    /\ u.episode \notin ingested
    /\ \E owed \in Orders({claims[n].topic : n \in DOMAIN claims}) :
          tx' = [tx EXCEPT ![w] =
                   [Begun(u, "extracting") EXCEPT !.todo = claims, !.owed = owed]]
    /\ UNCHANGED tables

\* Begin and SaveEpisode: a second transaction of the same episode waits for the first.
SaveEpisode(w) ==
    /\ MayRun(w)
    /\ tx[w].stage = "extracting"
    /\ tx' = [tx EXCEPT ![w].stage = "resolving"]
    /\ UNCHANGED <<tables, delivered>>

Resolving(w) == MayRun(w) /\ tx[w].stage = "resolving" /\ tx[w].todo # <<>>

\* Mutant: no FOR UPDATE.
Unlocked(w, i) == tx[w].locks

Locked(w, i) == tx[w].locks \cup {i}

\* SELECT ... FOR UPDATE: finds nothing, locks the row it finds, or waits for it.
lockCurrent(w) ==
    /\ Resolving(w)
    /\ Supersedes(Claimed(w).kind)
    /\ tx[w].current = NotAsked
    /\ IF CurrentFor(View(w), Claimed(w)) = {}
       THEN tx' = [tx EXCEPT ![w].current = None]
       ELSE \E i \in CurrentFor(View(w), Claimed(w)) :
              IF RowHolders(w, i) = {}
              THEN tx' = [tx EXCEPT ![w].current = i, ![w].locks = Locked(w, i)]
              ELSE tx' = [tx EXCEPT ![w].current = Waiting, ![w].awaited = i]
    /\ UNCHANGED <<tables, delivered>>

\* The lock is free: the row as it is now is tested again, and if it no longer is current
\* the statement returns no row (what was inserted since it began it does not see).
Wake(w) ==
    /\ Resolving(w)
    /\ tx[w].current = Waiting
    /\ tx' = LET i == tx[w].awaited
                 still == i \in CurrentFor(memories, Claimed(w))
             IN  [tx EXCEPT ![w].current = IF still THEN i ELSE None,
                            ![w].awaited = None,
                            ![w].locks = IF still THEN Locked(w, i) ELSE @]
    /\ UNCHANGED <<tables, delivered>>

\* Mutant: the error is returned and nobody rolls back.
AbandonWithoutRollback(w) == UNCHANGED vars

\* The transaction is rolled back, the locks are gone, the message is redelivered.
Abandon(w) == tx' = [tx EXCEPT ![w] = None] /\ UNCHANGED <<tables, delivered>>

\* Mutant: the statements run on the pool, not on the transaction.
WriteOnPool(w, rows, id) ==
    /\ SchemaAccepts(Overlaid(memories, rows))
    /\ memories' = Overlaid(memories, rows)
    /\ tx' = [tx EXCEPT ![w].rows = rows, ![w].todo = Tail(@), ![w].current = NotAsked,
                        ![w].links = @ \cup {id}]
    /\ UNCHANGED <<provenance, episodes, ingested, delivered>>

\* The writes of one branch of commitOne: `rows` are all that w wrote so far, `id` the row
\* that gains the episode.  The unique index judges them beside what is committed.
Write(w, rows, id) ==
    IF SchemaAccepts(Overlaid(memories, rows))
    THEN /\ tx' = [tx EXCEPT ![w].rows = rows, ![w].todo = Tail(@), ![w].current = NotAsked,
                             ![w].links = @ \cup {id}]
         /\ UNCHANGED <<tables, delivered>>
    ELSE Abandon(w)

Answered(w) == Resolving(w) /\ tx[w].current \notin {NotAsked, Waiting}

Create(w) ==
    LET row == NewRow(Claimed(w), tx[w].event.occurred, None, None)
    IN  /\ Resolving(w)
        /\ Supersedes(Claimed(w).kind) => tx[w].current = None
        /\ Fresh # {}
        /\ Write(w, Insert(tx[w].rows, NewId, row), NewId)

Reinforce(w) ==
    LET current == tx[w].current
        row == Reinforced(View(w)[current], Claimed(w), tx[w].event.occurred)
    IN  /\ Answered(w) /\ current # None
        /\ isRestatement(View(w)[current], Claimed(w))
        /\ Write(w, Insert(tx[w].rows, current, row), current)

Backfill(w) ==
    LET current == tx[w].current
        taken == View(w)[current].from
        row == NewRow(Claimed(w), tx[w].event.occurred, taken, current)
    IN  /\ Answered(w) /\ current # None
        /\ ~isRestatement(View(w)[current], Claimed(w))
        /\ tx[w].event.occurred < taken
        /\ Fresh # {}
        /\ Write(w, Insert(tx[w].rows, NewId, row), NewId)

Supersede(w) ==
    LET current == tx[w].current
        at == tx[w].event.occurred
        closed == [View(w)[current] EXCEPT !.to = at, !.by = NewId]
    IN  /\ Answered(w) /\ current # None
        /\ ~isRestatement(View(w)[current], Claimed(w))
        /\ at >= View(w)[current].from
        /\ Fresh # {}
        /\ Write(w, Insert(Insert(tx[w].rows, current, closed),
                           NewId, NewRow(Claimed(w), at, None, None)), NewId)

\* recordExpertise: one UPSERT per topic, in no particular order.
recordExpertise(w) ==
    /\ MayRun(w)
    /\ tx[w].stage = "resolving" /\ tx[w].todo = <<>> /\ tx[w].owed # <<>>
    /\ tx' = [tx EXCEPT ![w].credits = @ \cup {Head(tx[w].owed)}, ![w].owed = Tail(@)]
    /\ UNCHANGED <<tables, delivered>>

FinishCommit(w) ==
    /\ MayRun(w)
    /\ tx[w].stage = "resolving" /\ tx[w].todo = <<>> /\ tx[w].owed = <<>>
    /\ LET u == tx[w].event
       IN  /\ memories' = View(w)
           /\ provenance' = provenance \cup (tx[w].links \X {u.episode})
           /\ episodes' = [episodes EXCEPT ![u.episode] = IF @ = None THEN u.document ELSE @]
           /\ ingested' = ingested \cup {u.episode}
    /\ tx' = [tx EXCEPT ![w] = None]
    /\ UNCHANGED delivered

\* The model fails, the deadline passes, the process dies.
Fail(w) == Running(w) /\ Abandon(w)

\* PostgreSQL ends a transaction of every circle of waits.
DeadlockDetected(w) == Deadlocked(w) /\ Abandon(w)

-----------------------------------------------------------------------------
(* InvalidateByDocument without purge. *)

\* The rows nothing but the document supports, as committed when the UPDATE starts.
Closing(derived, document) ==
    {i \in derived :
        /\ memories[i].to = None
        /\ \A e \in Episode : <<i, e>> \in provenance => episodes[e] = document}

\* The SELECT; nothing derives from the document: nothing to do.
InvalidateByDocument(w, d) ==
    LET derived == {i \in DOMAIN memories :
                      \E e \in Episode : <<i, e>> \in provenance /\ episodes[e] = d.document}
    IN  /\ ~Running(w)
        /\ Deliver(d)
        /\ tx' = IF derived = {} THEN tx
                 ELSE [tx EXCEPT ![w] = [Begun(d, "selected") EXCEPT !.derived = derived]]
        /\ UNCHANGED tables

\* The UPDATE starts: its snapshot decides which rows it visits, in some order.
CloseRows(w) ==
    /\ MayRun(w)
    /\ tx[w].stage = "selected"
    /\ \E ids \in Orders(Closing(tx[w].derived, tx[w].event.document)) :
          tx' = [tx EXCEPT ![w].stage = "closing", ![w].ids = ids]
    /\ UNCHANGED <<tables, delivered>>

\* Mutant: neither valid_to IS NULL nor COALESCE.
OpenOrNot(i) == TRUE

StillOpen(i) == memories[i].to = None

\* One row, when its lock is free: valid_to is tested again on the row as it is now, the
\* provenance is that of the snapshot.
CloseRow(w) ==
    /\ MayRun(w)
    /\ tx[w].stage = "closing" /\ tx[w].ids # <<>>
    /\ LET i == Head(tx[w].ids)
           rows == Insert(tx[w].rows, i, [memories[i] EXCEPT !.to = tx[w].event.occurred])
       IN  IF ~StillOpen(i)
           THEN tx' = [tx EXCEPT ![w].ids = Tail(@)]
           ELSE IF SchemaAccepts(Overlaid(memories, rows))
           THEN tx' = [tx EXCEPT ![w].ids = Tail(@), ![w].rows = rows, ![w].locks = Locked(w, i)]
           ELSE tx' = [tx EXCEPT ![w] = None]
    /\ UNCHANGED <<tables, delivered>>

\* The audit: each row references a memory, and waits for whoever holds it FOR UPDATE.
AuditRows(w) ==
    /\ MayRun(w)
    /\ tx[w].stage = "closing" /\ tx[w].ids = <<>>
    /\ \E ids \in Orders(tx[w].derived) :
          tx' = [tx EXCEPT ![w].stage = "auditing", ![w].ids = ids]
    /\ UNCHANGED <<tables, delivered>>

\* The next audit row.  Its foreign key goes on to hold the memory FOR KEY SHARE, and a
\* lockCurrent that comes later waits until the deletion ends.  That wait is left out: without
\* it more orders are possible, and a circle it closes is broken like every other.
recordInvalidation(w) ==
    /\ MayRun(w)
    /\ tx[w].stage = "auditing" /\ tx[w].ids # <<>>
    /\ tx' = [tx EXCEPT ![w].ids = Tail(@)]
    /\ UNCHANGED <<tables, delivered>>

FinishDeletion(w) ==
    /\ MayRun(w)
    /\ tx[w].stage = "auditing" /\ tx[w].ids = <<>>
    /\ memories' = View(w)
    /\ tx' = [tx EXCEPT ![w] = None]
    /\ UNCHANGED <<provenance, episodes, ingested, delivered>>

-----------------------------------------------------------------------------
CommitStep(w) ==
    \/ SaveEpisode(w)
    \/ lockCurrent(w)
    \/ Wake(w)
    \/ Create(w)
    \/ Reinforce(w)
    \/ Backfill(w)
    \/ Supersede(w)
    \/ recordExpertise(w)
    \/ FinishCommit(w)

DeletionStep(w) ==
    \/ CloseRows(w)
    \/ CloseRow(w)
    \/ AuditRows(w)
    \/ recordInvalidation(w)
    \/ FinishDeletion(w)

Next ==
    \E w \in Worker :
        \/ \E u \in Upsert, claims \in Extraction : Process(w, u, claims)
        \/ \E d \in Deletion : InvalidateByDocument(w, d)
        \/ CommitStep(w)
        \/ DeletionStep(w)
        \/ DeadlockDetected(w)
        \/ Fail(w)

Spec == Init /\ [][Next]_vars

\* A transaction that can take a step does (the worker is a goroutine, the database answers),
\* and the database looks for deadlocks.  Deliveries and failures are not owed to anyone.
Fairness ==
    \A w \in Worker :
        /\ WF_vars(CommitStep(w) \/ DeletionStep(w))
        /\ WF_vars(DeadlockDetected(w))

FairSpec == Spec /\ Fairness

-----------------------------------------------------------------------------
(* Properties. *)

TypeOK ==
    /\ IsTable(memories)
    /\ provenance \subseteq MemoryId \X Episode
    /\ episodes \in [Episode -> Document \cup {None}]
    /\ ingested \subseteq Episode
    /\ \A w \in Worker : Running(w) => IsTransaction(tx[w])
    /\ delivered \in [Upsert \cup Deletion -> 0..MaxDeliver]

\* Transactions that overlapped leave a table the schema accepts (one current memory per
\* key above all), without a gap or an overlap between a memory and its successor and
\* without a circle of successors.
OverlapLeavesSoundTable ==
    /\ SchemaAccepts(memories)
    /\ Gapless(memories)
    /\ Wellfounded(memories)

\* The row a worker resolves a claim against is still current when the worker writes: the
\* lock is held from the SELECT to the end.
ResolvesAgainstCurrent ==
    \A w \in Worker :
        Running(w) /\ tx[w].current \in MemoryId =>
            IF tx[w].current \in DOMAIN tx[w].rows
            THEN IsCurrent(tx[w].rows[tx[w].current])
            ELSE IsCurrent(memories[tx[w].current])

\* Overlapping Commits have the effect of Commits one after the other: no claim is lost,
\* resolved against a stale memory or visible before the rest of its episode.
Serial == INSTANCE SerialCommit
              WITH memories <- memories, provenance <- provenance,
                   episodes <- episodes, ingested <- ingested
Serializable == Serial!Spec

\* Every transaction ends, by committing or not, however the workers block one another.
EveryTransactionEnds == \A w \in Worker : Running(w) ~> ~Running(w)

-----------------------------------------------------------------------------
(* What the repository says and the code does not keep; each is refuted by *)
(* a run.                                                                  *)

\* store.go:91-92: "the second delivery of the same content hash must do nothing at all".
\* Two deliveries that overlap both find it absent from the log, and file its events twice.
SecondDeliveryDoesNothing ==
    \A i, j \in DOMAIN memories, e \in Episode :
        /\ memories[i].kind = "event" /\ memories[j].kind = "event"
        /\ memories[i].statement = memories[j].statement
        /\ <<i, e>> \in provenance /\ <<j, e>> \in provenance
        => i = j

\* query.go:463: "A memory corroborated by other, still-live sources keeps standing".  Not
\* when the corroboration commits while the UPDATE waits for the row.
CorroboratedStands ==
    [][\A i \in DOMAIN memories :
         memories[i].to = None /\ memories'[i].to # None /\ memories'[i].by = None =>
            \A d, e \in Episode :
                <<i, d>> \in provenance /\ <<i, e>> \in provenance =>
                    episodes[d] = episodes[e]]_vars
=============================================================================
