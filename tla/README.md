# A specification of the memory service

TLA+ modules, TLC models and TLAPS proofs for `src/services/memory-service`, the Go service
that turns content events into bi-temporal, cited memories. Paths below are relative to that
directory unless they start with `src/`.

## The system

| Component | Source | State it keeps | Operations |
| --- | --- | --- | --- |
| Bi-temporal store | `internal/store/commit.go`, `store.go`, `migrations/0001_memory.sql` | `memories`, `memory_provenance`, `memory_invalidations`, `memory_episodes`, `memory_ingest_log`, `memory_expertise`, `memory_rejections` | `Commit` (create, reinforce, backfill, supersede), `AlreadyProcessed`, `SaveEpisode` |
| Deletion and purge | `internal/store/query.go` | the same tables | `InvalidateByDocument` |
| Maintenance jobs | `internal/store/maintenance.go`, `internal/jobs/jobs.go` | salience, `archived`; in memory: the scan, the group | `ApplyDecay`, `FindConsolidationGroups`, `Consolidate`, `Run` |
| Ingestion pipeline | `internal/pipeline/pipeline.go` | none | `Process`: check the log, extract, verify, commit |
| Content events | `internal/contentevent/contentevent.go` | none | `Decode`, `Validate`, `Episode` |
| JetStream consumer | `internal/bus/consumer.go` | deliveries (at the server), the message in the handler | `Start`, `handle`, `handleDelete`, `Stop` |
| Process wiring | `cmd/memory-service/main.go` | the signal context | start, signal, shutdown |
| Read path | `internal/store/query.go`, `internal/api/api.go` | none | `Search`, `Timeline`, `History`, `CurrentTasks` |
| Extraction, verification, topics | `internal/extract`, `internal/verify`, `internal/memory` | none | `Extract`, `Merge`, `VerifyAll`, `NormalizeTopic`, `Similarity` |
| LLM client | `internal/llm/llm.go` | none | `Complete` with retries, `ExtractJSON` |
| Graph projection | `internal/store/graph.go` | Apache AGE vertices and edges | `UpsertMemory`, `LinkSupersedes`, ... |

They interact in three ways. *Messages*: the consumer of every replica shares one durable JetStream
consumer; each runs its handler on one message at a time. *Calls*: the handler, and `POST
/v1/episodes`, call `Process`, which reads the ingest log, asks the model for minutes, and calls
`Commit`. *Shared tables*: commits, deletions and each replica's jobs (every six hours and every
day) meet only in PostgreSQL, under READ COMMITTED, through one row lock (`lockCurrent`), one
partial unique index and the checks of the schema.

What is hard: claims arrive in any order of the time they speak of; transactions overlap and
wait for each other; jobs write what they decided on an old snapshot; messages come back
after a timeout, a crash or a lost answer while the first handler is still at work; a shutdown
cancels handlers and not the consumer. `PROJECT.json` lists each such hazard at its line.

What makes each component correct:

* *Store.* One current memory per key; a superseded memory ends where its successor begins;
  chains of successors end; every memory can be cited and every closing is audited; history is
  not rewritten; overlapping commits are as if one after the other; every transaction ends.
* *Deletion.* After a deletion nothing comes to rest, open, on the deleted document alone - except
  the summary of a group of events that was read before it, against what the code says of itself
  (`stale_group`).
* *Jobs.* Stale decisions break none of the above; only events are consolidated; what is archived
  has faded, and what has faded is archived in the end.
* *Readers.* Between the start of a memory and the end of its successor, never the wrong one of the
  two answers, and the right one does unless decay has archived it (which the documentation does
  not except); the decisions timeline lists every decision and marks every one that replaced another,
  though of several it replaced it shows one.
* *Graph.* It tells of states what the tables tell, and nothing the tables did not commit.
* *Text.* What straddles two chunks is seen whole; the JSON value the model meant is the one read;
  phrasings of the same words make one key, and those that share a key share their stems.
* *Extraction and verification.* The claims of an episode do not restate each other; merging keeps
  every statement of the broad pass and every name a detail gave a value, and makes no value up (it
  may drop one of two values of a name, and the verifier lets some pass that the model made up); a
  broken model is not an empty document.
* *Consumer.* Nothing is acked undone; nothing is given up early; every message is settled;
  once failures stop, work that can be done is done.

## The modules

| Module | What it is |
| --- | --- |
| `MemoryRows` | one row of `memories`, its constraints, `isRestatement`, the row-level effect of each statement |
| `MemoryStore` | the store and the jobs, transactions one at a time (EXTENDS `MemoryRows`) |
| `BitemporalTable` | the abstract store: a sound table that only grows, except for purges; `MemoryStore` implements it |
| `GraphStore` | the Apache AGE graph beside the tables: each step of the store with its Cypher (EXTENDS `MemoryStore`) |
| `ReadPath` | what searches and the decisions timeline answer from the tables (EXTENDS `MemoryStore`) |
| `Decay` | the salience of one memory over time: sweeps, reinforcements, archival |
| `SerialCommit` | the abstract promise: an episode is resolved in one step |
| `ConcurrentCommit` | commits and deletions statement by statement, with locks and snapshots; refines `SerialCommit` |
| `Delivery` | the consumer, the server's side of it, crashes and shutdown |
| `Extraction` | from chunks to claims: the calls to the model, `Merge`, the verifier |
| `Chunking`, `JSONScan`, `TopicKey` | `ChunkBody`, `ExtractJSON`, `NormalizeTopic` |
| `MCMemoryStore`, `MCDecay`, `MCConcurrentCommit`, `MCDelivery`, `MCExtraction`, `MCText` | values of the constants for TLC; `MCMemoryStore` composes the store, the graph and the readers, `MCText` runs the three text algorithms and `Extraction` side by side |
| `MemoryRowsProofs` | lemmas about single statements on a table |
| `MemoryStoreProofs` | theorems about the store, and that it implements `BitemporalTable` |
| `ViewProofs` | theorems about what is told of the memories: citations, audit, `ReadPath`, `GraphStore` |
| `ConcurrentCommitProofs` | theorems about overlapping transactions, and that they implement `SerialCommit` |
| `ExtractionProofs` | theorems about `Chunking` and `Extraction`; lemmas about loops |
| `TextProofs` | the theorems about `JSONScan` and `TopicKey` |
| `DecayProofs`, `DeliveryProofs` | theorems about the modules of those names |

### MemoryRows and MemoryStore

A row of `memories` is a record: `kind`, `topic`, `statement`, one attribute `attr`, task `status`,
validity `[from, to)`, successor `by`, `seen` (last_seen_at) and `archived`. Text is abstract:
`Similar` is any symmetric relation on statements (not reflexive: a statement without content words
resembles nothing, `similarity.go:47`), and `isRestatement` is the code's predicate on top of it.
`provenance`, `invalidations`, `episodes`, `ingested` are the tables of those names. Confidence,
salience, subjects and ACL groups are left out: no branch of the modelled code looks at them
(whether decay archives a memory depends on salience; here it may archive whichever it is allowed
to).

A Commit is `BeginCommit`, then one action per claim - `Create`, `Reinforce`, `Backfill`,
`Supersede`, the four paths of `commitOne` - then `FinishCommit` or `AbortCommit`. Each action
passes the tables its statements go through, in their order, to `SchemaAccepts`; a refused
statement rolls everything back and sets `collided`. `saved` holds what others read in the
meantime. `InvalidateByDocument` (with `CloseDerived` or, with `PURGE_ON_DELETE`,
`PurgeDerived` and its cascades; the constant is the set of values the setting has over the
restarts of the replicas) and `Consolidate` are one transaction each. The decay sweep
is what the code makes it: a scan, then single auto-committed UPDATEs (`DecayUpdate`) with
anything in between, stopped by the first that fails. Consolidation is three statements with gaps
between them: `CountGroups` reads the crowded keys into `counted`, `FindConsolidationGroup` searches
one of them and skips it or makes it the `group`, and `Consolidate` follows a call to the model.
Each replica has its own `sweep`, `counted` and `group`; of the groups it has read it holds one at a
time, since groups of different keys share no rows.

`BeginCommit` asks the ingest log and begins the transaction in one step. In the code a call to the
model lies between; what may happen then, the same content committed by another delivery, is the
subject of `ConcurrentCommit`, where `Process` and `SaveEpisode` are apart, and of its run `twice`.

### BitemporalTable

What a reader may rely on, without a word about how it comes about: the table is sound at every
instant (`Promised`: the constraints of the schema, gapless handoff, finite chains); a step is
`Grow` - rows are added, open ones closed or linked, nothing said or closed is rewritten, no id of
a deleted row returns - or `Purge`. `MemoryStore!Promise` instantiates it with the committed rows
as the table (while a Commit is open, readers see `saved`) and `purged` as what is gone:
`FinishCommit`, deletions, consolidation and each decay update are steps of it, the statements
inside a Commit and its rollback are stutters. `KeepsPromise` is its specification.

### GraphStore

`graph` holds the vertices and edges of the code: a Memory vertex with its ABOUT edge, Episode
vertices, DERIVED_FROM and SUPERSEDES edges. Each step of `MemoryStore` is conjoined with the
Cypher that runs in its transaction: `UpsertMemory` and `UpsertEpisode` MERGE, the two `Link`
operations do nothing when a vertex is missing, as MATCH does. `savedGraph` is what a rollback
restores. `GraphConsolidate` keeps the order of `Consolidate`, which links before it creates; a
deletion, a purge and decay run no Cypher (`GraphUntouched`). Every step of `GraphSpec` is a step
of `MemoryStore`, so one run checks both. The model has the graph enabled
(`MEMORY_GRAPH_ENABLED`); without it the graph variables have no code.

### ReadPath

`Search` is the WHERE clause for kinds, topics and an instant. `Timeline` is one page of decisions,
each with the one row its map `replaced` has for it: `Scanned` are the maps the second query may
leave behind, which keep, of several rows one decision replaced, whichever is scanned last
(`MayShow`); properties speak of the page of every such map. A reader runs outside of the
transactions of the store, so properties speak of states without an open Commit. Limits, ranking and
the other filters narrow or order an answer.

### Decay

One memory: a sweep judges and writes rows one by one and never relates two. Salience is a whole
number of parts of `One`; `Remains[kind][elapsed]` is what `math.Pow` leaves of it, of which the
module only assumes what it needs (nothing is lost at once, nothing comes back, half is left after
a half-life). `Scan` decides on a replica's reading of the row, `Apply` writes it by id whatever
became of the row, `Stop` is a sweep that ends before; `Reinforce` and `Close` are what `Commit`
and deletions do in between.

### SerialCommit and ConcurrentCommit

`ConcurrentCommit` has workers (consumers and HTTP requests), each with a transaction record:
rows written and not committed, row locks, expertise locks, claims left. Committed state is in
the tables. A statement reads `View`: what is committed now, and its own writes. External is
what PostgreSQL does: `lockCurrent` locks, waits (`Waiting`) or finds nothing; a waiter that
wakes tests the row again and gets no row if it no longer is current (`Wake`); an INSERT of an
open memory waits for another uncommitted entry of the key (`IndexHolders`); a second
transaction of the same episode waits at `SaveEpisode`; expertise rows are locked in the
order of a Go map (`Orders`); a circle of waits is broken (`DeadlockDetected`). A deletion
selects, then its UPDATE decides on the rows of its snapshot (`CloseRows`), takes each when it
is free and tests `valid_to` again (`CloseRow`), then audits. One wait is left out: the foreign key of
an audit row holds its memory FOR KEY SHARE until the deletion ends, and a later `lockCurrent` would
wait for it. Without it the model has more orders than the program, and a circle this wait would
close is broken by the same rule as the others.

`SerialCommit` resolves all claims of an episode in one step, with the same variables for the
tables. `ids` are what the claims draw for new rows, None for one that only reinforces, and
`Resolutions` the tables they leave behind one after the other. The refinement mapping is the
identity on the tables: only `FinishCommit` and `FinishDeletion` change them, everything else
stutters. `Withdraw` is deliberately loose: a deletion closes *some* open memories that rest on the
document; which ones is checked in `MemoryStore`.

### Delivery

Per message: its `status` at the server and how often it was delivered. Per replica: the deliveries
pulled ahead, the one in the handler (`handling`) and how far it is, and the state of its context.
`Take`, then `Dismiss` (undecodable and invalid payloads are terminated, thin ones acked),
`PropagateDelete`, or `CheckLog` and `CommitEpisode`, then `Reply`. `Fail` is any error, answered by
one of `Refusal`: Term for an upsert whose deliveries are used up, and otherwise, or when the number
of the delivery cannot be read, Nak; a delete is refused always. `CommitUnanswered` is a COMMIT
whose answer is lost, `ReplyLost` an ack that is. `AckExpires` is the server's timer: it hands the
message out again while the first handler goes on. `Signal`, `Stop`, `Exit` and `Restart` are the
life of a replica: a signal cancels the context of the handlers at once and stops the consumer last,
and `Exit` is also a crash. Commit is one step here; what it does to the tables is the subject of
the other modules. `failures` and `calm` are not program state: the first tells a loss caused by a
fault from one caused by the shutdown, the second lets a property speak of the time after the last
fault.

### Extraction

One run of `Process`, between the ingest log and `Commit`. The loop over chunks is `chunk` and
`pass`; each call to the model ends as `Answered`, `Malformed`, or, after `Retry`s, as
`Unavailable`; `Expire` is the deadline of the handler, after which every call fails. `broad`
and `detail` are the candidates so far, and `errs` counts the passes that failed. `Screen` is
the decision `Process` takes; `Merged` and `Accepted` are the results of `Merge` and
`VerifyAll` on these candidates, with their helpers named as in the code. The model may
answer any sequence from a set: its items have a kind or none, a topic, a statement,
attributes, a confidence and a quote. What the lexical heuristics make of a text is constant:
`Likeness` of statements (in percent, so that the thresholds 85 of `dedupe` and 70 of
`checkRedundancy` are the code's), which are self-contained, which quotes the source contains.
Of a value of an attribute they are what `checkAttributes` asks: whether the body has it verbatim,
whether it has a figure and its digits are among those of the body run together, whether its words
overlap (`InSource`).
`timely` says whether the episode is dated in the verifier's future (check 6).

The loops over an answer are folds that append what is kept (`BroadCandidates`,
`DetailCandidates`), and `sort.SliceStable` is the insertion of each candidate behind everything
that does not come after it (`Placed`). What comes out of this module is what goes into the others
as an extraction: a sequence of claims sorted by key.

### Chunking, JSONScan and TopicKey

`Chunking` is the loop of `ChunkBody`, one window at a step. A body is its length; where its
paragraphs, sentences, lines and words end is chosen anew for each window (`LastIndex`), under the
rule of `boundaryBefore` that a cut gives back at most half the window. `JSONScan` is `ExtractJSON` on
bytes reduced to the classes the switch tells apart; its reference (`Reader`, `FirstValue`) reads
the same text with a stack of both kinds of brackets. `TopicKey` has a word as parts joined by
hyphens, each a stem and one of the endings `singularize` looks at; a key is a word again, since
joining puts the same hyphen between words that stands inside of them, and `SearchGroup`
normalizes it a second time as `FindConsolidationGroups` does by way of `Search`.

## The runs

Passing runs, with what they show:

| Run | Model | Properties |
| --- | --- | --- |
| `store` | one topic, three ids, three episodes of two documents at times 0..2, claims of facts, tasks, events and decisions, two deletions, with and without `PURGE_ON_DELETE`, one replica's jobs, groups of two, the graph beside them; 0.6 M states | `TypeOK`, `ResolverNeverCollides`, `GaplessHandoff`, `ChainsEnd`, `EveryMemoryCited`, `AuditComplete`, `OnlyEventsConsolidated`, `DeletedIsWithdrawn`, `HistoryIsKept`, `KeepsPromise` (refinement of `BitemporalTable`), `GraphTellsStates`, `NoEdgeWithoutRow`, `SeamlessAnswers`, `TimelineTellsChanges` |
| `decay` | two replicas, the five kinds with their half-lives in months, salience in twentieths, five instants, two reinforcements, under `FairSpec`; 1.1 M states | `TypeOK`, `ArchivedIsFaded`, `ColdIsArchived` |
| `concurrent` | two workers, three episodes, one deletion, two topics, six ids; 0.1 M states | `TypeOK`, `OverlapLeavesSoundTable`, `ResolvesAgainstCurrent`, `Serializable` |
| `ends` | two workers, two episodes, one deletion, under `FairSpec` | `EveryTransactionEnds` |
| `delivery` | two replicas, a page and its deletion, two deliveries each, two unanswered places; 0.3 M states | `TypeOK`, `AckedIsDone`, `GivenUpIsSpent` |
| `settles` | one replica, a page, a thin reaction and a poison payload in two unanswered places, under `FairSpec`; 0.15 M states | `EveryMessageSettles`, `CalmDelivers` |
| `text` | bodies of 0 to 40 for windows of 12 with an overlap of 2 and tails of 3, every choice of cuts; completions of up to six bytes, bare and fenced; pairs of phrases of up to two words; two chunks, two attempts and five answers to each pass, with a fair `Extraction`; 0.8 M states | `ChunkTypeOK`, `SpanSeenWhole`, `WindowsAdvance`, `FirstValueAnswered`, `PhrasingsMeet`, `GroupFoundAgain`; of `Extraction` `TypeOK`, `AcceptedAreDistinct`, `InLockOrder`, `MergeKeepsWhatWasSaid`, `AllFailedIsRetried`, `ProcessEnds` |

Deadlock is not checked: the models stop where the system does, with every event handled and
every claim's id given out, or every message settled.

*Bounds.* Ids are the bound on how many memories there are; three allow a supersession of a
superseded memory, two backfills behind one current memory, and a summary of two events. Three
instants tell before, at and after. One topic suffices in `store`, where keys never interact; two
are needed in `concurrent`, for circles of waits (an episode locks its topics in the order of its
claims, which `Merge` sorts, so circles need a deletion or the expertise rows), where six ids are
the most the deliveries can use. `MaxDeliver` is 1 in `concurrent` (a second delivery of the same
content breaks the promise, see `twice`), and 2 in `delivery`: a first, a last, and the two at once.
Three statements of which two are similar give restatement, rewording and contradiction. Two workers
make every wait of the code, and a circle of two: a longer circle ends by the same rule. In `text`
two chunks are a chunk and one that repeats it; the answers have three statements of one key that
are alike in pairs only, keys out of order, duplicates with other attributes, values for each answer
of `checkAttributes` (as written, by digits, by digits that belong to two figures, in other words,
absent), and for each check of the verifier an item that fails it alone. `delivery` has a deletion
whose every try may fail; `settles` has one replica and no deletion, since with either its state
graph is too large for liveness: that a deletion settles is not checked. In `decay` a unit of time
is 30 days, so that the shortest half-life is two units and the longest beyond the horizon, and the
floor of 0.15, the bump of 0.25 and a maximum (1.4 instead of 2.0, so that two reinforcements reach
it) are the code's; two replicas are one whose update is late and one that sweeps meanwhile. The
windows of `text` keep the code's order of sizes (overlap and tail together well below half a
window), the bodies go from nothing to four windows with every remainder around a tail, six bytes
are a string with an escaped quote inside brackets, and the words have each ending and exception of
`singularize`, an identifier, a hyphen and two stopwords. `SYMMETRY` is used on ids, workers and
replicas in runs without liveness.

*Fairness.* `ConcurrentCommit`: a goroutine whose statement is not blocked takes its next step
(weak, on all steps of a transaction together), and PostgreSQL's deadlock detector runs.
`Delivery`: a handler goes on or is ended by its deadline (`consumer.go:177-180`); a shutdown
ends (`main.go:133` gives it 30 s); a replica is restarted; the ack timer runs; the server
serves a replica that keeps asking - strongly, since replicas come and go. Nothing obliges
faults to occur or to end, and a message may be delivered while its first handler is at
work as long as the environment is not calm. That an expired timer never interrupts a handler
in calm times is an assumption of `CalmDelivers`: with the default `BackOff` of 5 s it means
that the model answers within that time. `Extraction`: a call ends with an answer or an error,
since the HTTP client has a timeout (`llm.go:58`), and `Process` goes on after it; nothing
obliges the deadline to pass. `Decay`: each replica's ticker comes round to the row (weak on
`Scan`), and a sweep that decides on it again and again writes it at last (strong on `Apply`, since
any sweep may be stopped by an earlier row's failure or a shutdown); neither `Tick`,
reinforcement nor closing is ever forced.

## Where the code and its documentation disagree

Each is a run that TLC must find violated.

| Run | Property | What happens |
| --- | --- | --- |
| `twice` | `SecondDeliveryDoesNothing` | A redelivery during the first extraction passes `AlreadyProcessed` and files events twice (`store.go:91-92`). |
| `corroborated` | `CorroboratedStands` | A deletion that waits for a row closes a memory corroborated in the meantime (`query.go:463`). |
| `shutdown` | `ShutdownCostsNoMessage` | The consumer is stopped after the HTTP server and consumes with a cancelled context until then, using up deliveries (`main.go:43-44`). |
| `stale_group` | `ClosesOffEveryMemory` | A group is read, the deletion of its document closes its rows, and `Consolidate` then inserts an open summary that rests on the deleted document alone (`maintenance.go:219-256`), where `InvalidateByDocument` "closes off every memory derived from a document" (`query.go:417`). |
| `half_life` | `LastsItsHalfLife` | Each sweep applies the whole time since the last reinforcement to what the sweeps before it left (`maintenance.go:71`): with a sweep every six hours an event is archived after 11 days, where its half-life of 90 days and the floor of 0.15 make 246 (`README.md:173-174`, `memory.go:51-52`). |

Also observed while modelling, without a run of its own:

*Store and readers.* Two backfills behind one current memory both end where it begins
(`commit.go:191`), so that an as-of query is answered twice where `store_test.go:282-290` expects
one answer; `Search` leaves out archived memories for `as_of` too (`query.go:71`; `SeamlessAnswers`
excepts exactly these), while `README.md:174-175` and `maintenance.go:24-25` say they still resolve;
`Timeline` shows, of several decisions one replaced (what it superseded, and a backfill filed behind
it), the one scanned last (`query.go:324`; `TimelineTellsChanges` asks for that one only where it is
the only one), while "the point is to show the reversal" (`query.go:231-233`); once a deletion has
closed a memory, a later claim of an earlier time is created beside it and their intervals overlap.
*Graph.* `Consolidate` links the summary to its originals before the summary is a vertex, so MATCH
finds nothing and the edges never exist, nor do the summary's DERIVED_FROM edges
(`maintenance.go:262`); a purge leaves its vertices and edges behind; both against "the projection
cannot drift" (`migrations/0002_age_graph.sql:11-13`). Reinforcement adds no MENTIONS edges for the
subjects it adds. Overlapping deliveries count an EXPERT_IN score twice, which `graph.go:211-215`
rules out by the ingest log. *Text.* A chunk begins `chunkOverlapChars` before the end of the last,
wherever that is, so it can begin in the middle of a clause or of a rune (`chunk.go:31-32` says it
never does); a fence inside a JSON string cuts the value off (`llm.go:178-185`); a key whose last
word was spared the plural rule for being short ("aws-dns") is normalized to another key, so
`FindConsolidationGroups` never finds such a group (`GroupFoundAgain` names exactly these); and the
parts of a hyphenated word keep their order, so "on-call" and "call on" differ. A pass that fails
beside one that yields a candidate loses its chunk for good (`pipeline.go:79`), where
`extract.go:139-140` calls it recoverable.

*Concurrency and delivery.* `FOR UPDATE` on no row locks nothing and a waiter may find none, so the
index, and not the lock as `commit.go:258-262` has it, is what stops the second of two workers (the
branch of `ConcurrentCommit` in which `SchemaAccepts` fails); a memory reasserted at time 2 is
closed at time 1 by a contradicting claim of time 1, since the backfill test compares `valid_from`
(`commit.go:189`); a memory of two documents stays current after both are deleted, one after the
other (`query.go:471`); a deletion handled before the upsert of its document leaves no trace
(`query.go:449`); a purge keeps the ingest log, so the content is never extracted again; a deletion
dated before a memory it closes fails on the interval check each time (`query.go:467`); a deletion
refused `MaxDeliver` times is dropped without a Term (`consumer.go:194`); the nak of a replaced
delivery counts against the new one, and may exhaust a message whose handler is about to succeed -
hence the `~Held` of `CalmDelivers`; a detail of kind task that finds no broad candidate never
passes the verifier, since the detail pass sets no task status (`verify.go:291`); an invented detail
grafted on a sound statement has both rejected; the digits of a value are looked for in all digits
of the body run together (`verify.go:345`, `:361`), so that the end of one figure and the beginning
of the next vouch for a number nobody wrote, which the check is there to stop (`verify.go:329`,
`:356-357`); a detail that no broad candidate takes becomes the target of the next of its key, whose
statement, and second value for a name, are dropped (`extract.go:284`, `:296-300`), where each was
to be kept standalone (`extract.go:274-276`); an episode dated more than five minutes ahead is
logged as processed with nothing accepted; and chunks beyond `MaxChunks` are cut off without the log
entry the comment at `extract.go:63-65` speaks of.

## The proofs

Every theorem holds for every value of the constants - any sets of ids, topics, statements,
episodes, inputs, replicas, messages, any budgets, half-lives, lengths - from the named assumptions
of the modules: inputs are well formed, `Similar` and `Likeness` are symmetric,  `MinGroup` is at
least 2, `Remains` decreases, half a window is longer than an overlap and a tail, no stopword looks
like "classes". Some only keep model values apart: None is no document (`DocumentAssumption`), and
what stands for a lock not asked for or waited for is no id (`AnswerAssumption`).

| Module | Theorem | Establishes |
| --- | --- | --- |
| `MemoryStoreProofs` | `TypeCorrect` | `[]TypeOK` |
| | `ResolverIsSafe` | `[]ResolverNeverCollides`: the schema never refuses a statement of a Commit |
| | `HandoffIsGapless` | `[]GaplessHandoff` |
| | `SupersessionEnds` | `[]ChainsEnd` |
| | `OnlyStreamsConsolidated` | `[]OnlyEventsConsolidated` |
| | `HistoryKept` | `HistoryIsKept` |
| | `StoreKeepsPromise` | `KeepsPromise`: `MemoryStore` implements `BitemporalTable` |
| `ViewProofs` | `AllCited` | `[]EveryMemoryCited` |
| | `AuditExplains` | `[]AuditComplete` |
| | `DeletedStaysWithdrawn` | `DeletedIsWithdrawn`, of every step |
| | `AnswersAreSeamless` | `[]SeamlessAnswers` |
| | `TimelineIsWhole` | `[]TimelineTellsChanges` |
| | `GraphIsFaithful`, `GraphIsNotAhead` | `[]GraphTellsStates`, `[]NoEdgeWithoutRow`, of `GraphSpec` |
| `ConcurrentCommitProofs` | `OverlapTypeCorrect` | `[]TypeOK` |
| | `OverlapIsSound` | `[]OverlapLeavesSoundTable` |
| | `AnsweredStaysCurrent` | `[]ResolvesAgainstCurrent` |
| | `OverlapIsSerializable` | `Serializable`: `ConcurrentCommit` implements `SerialCommit` |
| `DecayProofs` | `DecayTypeCorrect`, `ArchivedMatchesFloor` | `[]TypeOK`, `[]ArchivedIsFaded` |
| `DeliveryProofs` | `DeliveryTypeCorrect`, `AckedWasDone`, `GivenUpWasSpent` | `[]TypeOK`, `[]AckedIsDone`, `[]GivenUpIsSpent` |
| `ExtractionProofs` | `ChunkTypeCorrect`, `StraddlerSeen`, `WindowsBounded` | `[]ChunkTypeOK`, `[]SpanSeenWhole`, `[]WindowsAdvance` |
| | `ExtractionTypeCorrect` | `[]TypeOK` |
| | `ClaimsAreDistinct` | `[]AcceptedAreDistinct` |
| | `ClaimsAreInOrder` | `[]InLockOrder` |
| | `NothingSaidIsLost` | `[]MergeKeepsWhatWasSaid` |
| | `OutageIsRetried` | `[]AllFailedIsRetried` |
| `TextProofs` | `FirstValueIsAnswered` | `[]FirstValueAnswered` |
| | `PhrasingsMeetInKeys` | `[]PhrasingsMeet` |
| | `GroupsAreFound` | `[]GroupFoundAgain` |

The theorems about the store are about `Spec` of `MemoryStore`; the run `store` checks the same
properties under `GraphSpec`, each of whose steps is one of `Spec`.

*The store* (`Inv`). None of the properties is inductive alone. That a
Commit never collides needs the table to be sound already (`Sound`: schema, gapless handoff,
well-founded chains) - and a rollback restores `saved`, so `saved.memories` must be sound as
well, and `memories` must extend it (`Extends`: nothing is lost or rewritten) for history
to be kept across a rollback. That only events are consolidated needs groups read long ago
to hold events still (`GroupsHoldEvents`), also of `saved`: in a sound table no other kind
has two open memories on a topic, and an id never changes its kind. `InvHolds` has one step
per action of `Next`; each theorem then follows from `Inv`. Well-foundedness is stated over
subsets (no non-empty set of memories is closed under having a successor in it), so that it
needs neither recursion nor finiteness. `MemoryRowsProofs` has the lemmas about single statements
on a table.

*The tables around it* (`TieInv`). Citations and audit hold of the tables of a
rollback too (`Tied`, of `saved` as of the present). What a claim writes cites the Commit's own
episode, and that belongs to the Commit's own document, since an episode is only ever saved by the open
Commit or by one that logged it.

*Deletions* (`OrphanInv`). An orphan is an open memory that rests on a deleted document alone.
Beginning a Commit takes its document off the deleted ones, so no statement of it makes an orphan:
the tables of an open Commit have none that a rollback would not restore. A deletion closes all it
would make. That leaves `Consolidate`, whose summary is the one new orphan there can be; it replaced
events, since only they are grouped.

*The refinement* (`PromiseInv`). `Inv` and `NothingReturns`: no purged id is in the table, nor in
the one a rollback restores, since ids are random and `Fresh` is what that means. The words of
`BitemporalTable` are shown to be those of `MemoryRows` (`SameWords`), then each action is a
`Grow`, a `Purge` or a stutter.

*The readers* (`ShownInv`). The timeline shows a decision because no decision is archived, now or
in `saved`; a sweep archives what it decided on long before, so its decision must still be right:
the id it holds is of a row of the same, archivable kind - history is kept - or is
purged for good. A decision is only ever replaced by a decision of its topic, at the instant that one
begins, so the map of a page has an entry for the successor whichever row is scanned last. What a search
answers of a memory and its successor follows from gapless handoff and the interval check.

*The graph* (`GraphInv`). The graph mirrors the tables (`Mirrors`), and `savedGraph` the tables a
rollback restores. That an edge tells nothing the tables do not needs to know where it leads: an
episode that is purged and arrives again would bring back the edges it had, so every edge is shown to lead
to an episode that is logged - and so never saved again - or is being written; purged
ids never return.

*Overlapping transactions* (`Inv` of `ConcurrentCommitProofs`). What matters of an open transaction
is the table it would leave if it committed now (`After`): it is sound and rewrites nothing
(`Mergeable`), every row it changes is locked by it and links within what it holds (`Holds`), what
`lockCurrent` answered it is locked and current (`Resolves`), a deletion only ends open rows
(`Deletes`). All of that is about the table of the moment, so each commit of another transaction has to
leave it true: that follows from two transactions being apart (`Apart`) - they
share no row, because of the row locks, and no key under which both have a current memory, because
an insert waits for the uncommitted entry of the index. A transaction that was
answered "none" holds no lock and may find the key taken by one that committed meanwhile:
`SchemaAccepts` is then false and it aborts.

*The refinement of `SerialCommit`* (`SerialInv`). Each transaction has a history (`IsHistory`): the
claims so far, the ids they drew and what it had written after each, such that every one is what
`SerialCommit` makes of the claim on the table *as it is now* with those rows over it. The
existential quantifier stays in the invariant; no history variable is needed. A step of the
transaction adds one entry; a step of another that commits rebases the whole history on the new table,
which is possible since it touched no row of this one and no key a claim of it was
resolved under (`KeyHeld`, `Apart`). At the end the history is the witness for `CommitEpisode`.

*Decay* (`PendingAgrees`). An update that has not been written agrees with itself: it archives
exactly when its salience is under the floor and the kind may be. A reinforcement lifts
the salience above the floor because the row it finds is not archived, thus above it already,
or exempt.

*Delivery* (`DeliveryInv`). A handler's answer is justified before it is sent, and stays so
whatever happens to the message meanwhile: an ack in the handler is of a message that is done, a
term of one whose deliveries are used up. Deliveries and the logs only grow, so what was justified
remains so (`StaysJustified`), on whichever replica and however late.

*Chunking* (`ChunkInv`). Every span that ends before the last window's end and is no longer than the
overlap is in some window already, the next window starts an overlap before that end, and a cut
leaves at least half a window, so windows advance.

*Extraction* (`ExtractionInv`). The invariant is about the calls: candidates are well-formed,
and `errs` is at most the number of calls that have ended, equal to it only while there is no
candidate at all. The rest is about `Merge` and `VerifyAll`, which compute the
claims at once from whatever was answered: each loop is proved by an invariant of its own
(`dedupe` keeps a twin of all it has seen and every name it gave a value, grafting keeps both, and neither
adds a value that nobody told of the key (`Told`; the broad pass tells none, `Unspecific`); sorting keeps the
elements and orders them, what the verifier has accepted is pairwise distinct and sorted as what it was
given).

*Loops and induction.* An induction theorem over an operator cannot be used with the provers at
hand, but its set version can be stated and proved once without one: `CountsUp` (a set of numbers
that has 0 and the successor of each of its members up to n has them all), from the least element of
a set of numbers (`LeastElement`). `FoldHasValues` and `FoldCountsUp` make of it that a `FoldLeft`
is the last of a sequence of values, each made of the one before, which is what the proofs about
`Extraction` and `Reader` use.

*The scanner* (`ScanInv`). The scanner counts one kind of bracket, the reference keeps a
stack of both. For as long as everything read pairs, `depth` is the number of brackets of the
scanner's kind on that stack (`Weighs`, which counts from the bottom and asks that the bottom one is
of this kind), so it is zero exactly when the stack is empty. Once something does not pair nothing
is claimed, and nothing ever pairs again (`OkBefore`).

*Topic keys* (`TopicInv`). The invariant only says what was computed from what; the rest is about
`NormalizeTopic`. The order of words is transitive and connected (`BeforeTransitive`,
`BeforeConnects`), so every finite set of words can be sorted (`Sortable`) and the sorted
sequence depends on the set alone: the same words make the same key. `singularize` and joining
keep stems (`SingularFacts`, `FlattenFacts`), so equal keys have equal stems (`KeyStems`). A key
ends as its last word does: if normalizing changes the key, that word ends in a plural that was
not cut, thus it is short (a digit would have been in the key too) or a stopword that was all there was
(`KeyThatMoves`). The proof uses that no stopword ends in "ches", "shes", "sses" or "ies", which
`TopicAssumption` states and the list in `topic.go` bears out.

*Model-checked only.* Liveness is out of the prover's reach: `EveryTransactionEnds`,
`EveryMessageSettles`, `CalmDelivers`, `ColdIsArchived` and `ProcessEnds`.

## Not modelled

Prompts, the lexical heuristics themselves, people (subjects, MENTIONS, expertise scores and
`Experts`), ACL groups, ranking and paging, HTTP parsing and rendering, configuration, and the
prototype (`src/prototype`). `Validate`'s fields are one outcome (`invalid`). `Stats` and
`History` are single SELECTs without a decision of their own.

## Plan

1. `MemoryRows`, `MemoryStore` and their theorems; `ConcurrentCommit` against `SerialCommit`;
   `Delivery`; `Extraction`. (Done.)
2. `Decay`, `GraphStore`, `ReadPath`, the abstract `BitemporalTable`, `Chunking`, `JSONScan`,
   `TopicKey`, and the theorems about them, about citations and about `Delivery`. (Done.)
3. Composition: `Delivery` with the tables of `ConcurrentCommit`, so that redelivery meets
   locks and deletions meet late upserts; consolidation and decay as transactions of
   `ConcurrentCommit`.
4. Theorems about `GraphStore`, `ConcurrentCommit` and its refinement, `Extraction`,
   `JSONScan` and `TopicKey`. (Done.)
5. People: EXPERT_IN scores and `memory_expertise` side by side under overlapping deliveries.
