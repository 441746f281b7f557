------------------------------ MODULE MemoryStore ------------------------------
(***************************************************************************)
(* The bi-temporal store (internal/store) and the maintenance that runs on *)
(* it (internal/jobs), with transactions that do not overlap: one Commit   *)
(* at a time, statement group by statement group, able to fail anywhere;   *)
(* InvalidateByDocument and Consolidate each as the single transaction     *)
(* they are; the decay sweep as the separate auto-committed UPDATEs it is. *)
(* What overlapping Commits do is the subject of ConcurrentCommit.         *)
(*                                                                         *)
(* While a Commit runs, the tables hold its uncommitted writes and `saved` *)
(* holds what everybody else reads; a rollback restores it.                *)
(***************************************************************************)
EXTENDS MemoryRows

CONSTANTS
    Episode,        \* episodes, each the content hash it is keyed by
    Document,       \* source documents
    Upsert,         \* the content events that can arrive: which content, of which
                    \* document, stating what was so at which time
    Deletion,       \* the deletions that can arrive: of which document, at which time
    Extraction,     \* the sequences of claims a verified extraction can yield
    Replica,        \* replicas of the service; each runs its own maintenance jobs
    MinGroup,       \* ConsolidationMinGroup
    PurgeOnDelete   \* the values PURGE_ON_DELETE has, from one start of a replica to the next

ASSUME EventAssumption ==
    /\ Upsert \subseteq [episode : Episode, document : Document, occurred : Time]
    /\ Deletion \subseteq [document : Document, occurred : Time]
ASSUME ExtractionAssumption == Extraction \subseteq Seq(Claim)
ASSUME NoneIsNoInput == None \notin Upsert \cup Document
ASSUME MinGroupAssumption == MinGroup \in Nat /\ MinGroup >= 2
ASSUME PurgeAssumption == PurgeOnDelete \subseteq BOOLEAN

VARIABLES
    memories,       \* the table of memories
    provenance,     \* pairs <<memory, episode>>
    invalidations,  \* the audit of invalidations
    episodes,       \* the document each saved episode was saved for
    ingested,       \* the ingest log
    purged,         \* ids whose row was deleted (a UUID is not drawn twice)
    writer,         \* the event whose Commit is open
    todo,           \* the proposals it has yet to resolve
    saved,          \* the committed tables while a Commit is open
    collided,       \* whether the schema has ever refused a write of a Commit
    sweep,          \* per replica, the updates its decay scan decided and has not made
    group,          \* per replica, the consolidation group it has read
    counted,        \* per replica, the keys found crowded whose memories it has yet to read
    deleted         \* documents the source has deleted (not a table: what the
                    \* properties compare the tables with)

tables == <<memories, provenance, invalidations, episodes>>
commitVars == <<writer, todo, saved, collided>>
jobVars == <<sweep, group, counted>>
vars == <<tables, ingested, purged, commitVars, jobVars, deleted>>

Invalidation == [memory : MemoryId, by : MemoryId \cup {None}, at : Time]
Update == [id : MemoryId, archive : BOOLEAN]
Group == [ids : SUBSET MemoryId, kind : Kind, topic : Topic, from : Time, asOf : Time]

\* Mutant: the key of a deleted row is given again.
FreshAgain == MemoryId \ DOMAIN memories

\* Ids a row can still be given.
Fresh == MemoryId \ (DOMAIN memories \cup purged)

Idle == writer = None

Init ==
    /\ memories = [i \in {} |-> None]
    /\ provenance = {}
    /\ invalidations = {}
    /\ episodes = [e \in Episode |-> None]
    /\ ingested = {}
    /\ purged = {}
    /\ writer = None
    /\ todo = <<>>
    /\ saved = None
    /\ collided = FALSE
    /\ sweep = [r \in Replica |-> {}]
    /\ group = [r \in Replica |-> None]
    /\ counted = [r \in Replica |-> {}]
    /\ deleted = {}

-----------------------------------------------------------------------------
(* Commit: one episode's verified claims, in one transaction. *)

\* Process found the content absent from the ingest log, the model and the verifier
\* made claims of it; Begin, and SaveEpisode, which keeps the document an episode was
\* first saved for.  The log is asked minutes before Begin; what may happen in between,
\* the same content committed by another delivery, is ConcurrentCommit's.
BeginCommit(u, claims) ==
    /\ Idle
    /\ u.episode \notin ingested
    /\ writer' = u
    /\ todo' = claims
    /\ saved' = [memories |-> memories, provenance |-> provenance,
                 invalidations |-> invalidations, episodes |-> episodes]
    /\ episodes' = [episodes EXCEPT ![u.episode] = IF @ = None THEN u.document ELSE @]
    /\ deleted' = deleted \ {u.document}
    /\ UNCHANGED <<memories, provenance, invalidations, ingested, purged, collided, jobVars>>

\* The deferred Rollback: everything the Commit wrote is undone.
Rollback ==
    /\ memories' = saved.memories
    /\ provenance' = saved.provenance
    /\ invalidations' = saved.invalidations
    /\ episodes' = saved.episodes
    /\ writer' = None
    /\ todo' = <<>>
    /\ saved' = None
    /\ UNCHANGED <<ingested, purged, jobVars, deleted>>

\* The database becomes unreachable, the context is cancelled or the process dies.
AbortCommit == ~Idle /\ Rollback /\ UNCHANGED collided

\* The statements of one commitOne, `written` the tables they leave behind one after
\* the other and `result` the last of them: the schema judges each.
Write(written, result, links, records) ==
    IF \A table \in written : SchemaAccepts(table)
    THEN /\ memories' = result
         /\ provenance' = provenance \cup links
         /\ invalidations' = invalidations \cup records
         /\ todo' = Tail(todo)
         /\ UNCHANGED <<episodes, ingested, purged, writer, saved, collided, jobVars, deleted>>
    ELSE collided' = TRUE /\ Rollback

Pending == ~Idle /\ todo # <<>>

\* Mutant: the two ids swapped.
recordSwapped(memory, by, at) == [memory |-> by, by |-> memory, at |-> at]

recordInvalidation(memory, by, at) == [memory |-> memory, by |-> by, at |-> at]

\* An event, or a topic with no current memory.
Create(id) ==
    LET claim == Head(todo)
        created == Insert(memories, id, NewRow(claim, writer.occurred, None, None))
    IN  /\ Pending
        /\ Supersedes(claim.kind) => CurrentFor(memories, claim) = {}
        /\ Write({created}, created, {<<id, writer.episode>>}, {})

Reinforce(current) ==
    LET claim == Head(todo)
        again == [memories EXCEPT ![current] = Reinforced(@, claim, writer.occurred)]
    IN  /\ Pending
        /\ Supersedes(claim.kind) /\ current \in CurrentFor(memories, claim)
        /\ isRestatement(memories[current], claim)
        /\ Write({again}, again, {<<current, writer.episode>>}, {})

\* Mutant: closed where it starts, not where the current memory took over.
HistoricalEmpty(claim, current) == NewRow(claim, writer.occurred, writer.occurred, current)

Historical(claim, current) ==
    NewRow(claim, writer.occurred, memories[current].from, current)

\* Mutant: whatever disagrees supersedes, as if episodes came in the order of what they tell.
NeverEarlier(current) == FALSE

\* The episode tells of a time before the current memory took over.
Earlier(current) == writer.occurred < memories[current].from

\* An older world state than the current one: filed closed, at the instant the
\* current memory took over.
Backfill(id, current) ==
    LET claim == Head(todo)
        taken == memories[current].from
        filed == Insert(memories, id, Historical(claim, current))
    IN  /\ Pending
        /\ Supersedes(claim.kind) /\ current \in CurrentFor(memories, claim)
        /\ ~isRestatement(memories[current], claim)
        /\ Earlier(current)
        /\ Write({filed}, filed, {<<id, writer.episode>>},
                 {recordInvalidation(id, current, taken)})

\* Mutant: the closed memory linked to itself, not to its successor.
LinkedToItself(table, current, id) == [table EXCEPT ![current].by = current]

Linked(table, current, id) == [table EXCEPT ![current].by = id]

\* The ordinary conflict: close the current memory, insert the new one, link them.
Supersede(id, current) ==
    LET claim == Head(todo)
        at == writer.occurred
        closed == [memories EXCEPT ![current].to = at]
        inserted == Insert(closed, id, NewRow(claim, at, None, None))
        linked == Linked(inserted, current, id)
    IN  /\ Pending
        /\ Supersedes(claim.kind) /\ current \in CurrentFor(memories, claim)
        /\ ~isRestatement(memories[current], claim)
        /\ ~Earlier(current)
        /\ Write({closed, inserted, linked}, linked, {<<id, writer.episode>>},
                 {recordInvalidation(current, id, at)})

\* The ingest log is written last, inside the same transaction.
FinishCommit ==
    /\ ~Idle /\ todo = <<>>
    /\ ingested' = ingested \cup {writer.episode}
    /\ writer' = None
    /\ saved' = None
    /\ UNCHANGED <<tables, purged, todo, collided, jobVars, deleted>>

-----------------------------------------------------------------------------
(* InvalidateByDocument: the source deleted a document. *)

DerivedFrom(document) ==
    {i \in DOMAIN memories :
        \E e \in Episode : <<i, e>> \in provenance /\ episodes[e] = document}

\* Mutant: closes the rows lockCurrent would find, and no archived one.
ClosingCurrent(document) ==
    {i \in DerivedFrom(document) :
        /\ IsCurrent(memories[i])
        /\ \A e \in Episode : <<i, e>> \in provenance => episodes[e] = document}

\* The open memories nothing but this document supports.
Closing(document) ==
    {i \in DerivedFrom(document) :
        /\ memories[i].to = None
        /\ \A e \in Episode : <<i, e>> \in provenance => episodes[e] = document}

\* Without purge: close what nothing but this document supports, and record an
\* invalidation of everything it supports.
CloseDerived(document, at) ==
    LET derived == DerivedFrom(document)
        closed == Closed(memories, Closing(document), at)
    IN  /\ FALSE \in PurgeOnDelete
        /\ SchemaAccepts(closed)
        /\ memories' = closed
        /\ invalidations' = invalidations
             \cup {recordInvalidation(i, None, at) : i \in derived}
        /\ UNCHANGED <<provenance, episodes, purged>>

\* Mutant: superseded_by of the audit declared ON DELETE CASCADE.
AuditCascaded(gone) == {v \in invalidations : {v.memory, v.by} \cap gone = {}}

AuditAfterPurge(gone) ==
    {[v EXCEPT !.by = Unlinked(@, gone)] : v \in {w \in invalidations : w.memory \notin gone}}

\* Mutant: only open memories are looked for.
GoneIfOpen(document) == {i \in DerivedFrom(document) : memories[i].to = None}

Gone(document) == DerivedFrom(document)

\* With purge: delete the rows and the episodes (nothing, the episodes included, when
\* no memory derives from the document: the early return).  Rows that pointed to a deleted one
\* lose the link (ON DELETE SET NULL), what belonged to it goes with it (CASCADE).
PurgeDerived(document) ==
    LET gone == Gone(document)
    IN  /\ TRUE \in PurgeOnDelete
        /\ memories' = Without(memories, gone)
        /\ episodes' = [e \in Episode |->
                          IF gone # {} /\ episodes[e] = document THEN None ELSE episodes[e]]
        /\ provenance' = {p \in provenance :
                            p[1] \notin gone /\ episodes'[p[2]] # None}
        /\ invalidations' = AuditAfterPurge(gone)
        /\ purged' = purged \cup gone

InvalidateByDocument(d) ==
    /\ Idle
    /\ deleted' = deleted \cup {d.document}
    /\ CloseDerived(d.document, d.occurred) \/ PurgeDerived(d.document)
    /\ UNCHANGED <<ingested, commitVars, jobVars>>

-----------------------------------------------------------------------------
(* Decay.  Salience itself is the subject of module Decay: here the scan   *)
(* may find any archivable row below the floor, and may find any row       *)
(* unchanged and skip it.                                                  *)

DecayScan(r) ==
    /\ Idle
    /\ sweep[r] = {}
    /\ \E decayed \in SUBSET {i \in DOMAIN memories : IsCurrent(memories[i])} :
       \E faded \in SUBSET {i \in decayed : Archivable(memories[i].kind)} :
          sweep' = [sweep EXCEPT ![r] = {[id |-> i, archive |-> i \in faded] : i \in decayed}]
    /\ UNCHANGED <<tables, ingested, purged, commitVars, group, counted, deleted>>

\* One UPDATE of the sweep, unconditional on what became of the row since the scan.
\* A row that is gone is not an error; a refused UPDATE ends the sweep.
DecayUpdate(r, u) ==
    LET written == IF u.id \in DOMAIN memories
                   THEN [memories EXCEPT ![u.id].archived = u.archive]
                   ELSE memories
    IN  /\ Idle
        /\ u \in sweep[r]
        /\ IF SchemaAccepts(written)
           THEN /\ memories' = written
                /\ sweep' = [sweep EXCEPT ![r] = @ \ {u}]
           ELSE /\ sweep' = [sweep EXCEPT ![r] = {}]
                /\ UNCHANGED memories
        /\ UNCHANGED <<provenance, invalidations, episodes, ingested, purged,
                       commitVars, group, counted, deleted>>

\* The sweep ends early: an UPDATE fails, or the replica stops.
DecayStops(r) ==
    /\ sweep[r] # {}
    /\ sweep' = [sweep EXCEPT ![r] = {}]
    /\ UNCHANGED <<tables, ingested, purged, commitVars, group, counted, deleted>>

-----------------------------------------------------------------------------
(* Consolidation: the crowded keys are counted, the memories of each are   *)
(* read, the model writes a summary, and only then is the group replaced:  *)
(* anything may have happened in between.  Groups of different keys share  *)
(* no rows, so a replica is shown holding one of them at a time.           *)

\* The rows counted for a topic key.
OpenOf(kind, topic) ==
    {i \in DOMAIN memories :
        IsCurrent(memories[i]) /\ memories[i].kind = kind /\ memories[i].topic = topic}

\* Mutant: HAVING and the bound of the loop off by one.
EnoughForLess(ids) == Cardinality(ids) >= MinGroup - 1

Enough(ids) == Cardinality(ids) >= MinGroup

\* The first query of FindConsolidationGroups: the keys that carry enough open rows.
CountGroups(r) ==
    /\ Idle
    /\ group[r] = None
    /\ counted[r] = {}
    /\ counted' = [counted EXCEPT ![r] =
                     {key \in Kind \X Topic : Enough(OpenOf(key[1], key[2]))}]
    /\ UNCHANGED <<tables, ingested, purged, commitVars, sweep, group, deleted>>

\* The Search of one counted key: too few of its memories hold by now, and it is skipped.
SkipGroup(r, kind, topic, now) ==
    /\ ~Enough(AsOf(memories, kind, topic, now))
    /\ UNCHANGED group

\* The Search of one counted key: what it answers is the group.
ReadGroup(r, kind, topic, now) ==
    LET ids == AsOf(memories, kind, topic, now)
    IN  /\ Enough(ids)
        /\ \E first \in ids :
             /\ \A i \in ids : memories[first].from <= memories[i].from
             /\ group' = [group EXCEPT ![r] =
                            [ids |-> ids, kind |-> kind, topic |-> topic,
                             from |-> memories[first].from, asOf |-> now]]

FindConsolidationGroup(r, kind, topic, now) ==
    /\ Idle
    /\ group[r] = None
    /\ <<kind, topic>> \in counted[r]
    /\ counted' = [counted EXCEPT ![r] = @ \ {<<kind, topic>>}]
    /\ SkipGroup(r, kind, topic, now) \/ ReadGroup(r, kind, topic, now)
    /\ UNCHANGED <<tables, ingested, purged, commitVars, sweep, deleted>>

\* The row of a summary: the earliest start of its inputs, no task status.
SummaryRow(g, statement, now) ==
    [kind |-> g.kind, topic |-> g.topic, statement |-> statement,
     attr |-> None, status |-> None, from |-> g.from, to |-> None,
     by |-> None, seen |-> now, archived |-> FALSE]

\* Mutant: closes what is closed already.
RetiredAgain(ids, now) ==
    Closed(memories, ids, now)

Retired(ids, now) ==
    Closed(memories, {i \in ids \cap DOMAIN memories : memories[i].to = None}, now)

\* Mutant: nothing is inherited.
InheritedNothing(ids, id) == {}

\* The summary cites everything its inputs cite.
Inherited(ids, id) ==
    {<<id, e>> : e \in {f \in Episode : \E i \in ids : <<i, f>> \in provenance}}

Consolidate(r, id, statement, now) ==
    LET g == group[r]
        closed == Retired(g.ids, now)
        inserted == Insert(closed, id, SummaryRow(g, statement, now))
        linked == Replaced(inserted, g.ids, id)
    IN  /\ Idle
        /\ g # None
        /\ now >= g.asOf
        /\ g.ids \subseteq DOMAIN memories      \* the audit's foreign key
        /\ \A table \in {closed, inserted, linked} : SchemaAccepts(table)
        /\ memories' = linked
        /\ provenance' = provenance \cup Inherited(g.ids, id)
        /\ invalidations' = invalidations
             \cup {recordInvalidation(i, id, now) : i \in g.ids}
        /\ group' = [group EXCEPT ![r] = None]
        /\ UNCHANGED <<episodes, ingested, purged, commitVars, sweep, counted, deleted>>

\* The model fails, the group shares no ACL group, or the database refuses: the next
\* group's turn.  Or the run ends early, at a failed query or because the replica stops.
ConsolidationFails(r) ==
    /\ \/ group[r] # None /\ UNCHANGED counted
       \/ counted[r] # {} /\ counted' = [counted EXCEPT ![r] = {}]
    /\ group' = [group EXCEPT ![r] = None]
    /\ UNCHANGED <<tables, ingested, purged, commitVars, sweep, deleted>>

-----------------------------------------------------------------------------
CommitStep ==
    \/ \E u \in Upsert, claims \in Extraction : BeginCommit(u, claims)
    \/ \E id \in Fresh : Create(id)
    \/ \E current \in DOMAIN memories : Reinforce(current)
    \/ \E id \in Fresh, current \in DOMAIN memories : Backfill(id, current)
    \/ \E id \in Fresh, current \in DOMAIN memories : Supersede(id, current)
    \/ FinishCommit
    \/ AbortCommit

MaintenanceStep ==
    \E r \in Replica :
        \/ DecayScan(r)
        \/ \E u \in sweep[r] : DecayUpdate(r, u)
        \/ DecayStops(r)
        \/ CountGroups(r)
        \/ \E kind \in Kind, topic \in Topic, now \in Time :
              FindConsolidationGroup(r, kind, topic, now)
        \/ \E id \in Fresh, statement \in Statement, now \in Time :
              Consolidate(r, id, statement, now)
        \/ ConsolidationFails(r)

Next ==
    \/ CommitStep
    \/ \E d \in Deletion : InvalidateByDocument(d)
    \/ MaintenanceStep

Spec == Init /\ [][Next]_vars

-----------------------------------------------------------------------------
(* Properties. *)

\* The tables hold what their columns can hold, whichever statement ran last.
TypeOK ==
    /\ IsTable(memories)
    /\ provenance \subseteq MemoryId \X Episode
    /\ invalidations \subseteq Invalidation
    /\ episodes \in [Episode -> Document \cup {None}]
    /\ ingested \subseteq Episode
    /\ purged \subseteq MemoryId
    /\ writer \in Upsert \cup {None}
    /\ todo \in Seq(Claim)
    /\ IF Idle THEN saved = None
       ELSE /\ IsTable(saved.memories)
            /\ saved.provenance \subseteq MemoryId \X Episode
            /\ saved.invalidations \subseteq Invalidation
            /\ saved.episodes \in [Episode -> Document \cup {None}]
    /\ collided \in BOOLEAN
    /\ sweep \in [Replica -> SUBSET Update]
    /\ group \in [Replica -> Group \cup {None}]
    /\ counted \in [Replica -> SUBSET (Kind \X Topic)]
    /\ deleted \subseteq Document

\* The conflict resolver keeps the one-current-memory index, the interval check and
\* the supersession check satisfiable on its own: no statement of a Commit is ever
\* refused, whatever deletes, sweeps and consolidations happened before it.
ResolverNeverCollides == ~collided

\* Supersession leaves neither gap nor overlap: what a memory was replaced by concerns
\* the same key and starts at the instant the memory ends, backfills included.
GaplessHandoff == Gapless(memories)

\* Following superseded_by always ends: no set of memories replaces one another in a
\* circle (otherwise the history of a topic would have no newest memory).
ChainsEnd == Wellfounded(memories)

\* Every memory can be cited: it has an episode, and the episode is still there, after
\* purges and consolidations too.
EveryMemoryCited ==
    \A i \in DOMAIN memories :
        \E e \in Episode : <<i, e>> \in provenance /\ episodes[e] # None

\* The audit explains every closed memory: when it ended, and what it was linked to.
AuditComplete ==
    \A i \in DOMAIN memories :
        /\ memories[i].to # None =>
              \E v \in invalidations : v.memory = i /\ v.at = memories[i].to
        /\ memories[i].by # None =>
              \E v \in invalidations : v.memory = i /\ v.by = memories[i].by

\* Consolidation only ever replaces events: no other kind accumulates enough current
\* memories on one topic to form a group, even in what a replica read long ago.
OnlyEventsConsolidated ==
    \A r \in Replica :
        group[r] # None =>
            /\ group[r].kind = "event"
            /\ \A i \in group[r].ids \cap DOMAIN memories : memories[i].kind = "event"

\* What everybody but the open Commit reads.
Committed == IF Idle THEN memories ELSE saved.memories

\* The open memories that rest on nothing but one document the source has deleted.
Orphans(table, links, saves) ==
    {i \in DOMAIN table :
        /\ table[i].to = None
        /\ \E d \in deleted : \A e \in Episode : <<i, e>> \in links => saves[e] = d}

CommittedOrphans ==
    IF Idle THEN Orphans(memories, provenance, episodes)
            ELSE Orphans(saved.memories, saved.provenance, saved.episodes)

\* After a document's deletion (and until the document comes back) no memory of any kind
\* comes to rest on it alone and stay open, whatever is committed, swept or rolled back,
\* but the summary just made of a group that had been read before the deletion.
DeletedIsWithdrawn ==
    [][\A i \in CommittedOrphans' :
         \/ i \in CommittedOrphans
         \/ /\ i \notin DOMAIN Committed
            /\ \E j \in DOMAIN Committed' :
                 Committed'[j].by = i /\ Committed'[j].kind = "event"]_vars

\* What InvalidateByDocument says of itself, that it "closes off every memory derived from a
\* document": while the document stays deleted, no open memory rests on it alone.
ClosesOffEveryMemory == CommittedOrphans = {}

\* History is never rewritten: a committed memory keeps what it says and when it began,
\* a closed one also when it ended, and only a purge removes a row.
HistoryIsKept ==
    [][\A i \in DOMAIN Committed :
         \/ i \in DOMAIN Committed' /\ SameMemory(Committed[i], Committed'[i])
         \/ i \notin DOMAIN Committed' /\ i \in purged']_vars

\* The store implements BitemporalTable: the table a reader finds is a sound one at every
\* instant, and changes in no other way, whatever is written, rolled back or purged.
Promise == INSTANCE BitemporalTable WITH table <- Committed, gone <- purged
KeepsPromise == Promise!Spec

=============================================================================
