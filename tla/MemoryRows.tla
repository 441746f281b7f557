------------------------------ MODULE MemoryRows ------------------------------
(***************************************************************************)
(* The rows of the `memories` table and the questions the store asks of    *)
(* them: which row is current, when a claim restates it, what the schema   *)
(* of migrations/0001_memory.sql accepts.  No state: the modules of the    *)
(* store (MemoryStore, ConcurrentCommit) share these definitions.          *)
(*                                                                         *)
(* One tenant is modelled: every statement of the store filters on         *)
(* tenant_id, so tenants never meet.                                       *)
(***************************************************************************)
EXTENDS Integers, FiniteSets, Sequences

CONSTANTS
    MemoryId,       \* primary keys (random UUIDs) a row can be given
    Topic,          \* normalized topics
    Statement,      \* statement texts
    Similar,        \* pairs of statements with StatementSimilarity >= 0.8
    AttrValue,      \* values of the one attribute modelled (the price of "$40/seat")
    Time,           \* instants of world time
    None            \* SQL NULL, and an absent attribute

ASSUME TimeAssumption == Time \subseteq Nat
ASSUME NoneAssumption == None \notin Nat \cup MemoryId \cup AttrValue
ASSUME SimilarAssumption ==
    /\ Similar \subseteq Statement \X Statement
    /\ \A s, t \in Statement : <<s, t>> \in Similar => <<t, s>> \in Similar

Kind == {"fact", "event", "instruction", "task", "decision"}

\* Events are a stream, not a state: they never take the supersession path.
Supersedes(kind) == kind # "event"

\* Mutant: no kind is exempt.
ArchivableAll(kind) == TRUE

\* Decay archives neither decisions nor instructions.
Archivable(kind) == kind \notin {"decision", "instruction"}

TaskStatus == {"open", "done", "dropped"}

\* What a verified proposal asserts, its evidence left out.
Claim == [kind : Kind, topic : Topic, statement : Statement,
          attr : AttrValue \cup {None}, status : TaskStatus \cup {None}]

Row == [kind : Kind, topic : Topic, statement : Statement,
        attr : AttrValue \cup {None}, status : TaskStatus \cup {None},
        from : Time, to : Time \cup {None}, by : MemoryId \cup {None},
        seen : Time, archived : BOOLEAN]

\* A table maps the ids of its rows to them.
IsTable(table) == /\ DOMAIN table \subseteq MemoryId
                  /\ table \in [DOMAIN table -> Row]

IsCurrent(row) == row.to = None /\ ~row.archived

SameKey(a, b) == a.kind = b.kind /\ a.topic = b.topic

\* The rows lockCurrent selects for a claim.
CurrentFor(table, claim) ==
    {i \in DOMAIN table : IsCurrent(table[i]) /\ SameKey(table[i], claim)}

\* The row a claim that occurred at time t is inserted as.
NewRow(claim, t, to, by) ==
    [kind |-> claim.kind, topic |-> claim.topic, statement |-> claim.statement,
     attr |-> claim.attr, status |-> claim.status,
     from |-> t, to |-> to, by |-> by, seen |-> t, archived |-> FALSE]

Insert(table, id, row) ==
    [i \in DOMAIN table \cup {id} |-> IF i = id THEN row ELSE table[i]]

\* The UPDATEs that set valid_to and superseded_by of several rows.
Closed(table, ids, at) ==
    [i \in DOMAIN table |-> IF i \in ids THEN [table[i] EXCEPT !.to = at] ELSE table[i]]

Replaced(table, ids, by) ==
    [i \in DOMAIN table |-> IF i \in ids THEN [table[i] EXCEPT !.by = by] ELSE table[i]]

\* Mutant: superseded_by without ON DELETE SET NULL.
Dangling(x, gone) == x

\* The DELETE, and the ON DELETE SET NULL of what pointed to a deleted row.
Unlinked(x, gone) == IF x \in gone THEN None ELSE x

Without(table, gone) ==
    [i \in DOMAIN table \ gone |-> [table[i] EXCEPT !.by = Unlinked(@, gone)]]

Later(s, t) == IF s < t THEN t ELSE s

\* Corroboration or conflict: the most consequential predicate of the store.
isRestatement(row, claim) ==
    /\ row.attr # None /\ claim.attr # None => row.attr = claim.attr
    /\ claim.kind = "task" => row.status = claim.status
    /\ <<row.statement, claim.statement>> \in Similar

\* What reinforce makes of the current row: it keeps its text and validity, gains
\* the attribute it lacked and is seen again.
Reinforced(row, claim, t) ==
    [row EXCEPT !.attr = IF row.attr = None THEN claim.attr ELSE row.attr,
                !.seen = Later(row.seen, t),
                !.archived = FALSE]

-----------------------------------------------------------------------------
(* The constraints the schema puts on the table: a statement whose result  *)
(* breaks one fails, and its transaction with it.                          *)

memories_interval_ck(table) ==
    \A i \in DOMAIN table : table[i].to # None => table[i].from <= table[i].to

memories_supersede_ck(table) ==
    \A i \in DOMAIN table : table[i].by # None => table[i].to # None

memories_current_topic_uidx(table) ==
    \A i, j \in DOMAIN table :
        /\ IsCurrent(table[i]) /\ IsCurrent(table[j])
        /\ SameKey(table[i], table[j]) /\ Supersedes(table[i].kind)
        => i = j

\* REFERENCES memories(id): a forward link never dangles.
superseded_by_fk(table) ==
    \A i \in DOMAIN table : table[i].by # None => table[i].by \in DOMAIN table

SchemaAccepts(table) ==
    /\ memories_interval_ck(table)
    /\ memories_supersede_ck(table)
    /\ memories_current_topic_uidx(table)
    /\ superseded_by_fk(table)

-----------------------------------------------------------------------------
(* What a table must be beyond what the schema can say. *)

\* A memory ends where the memory that replaced it starts, and that one concerns the
\* same key.
Gapless(table) ==
    \A i \in DOMAIN table :
        table[i].by # None /\ Supersedes(table[i].kind) =>
            /\ SameKey(table[table[i].by], table[i])
            /\ table[table[i].by].from = table[i].to

\* No memories replace one another in a circle.
Wellfounded(table) ==
    \A S \in SUBSET DOMAIN table :
        S # {} => \E i \in S : table[i].by \notin S

\* What a row keeps for ever: what it says, when it began and, once closed, when it ended.
SameMemory(old, new) ==
    /\ SameKey(old, new)
    /\ new.statement = old.statement
    /\ new.from = old.from
    /\ old.to # None => new.to = old.to

\* Nothing of the old table is lost or rewritten in the new one.
Extends(old, new) ==
    \A i \in DOMAIN old : i \in DOMAIN new /\ SameMemory(old[i], new[i])

-----------------------------------------------------------------------------
(* Reading the table. *)

\* The rows Search answers with for a topic key at an instant: archived rows are
\* left out unless IncludeArchived is set, which no handler of the API does.
AsOf(table, kind, topic, t) ==
    {i \in DOMAIN table :
        /\ table[i].kind = kind /\ table[i].topic = topic
        /\ ~table[i].archived
        /\ table[i].from <= t
        /\ table[i].to = None \/ t < table[i].to}
=============================================================================
