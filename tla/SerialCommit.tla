----------------------------- MODULE SerialCommit -----------------------------
(***************************************************************************)
(* What Commit promises whoever reads the tables: an episode's claims are  *)
(* resolved all together or not at all, each against what the one before   *)
(* it left, as if no other Commit ran ("Everything lands in a single       *)
(* transaction").  ConcurrentCommit implements this specification.         *)
(***************************************************************************)
EXTENDS MemoryRows

\* What ConcurrentCommit assumes of them: Upsert and Deletion are sets of records (episode,
\* document, occurred; document, occurred), an Extraction is a sequence of claims.
CONSTANTS
    Episode,        \* episodes, each the content hash it is keyed by
    Document,       \* source documents
    Upsert,         \* the content events that can arrive
    Deletion,       \* the deletions that can arrive
    Extraction      \* the sequences of claims a verified extraction can yield

VARIABLES
    memories,       \* the table of memories
    provenance,     \* pairs <<memory, episode>>
    episodes,       \* the document each saved episode was saved for
    ingested        \* the ingest log

serialVars == <<memories, provenance, episodes, ingested>>

\* Which of commitOne's branches a claim takes against the current memory.
Created(table, claim) == Supersedes(claim.kind) => CurrentFor(table, claim) = {}

Current(table, claim) == CHOOSE i \in CurrentFor(table, claim) : TRUE

Reinforces(table, claim) ==
    ~Created(table, claim) /\ isRestatement(table[Current(table, claim)], claim)

\* The table one claim that occurred at t leaves behind, `id` drawn for a new row.
Resolved(table, claim, t, id) ==
    LET current == Current(table, claim)
        taken == table[current].from
    IN  CASE Created(table, claim) -> Insert(table, id, NewRow(claim, t, None, None))
          [] Reinforces(table, claim) ->
                [table EXCEPT ![current] = Reinforced(@, claim, t)]
          [] OTHER ->
                IF t < taken
                THEN Insert(table, id, NewRow(claim, t, taken, current))
                ELSE Insert([table EXCEPT ![current].to = t, ![current].by = id],
                            id, NewRow(claim, t, None, None))

\* The row that gains the episode as provenance.
Supported(table, claim, id) ==
    IF Reinforces(table, claim) THEN Current(table, claim) ELSE id

Fresh == MemoryId \ DOMAIN memories

\* The ids n claims draw for new rows, None for a claim that inserts none.
DrawnIds(n) ==
    {ids \in [1..n -> Fresh \cup {None}] :
        \A j, k \in 1..n : ids[j] = ids[k] => j = k \/ ids[j] = None}

\* The tables that claims leave behind, one after the other.
Resolutions(claims, t, ids) ==
    LET table[n \in 0..Len(claims)] ==
            IF n = 0 THEN memories
            ELSE Resolved(table[n - 1], claims[n], t, ids[n])
    IN  table

Init ==
    /\ memories = [i \in {} |-> None]
    /\ provenance = {}
    /\ episodes = [e \in Episode |-> None]
    /\ ingested = {}

\* One episode, claim after claim, in one step.
CommitEpisode(u, claims) ==
    /\ ingested' = ingested \cup {u.episode}
    /\ episodes' = [episodes EXCEPT ![u.episode] = IF @ = None THEN u.document ELSE @]
    /\ \E ids \in DrawnIds(Len(claims)) :
         LET table == Resolutions(claims, u.occurred, ids)
         IN  /\ \A n \in DOMAIN claims : ids[n] = None <=> Reinforces(table[n - 1], claims[n])
             /\ memories' = table[Len(claims)]
             /\ provenance' = provenance \cup
                   {<<Supported(table[n - 1], claims[n], ids[n]), u.episode>> :
                      n \in DOMAIN claims}

\* A deletion closes open memories that rest on the document, and changes nothing else.
Withdraw(d) ==
    /\ \E closed \in SUBSET {i \in DOMAIN memories :
                               /\ memories[i].to = None
                               /\ \E e \in Episode : <<i, e>> \in provenance
                                                     /\ episodes[e] = d.document} :
          memories' = Closed(memories, closed, d.occurred)
    /\ UNCHANGED <<provenance, episodes, ingested>>

\* Steps that change nothing are the stuttering of Spec; saying so first spares TLC the
\* search for the ids of a Commit that did not happen.
Next ==
    /\ serialVars' # serialVars
    /\ \/ \E u \in Upsert, claims \in Extraction : CommitEpisode(u, claims)
       \/ \E d \in Deletion : Withdraw(d)

Spec == Init /\ [][Next]_serialVars
=============================================================================
