------------------------------ MODULE GraphStore ------------------------------
(***************************************************************************)
(* The property graph (internal/store/graph.go, AGEGraph) beside the       *)
(* tables of MemoryStore: every step of the store with the Cypher it runs  *)
(* in the same transaction, in the code's order.  MERGE finds or creates;  *)
(* MATCH of a vertex that is not there makes the whole statement do        *)
(* nothing, without an error.                                              *)
(*                                                                         *)
(* A Memory vertex is created together with its ABOUT edge, so `about`     *)
(* stands for both.  People (MENTIONS, EXPERT_IN) are left out, as         *)
(* subjects and expertise are in MemoryStore.                              *)
(***************************************************************************)
EXTENDS MemoryStore

VARIABLES
    graph,          \* the graph, uncommitted writes of the open Commit included
    savedGraph      \* the committed graph while a Commit is open

graphVars == <<graph, savedGraph>>

\* The empty graph: pairs of a memory and its topic, episodes, pairs of a memory and an
\* episode, pairs of a newer and an older memory.
Empty == [about |-> {}, episodes |-> {}, derivedFrom |-> {}, supersedes |-> {}]

Vertices(g) == {p[1] : p \in g.about}

UpsertMemory(g, id, topic) == [g EXCEPT !.about = @ \cup {<<id, topic>>}]

UpsertEpisode(g, e) == [g EXCEPT !.episodes = @ \cup {e}]

LinkDerivedFrom(g, id, e) ==
    IF id \in Vertices(g) /\ e \in g.episodes
    THEN [g EXCEPT !.derivedFrom = @ \cup {<<id, e>>}]
    ELSE g

\* Mutant: from the older memory to the newer.
LinkReversed(g, newer, older) ==
    IF {newer, older} \subseteq Vertices(g)
    THEN [g EXCEPT !.supersedes = @ \cup {<<older, newer>>}]
    ELSE g

\* From the newer memory to the older.
LinkSupersedes(g, newer, older) ==
    IF {newer, older} \subseteq Vertices(g)
    THEN [g EXCEPT !.supersedes = @ \cup {<<newer, older>>}]
    ELSE g

\* insertMemory and linkProvenance of a new row.
Projected(id) ==
    LinkDerivedFrom(UpsertMemory(graph, id, Head(todo).topic), id, writer.episode)

GraphInit ==
    /\ Init
    /\ graph = Empty
    /\ savedGraph = None

-----------------------------------------------------------------------------
\* Mutant: the graph is written on a connection of its own.
GraphWriteOnPool(g) ==
    /\ graph' = g
    /\ savedGraph' = IF writer' = None THEN None ELSE savedGraph

\* The graph after a step of the Commit that makes g of it: unless the step rolled back.
GraphWrite(g) ==
    IF writer' = None
    THEN graph' = savedGraph /\ savedGraph' = None
    ELSE graph' = g /\ UNCHANGED savedGraph

GraphCommitStep ==
    \/ \E u \in Upsert, claims \in Extraction :
          /\ BeginCommit(u, claims)
          /\ graph' = UpsertEpisode(graph, u.episode)
          /\ savedGraph' = graph
    \/ \E id \in Fresh : Create(id) /\ GraphWrite(Projected(id))
    \/ \E current \in DOMAIN memories :
          /\ Reinforce(current)
          /\ GraphWrite(LinkDerivedFrom(graph, current, writer.episode))
    \/ \E id \in Fresh, current \in DOMAIN memories :
          /\ Backfill(id, current)
          /\ GraphWrite(LinkSupersedes(Projected(id), current, id))
    \/ \E id \in Fresh, current \in DOMAIN memories :
          /\ Supersede(id, current)
          /\ GraphWrite(LinkSupersedes(Projected(id), id, current))
    \/ FinishCommit /\ savedGraph' = None /\ UNCHANGED graph
    \/ AbortCommit /\ GraphWrite(graph)

\* Consolidate: the edges to the originals first, each looking for a summary vertex that
\* only the UpsertMemory after them creates.
GraphConsolidate(r, id, statement, now) ==
    /\ Consolidate(r, id, statement, now)
    /\ LET linked == IF id \in Vertices(graph)
                     THEN [graph EXCEPT !.supersedes =
                             @ \cup {<<id, i>> : i \in group[r].ids \cap Vertices(graph)}]
                     ELSE graph
       IN  graph' = UpsertMemory(linked, id, group[r].topic)
    /\ UNCHANGED savedGraph

\* Neither a deletion nor a purge nor decay touches the graph.
GraphUntouched ==
    /\ \/ \E d \in Deletion : InvalidateByDocument(d)
       \/ \E r \in Replica :
            \/ DecayScan(r)
            \/ \E u \in sweep[r] : DecayUpdate(r, u)
            \/ DecayStops(r)
            \/ CountGroups(r)
            \/ \E kind \in Kind, topic \in Topic, now \in Time :
                  FindConsolidationGroup(r, kind, topic, now)
            \/ ConsolidationFails(r)
    /\ UNCHANGED graphVars

GraphNext ==
    \/ GraphCommitStep
    \/ \E r \in Replica, id \in Fresh, statement \in Statement, now \in Time :
          GraphConsolidate(r, id, statement, now)
    \/ GraphUntouched

GraphSpec == GraphInit /\ [][GraphNext]_<<vars, graphVars>>

-----------------------------------------------------------------------------
(* Properties. *)

\* For everything that is a state and not an event, walking the graph tells what the tables
\* tell: which episodes a memory rests on, and what it replaced, newest first - across
\* rollbacks, backfills and purges.
GraphTellsStates ==
    \A i \in DOMAIN memories :
        Supersedes(memories[i].kind) =>
            /\ <<i, memories[i].topic>> \in graph.about
            /\ \A e \in Episode :
                 episodes[e] # None =>
                    (<<i, e>> \in provenance <=> <<i, e>> \in graph.derivedFrom)
            /\ \A j \in DOMAIN memories :
                 memories[i].by = j <=> <<j, i>> \in graph.supersedes

\* The graph is never ahead of the tables: no edge between two rows that the tables do not
\* have, whatever was rolled back.
NoEdgeWithoutRow ==
    /\ \A p \in graph.about :
          p[1] \in DOMAIN memories \cup purged
    /\ \A p \in graph.supersedes :
          p[1] \in DOMAIN memories /\ p[2] \in DOMAIN memories => memories[p[2]].by = p[1]
    /\ \A p \in graph.derivedFrom :
          p[1] \in DOMAIN memories /\ episodes[p[2]] # None => p \in provenance
=============================================================================
