--------------------------- MODULE BitemporalTable ---------------------------
(***************************************************************************)
(* What the store promises whoever reads its memories, whatever commits,   *)
(* fades, is consolidated, withdrawn or purged: at every instant a sound   *)
(* table, that only ever grows - rows are added, open ones are closed or   *)
(* linked, nothing said or closed is rewritten: superseding "never         *)
(* deletes" (migrations/0001_memory.sql) - except for the rows that a      *)
(* purge takes out for good.                                               *)
(***************************************************************************)
EXTENDS MemoryRows

VARIABLES
    table,      \* the memories a reader finds
    gone        \* the ids that were deleted

Promised(t) == IsTable(t) /\ SchemaAccepts(t) /\ Gapless(t) /\ Wellfounded(t)

Init == DOMAIN table = {} /\ Promised(table) /\ gone = {}

\* No id of a deleted row comes back.
Grow ==
    /\ Promised(table')
    /\ Extends(table, table')
    /\ DOMAIN table' \cap gone = {}
    /\ UNCHANGED gone

\* What stays keeps what it said, and points to nothing that is gone.
Purge ==
    /\ Promised(table')
    /\ gone \subseteq gone'
    /\ DOMAIN table' = DOMAIN table \ gone'
    /\ \A i \in DOMAIN table' : SameMemory(table[i], table'[i])

Next == Grow \/ Purge

Spec == Init /\ [][Next]_<<table, gone>>
=============================================================================
