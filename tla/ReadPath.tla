------------------------------- MODULE ReadPath -------------------------------
(***************************************************************************)
(* What the read side (internal/store/query.go behind the handlers of      *)
(* internal/api/api.go) answers from the tables of MemoryStore.  Readers   *)
(* take part in no transaction of the store: they see the tables as they   *)
(* are when no Commit is open.                                             *)
(*                                                                         *)
(* Ranking, full-text match, subjects, confidence and ACL groups only      *)
(* narrow or order an answer; the answers here are those of a query that   *)
(* names kinds and topics alone, within the limit.                         *)
(***************************************************************************)
EXTENDS MemoryStore

\* Mutant: valid_to >= asOf.
HoldsUpToTheEnd(i, asOf) ==
    /\ memories[i].from <= asOf
    /\ memories[i].to = None \/ memories[i].to >= asOf

\* Valid at the requested world time.
HoldsAt(i, asOf) ==
    /\ memories[i].from <= asOf
    /\ memories[i].to = None \/ memories[i].to > asOf

\* handleSearch without include_superseded; it never sets IncludeArchived.
Search(kinds, topics, asOf) ==
    {i \in DOMAIN memories :
        /\ ~memories[i].archived
        /\ HoldsAt(i, asOf)
        /\ memories[i].kind \in kinds
        /\ memories[i].topic \in topics}

supersededIDs(i) == {j \in DOMAIN memories : memories[j].by = i}

\* Timeline: superseded entries are included by design.
Listed(kinds, topics) ==
    {i \in DOMAIN memories :
        /\ ~memories[i].archived
        /\ memories[i].kind \in kinds
        /\ memories[i].topic \in topics}

\* Of several rows a memory replaced, the entry keeps the one that was scanned last, in no order.
MayShow(i) == IF supersededIDs(i) = {} THEN {None} ELSE supersededIDs(i)

\* What the map `replaced` of a page may hold when its rows have been scanned.
Scanned(kinds, topics) ==
    {replaced \in [Listed(kinds, topics) -> MemoryId \cup {None}] :
        \A i \in Listed(kinds, topics) : replaced[i] \in MayShow(i)}

Timeline(kinds, topics, replaced) ==
    {[memory |-> i, replaced |-> replaced[i], changedAt |-> memories[i].from,
      current |-> memories[i].to = None] : i \in Listed(kinds, topics)}

-----------------------------------------------------------------------------
(* Properties. *)

\* Of a memory and the one that replaced it, a reader asking for any instant between the start
\* of the first and the end of the second is never given the one that did not hold then, and is
\* given the one that did unless decay has archived that one: at the instant of the change the
\* new one answers, and the old one no longer does.  (Once a memory is archived there is no answer
\* for its time, as-of query or not.)
SeamlessAnswers ==
    Idle =>
      \A i, j \in DOMAIN memories :
        memories[i].by = j /\ Supersedes(memories[i].kind) =>
          \A t \in Time :
            /\ memories[i].from <= t
            /\ memories[j].to = None \/ t < memories[j].to
            => LET held == IF t < memories[j].from THEN i ELSE j
               IN  Search({memories[i].kind}, {memories[i].topic}, t) \cap {i, j}
                     = {k \in {held} : ~memories[k].archived}

\* The decisions of a topic, however they faded.
DecisionsOn(topic) ==
    {i \in DOMAIN memories : memories[i].kind = "decision" /\ memories[i].topic = topic}

\* Every page of the decisions timeline, whatever order its rows were scanned in, tells every
\* decision ever made and not purged, however it faded.  What it shows as replaced is a decision
\* that ended at the instant the entry says it changed; and no reversal goes unmarked: the entry
\* of the decision that replaced another shows one that it replaced, and that very one if it is
\* the only one.  (Of several rows it replaced, an entry shows one.)
TimelineTellsChanges ==
    Idle =>
      \A topic \in Topic : \A replaced \in Scanned({"decision"}, {topic}) :
        LET entries == Timeline({"decision"}, {topic}, replaced)
        IN  /\ DecisionsOn(topic) = {entry.memory : entry \in entries}
            /\ \A entry \in entries :
                 entry.replaced # None =>
                    /\ entry.replaced \in DecisionsOn(topic)
                    /\ memories[entry.replaced].to = entry.changedAt
            /\ \A old \in DecisionsOn(topic) :
                 memories[old].by # None =>
                    \E entry \in entries :
                      /\ entry.memory = memories[old].by
                      /\ entry.replaced # None
                      /\ supersededIDs(entry.memory) = {old} => entry.replaced = old
=============================================================================
