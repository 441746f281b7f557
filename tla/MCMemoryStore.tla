---------------------------- MODULE MCMemoryStore ----------------------------
(***************************************************************************)
(* Values for the constants of MemoryStore, run together with the graph    *)
(* that mirrors it and with what its readers are answered.                 *)
(***************************************************************************)
EXTENDS GraphStore, ReadPath, TLC

CONSTANTS m1, m2, m3, pricing, s1, s2, s3, forty, fifty, e1, e2, e3, wiki, slack

MCMemoryId == {m1, m2, m3}
MCTopic == {pricing}
MCTime == 0..2

\* s1 and s2 say the same thing, s3 something else.
MCStatement == {s1, s2, s3}
MCSimilar == {<<s, s>> : s \in MCStatement} \cup {<<s1, s2>>, <<s2, s1>>}
MCAttrValue == {forty, fifty}

Says(kind, statement) ==
    [kind |-> kind, topic |-> pricing, statement |-> statement, attr |-> None, status |-> None]
Priced(statement, price) == [Says("fact", statement) EXCEPT !.attr = price]
Asks(status) == [Says("task", s1) EXCEPT !.status = status]

\* The wiki page, its edit, and a message about the same topic, in any order of time.
MCEpisode == {e1, e2, e3}
MCDocument == {wiki, slack}
MCUpsert == {[episode |-> e1, document |-> wiki, occurred |-> 0],
             [episode |-> e2, document |-> slack, occurred |-> 1],
             [episode |-> e3, document |-> wiki, occurred |-> 2]}
MCDeletion == {[document |-> wiki, occurred |-> 1], [document |-> slack, occurred |-> 2]}

\* A page that reports two events, an edit at a time, and is deleted.
MCPage == {[episode |-> e1, document |-> wiki, occurred |-> 0],
           [episode |-> e2, document |-> wiki, occurred |-> 1]}
MCPageDeleted == {[document |-> wiki, occurred |-> 2]}

\* Ids are only ever compared.
MCIds == Permutations(MCMemoryId)

\* States: a fact in two wordings, what contradicts it, both in one episode, its price
\* named and changed; a task opened and done; an episode nothing is claimed from.
MCFacts == {<<Says("fact", s1)>>, <<Says("fact", s3)>>,
            <<Says("fact", s1), Says("fact", s3)>>,
            <<Priced(s1, forty)>>, <<Priced(s2, fifty)>>,
            <<Asks("open")>>, <<Asks("done")>>, <<>>}

\* A stream beside them.
MCEvents == {<<Says("event", s1)>>}

\* A decision and what reverses it.
MCDecisions == {<<Says("decision", s1)>>, <<Says("decision", s3)>>}

MCAll == MCFacts \cup MCEvents \cup MCDecisions
=============================================================================
