-------------------------- MODULE MCConcurrentCommit --------------------------
(***************************************************************************)
(* Values for the constants of ConcurrentCommit.                           *)
(***************************************************************************)
EXTENDS ConcurrentCommit, TLC

CONSTANTS m1, m2, m3, m4, m5, m6, deploys, pricing, yes, no, e1, e2, e3, wiki, slack, w1, w2

\* As many ids as there are claims in the deliveries.
MCMemoryId == {m1, m2, m3, m4, m5, m6}
MCTopic == {deploys, pricing}
MCTime == 0..2
MCStatement == {yes, no}
MCSimilar == {<<s, s>> : s \in MCStatement}
MCAttrValue == {}
MCEpisode == {e1, e2, e3}
MCDocument == {wiki, slack}

Says(kind, topic, statement) ==
    [kind |-> kind, topic |-> topic, statement |-> statement, attr |-> None, status |-> None]
Decides(topic, statement) == Says("decision", topic, statement)

\* The wiki page and two messages, one of them about a time before the page.
MCUpsert == {[episode |-> e1, document |-> wiki, occurred |-> 1],
             [episode |-> e2, document |-> slack, occurred |-> 2],
             [episode |-> e3, document |-> slack, occurred |-> 0]}
MCTwoUpserts == {u \in MCUpsert : u.episode # e3}
MCDeletion == {[document |-> wiki, occurred |-> 1]}
MCNoDeletion == {}

\* In the order Merge sorts them by, kind then topic; one, both and neither of the topics
\* resolved, and events, which resolve nothing.
MCExtraction == {<<Decides(deploys, no)>>,
                 <<Decides(deploys, yes), Decides(pricing, yes)>>,
                 <<Decides(pricing, no)>>,
                 <<Decides(deploys, yes), Says("event", pricing, yes)>>}
\* The same, and two topics nothing but the credits are locked on.
MCBusy == {<<Decides(deploys, yes), Decides(pricing, yes)>>,
           <<Decides(deploys, no), Decides(pricing, no)>>,
           <<Says("event", deploys, yes), Says("event", pricing, yes)>>}
MCOneTopic == {<<Decides(deploys, yes)>>, <<Decides(deploys, no)>>}
MCEvents == {<<Says("event", deploys, yes)>>}

MCWorkers == Permutations({w1, w2})
=============================================================================
