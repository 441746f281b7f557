---------------------------- MODULE MCExtraction ----------------------------
(***************************************************************************)
(* Values for the constants of Extraction.                                 *)
(***************************************************************************)
EXTENDS Extraction, TLC

CONSTANTS s1, s2, s3, s4, s5, s6, price, seats, forty, fifty, joined, monthly, short, long, loose

\* s2 is s1 in almost the same words, s3 is close to both, s4 is neither, s5 asks
\* a question and s6 speaks of "it".
MCStatement == {s1, s2, s3, s4, s5, s6}
MCAssertion == MCStatement \ {s5}
MCSelfContained == MCStatement \ {s6}
MCLikeness ==
    [p \in MCStatement \X MCStatement |->
        CASE p[1] = p[2] -> 100
          [] {p[1], p[2]} = {s1, s2} -> 90
          [] {p[1], p[2]} \in {{s1, s3}, {s2, s3}} -> 75
          [] OTHER -> 10]

\* Anything can be a fact or a task, nothing else words itself as what it claims to be.
MCAsserts == {"fact", "task"} \X MCStatement
MCSupported == {s1}
MCAttrName == {price, seats}
\* The source speaks of forty.  Nothing in it looks like fifty; the digits of the third are
\* there, but end one figure and begin the next; the last one it says in other words.
MCAttrValue == {forty, fifty, joined, monthly}
MCVerbatim == {forty}
MCNumeric == {forty, fifty, joined}
MCDigitsFound == {forty, joined}
MCOverlapping == {monthly}
MCQuote == {NoQuote, short, long, loose}
MCLength == (NoQuote :> 0) @@ (short :> 10) @@ (long :> 20) @@ (loose :> 15)
MCFound == {short}
MCClose == {loose}
MCGeneric == {3}

Says(kind, topic, statement, attrs, confidence, quote) ==
    [kind |-> kind, topic |-> topic, statement |-> statement, attrs |-> attrs,
     confidence |-> confidence, quote |-> quote]
Plain(kind, topic, statement) == Says(kind, topic, statement, <<>>, 90, short)
Priced(kind, topic, statement, value) == Says(kind, topic, statement, price :> value, 90, short)

\* Nothing; a fact; three statements of one fact, the second far from the others; topics
\* out of order; what is unclassified, generic, unsure, unquoted, misworded, asked or
\* unresolved.
MCBroadAnswer ==
    {<<>>,
     <<Plain("fact", 1, s1)>>,
     <<Plain("fact", 1, s2), Plain("fact", 1, s4), Plain("fact", 1, s3)>>,
     <<Plain("task", 2, s4), Plain("fact", 2, s3), Plain("fact", 1, s4)>>,
     <<Plain("unknown", 1, s1), Plain("fact", 3, s1), Says("fact", 2, s4, <<>>, 20, short),
       Says("fact", 2, s1, <<>>, 0, NoQuote), Plain("decision", 1, s1),
       Plain("fact", 2, s5), Plain("fact", 2, s6)>>}

\* Nothing; the price; another price and the seats of one topic; a detail of no known kind,
\* with a value made of two, and one of no attribute; one of a task, and one with a quote
\* the source does not have.
MCDetailAnswer ==
    {<<>>,
     <<Priced("fact", 1, s1, forty)>>,
     <<Priced("fact", 1, s4, fifty), Says("fact", 1, s4, seats :> forty, 200, loose)>>,
     <<Priced("unknown", 2, s4, joined), Plain("fact", 1, s1)>>,
     <<Priced("task", 2, s4, monthly), Says("fact", 1, s3, seats :> forty, 50, long)>>}
=============================================================================
