------------------------------ MODULE Extraction ------------------------------
(***************************************************************************)
(* From the text of an episode to the claims a Commit is given: two passes *)
(* of the model over every chunk (internal/extract), each call retried     *)
(* (internal/llm), the merge of what they answered, and the screen of the  *)
(* verifier (internal/verify), as one run of Process (internal/pipeline).  *)
(*                                                                         *)
(* The model may answer anything.  Text is abstract: how alike two         *)
(* statements are, what the source contains and which statements pass the  *)
(* lexical checks are constants.                                           *)
(***************************************************************************)
EXTENDS Integers, SequencesExt

CONSTANTS
    Chunks,         \* chunks of the body, at most MaxChunks
    MaxRetries,     \* calls the client makes before it gives up
    BroadAnswer,    \* what the model can answer to the broad pass
    DetailAnswer,   \* and to the detail pass
    Topics,         \* how many topics there are, numbered in the order of their keys
    Generic,        \* those too generic to be a key
    Statement,
    Likeness,       \* StatementSimilarity of two statements, in percent
    Assertion,      \* statements of the right length that are no question
    SelfContained,  \* those without a reference to what they stand apart from
    Asserts,        \* pairs of a kind and a statement worded as one
    Supported,      \* statements whose terms are in the source
    AttrName, AttrValue,
    Verbatim,       \* values the source contains as they are written
    Numeric,        \* those with a figure in them
    DigitsFound,    \* those whose digits are among the source's, all run together
    Overlapping,    \* those that share nine in ten of their words with the source
    Quote, Length,  \* quotes, NoQuote among them, and how long they are
    Found, Close,   \* quotes the source contains, verbatim or in other words
    NoQuote

Pass == {"broad", "detail", "merged"}

\* In the order of their names.
Kinds == <<"decision", "event", "fact", "instruction", "task">>
Kind == ToSet(Kinds)
Topic == 1..Topics
Attributes == UNION {[S -> AttrValue] : S \in SUBSET AttrName}

\* An item as the model wrote it, and as a candidate.
Item == [kind : Kind \cup {"unknown"}, topic : Topic, statement : Statement,
         attrs : Attributes, confidence : 0..200, quote : Quote]
Candidate == [kind : Kind, topic : Topic, statement : Statement, attrs : Attributes,
              confidence : 1..100, quote : Quote, pass : Pass, status : BOOLEAN]

ASSUME BoundAssumption == Chunks \in Nat \ {0} /\ MaxRetries \in Nat \ {0} /\ Topics \in Nat \ {0}
ASSUME AnswerAssumption == BroadAnswer \subseteq Seq(Item) /\ DetailAnswer \subseteq Seq(Item)
ASSUME TextAssumption ==
    /\ Generic \subseteq Topic /\ Asserts \subseteq Kind \X Statement
    /\ Assertion \subseteq Statement /\ SelfContained \subseteq Statement
    /\ Likeness \in [Statement \X Statement -> 0..100]
    /\ \A s, t \in Statement : Likeness[s, t] = Likeness[t, s]
    /\ Supported \subseteq Statement
    /\ \A values \in {Verbatim, Numeric, DigitsFound, Overlapping} : values \subseteq AttrValue
    /\ NoQuote \in Quote /\ Length \in [Quote -> Nat] /\ Found \cup Close \subseteq Quote

VARIABLES
    timely,         \* the episode is not dated in the verifier's future
    chunk, pass, attempt,   \* the call at hand
    context,        \* live, or expired
    broad, detail,  \* candidates so far
    errs,           \* passes that failed
    stage           \* extracting, screened, committed, refused

vars == <<timely, chunk, pass, attempt, context, broad, detail, errs, stage>>

Init ==
    /\ timely \in BOOLEAN
    /\ chunk = 1 /\ pass = "broad" /\ attempt = 1
    /\ context = "live"
    /\ broad = <<>> /\ detail = <<>>
    /\ errs = 0
    /\ stage = "extracting"

-----------------------------------------------------------------------------
(* What becomes of the model's items. *)

\* Mutant: an omitted confidence stays 0.
Unclamped(c) == c

\* clamp01: what is omitted counts as half.
Clamped(c) == IF c = 0 THEN 50 ELSE IF c > 100 THEN 100 ELSE c

ToCandidate(item, kind, attrs, from) ==
    [kind |-> kind, topic |-> item.topic, statement |-> item.statement, attrs |-> attrs,
     confidence |-> Clamped(item.confidence), quote |-> item.quote, pass |-> from,
     status |-> kind = "task" /\ from = "broad"]

NoAttributes == [k \in {} |-> NoQuote]

\* An item of no known kind is dropped by the broad pass, taken for a fact by the detail
\* pass, which drops what has no attribute.
BroadCandidates(items) ==
    FoldLeft(LAMBDA out, m :
               IF m.kind \in Kind
               THEN Append(out, ToCandidate(m, m.kind, NoAttributes, "broad"))
               ELSE out,
             <<>>, items)

DetailCandidates(items) ==
    FoldLeft(LAMBDA out, d :
               IF DOMAIN d.attrs # {}
               THEN Append(out, ToCandidate(d, IF d.kind \in Kind THEN d.kind ELSE "fact",
                                            d.attrs, "detail"))
               ELSE out,
             <<>>, items)

SameTopic(c, d) == c.kind = d.kind /\ c.topic = d.topic

Higher(a, b) == IF a > b THEN a ELSE b

\* What c knows and d adds: c's own values are kept.
WithSpecifics(c, d) ==
    [c EXCEPT !.attrs = [k \in DOMAIN c.attrs \cup DOMAIN d.attrs |->
                            IF k \in DOMAIN c.attrs THEN c.attrs[k] ELSE d.attrs[k]],
              !.confidence = Higher(c.confidence, d.confidence)]

\* similarStatement: wording repeated by overlapping chunks.
Twins(c, d) ==
    SameTopic(c, d) /\ (c.statement = d.statement \/ Likeness[c.statement, d.statement] >= 85)

dedupe(candidates) ==
    FoldLeft(LAMBDA out, c :
               LET twin == SelectInSeq(out, LAMBDA o : Twins(o, c))
               IN  IF twin = 0 THEN Append(out, c)
                   ELSE [out EXCEPT ![twin] = WithSpecifics(@, c)],
             <<>>, candidates)

\* A detail grafted on the statement it belongs to.
Grafted(target, d) ==
    [WithSpecifics(target, d) EXCEPT
        !.quote = IF Length[d.quote] > Length[@] THEN d.quote ELSE @,
        !.pass = "merged"]

\* Mutant: grafted on the first of its kind, whatever the topic.
FoldOnKind(merged, d) ==
    LET target == SelectInSeq(merged, LAMBDA m : m.kind = d.kind)
    IN  IF target = 0 THEN Append(merged, d) ELSE [merged EXCEPT ![target] = Grafted(@, d)]

\* Mutant: details on topics the broad pass missed are dropped.
FoldKnown(merged, d) ==
    LET target == SelectInSeq(merged, LAMBDA m : SameTopic(m, d))
    IN  IF target = 0 THEN merged ELSE [merged EXCEPT ![target] = Grafted(@, d)]

FoldDetail(merged, d) ==
    LET target == SelectInSeq(merged, LAMBDA m : SameTopic(m, d))
    IN  IF target = 0 THEN Append(merged, d) ELSE [merged EXCEPT ![target] = Grafted(@, d)]

KindRank(c) == CHOOSE n \in DOMAIN Kinds : Kinds[n] = c.kind

\* Mutant: sorted by kind only.
LessByKind(c, d) == KindRank(c) < KindRank(d)

\* By kind, then topic.
Less(c, d) == KindRank(c) < KindRank(d) \/ (c.kind = d.kind /\ c.topic < d.topic)

\* Behind everything that does not come after it: what has the same key keeps its order.
Placed(out, c) ==
    LET next == SelectInSeq(out, LAMBDA o : Less(c, o))
    IN  IF next = 0 THEN Append(out, c) ELSE InsertAt(out, next, c)

Sorted(candidates) == FoldLeft(Placed, <<>>, candidates)

Merge(b, d) == Sorted(FoldLeft(FoldDetail, dedupe(b), dedupe(d)))

-----------------------------------------------------------------------------
(* The verifier. *)

checkShape(c) == c.statement \in Assertion /\ c.confidence >= 35

checkTopic(c) == c.topic \notin Generic

\* The quote is in the source or, without a quote, the statement's terms are.
checkGrounding(c) ==
    IF c.quote = NoQuote THEN c.statement \in Supported ELSE c.quote \in Found \cup Close

\* What weak grounding costs.
Penalty(c) == IF c.quote = NoQuote THEN 15 ELSE IF c.quote \in Found THEN 0 ELSE 10

checkSelfContained(c) == c.statement \in SelfContained

\* A task has a status, and nothing else has.
checkKindAgreement(c) == <<c.kind, c.statement>> \in Asserts /\ (c.kind = "task" <=> c.status)

\* As written, or by its digits if it has any, or else by its words.  The digits are looked for
\* in all digits of the body written one after the other, so that figures that stand apart in
\* the text vouch for one that nobody wrote.
InSource(value) ==
    value \in Verbatim \/ IF value \in Numeric THEN value \in DigitsFound ELSE value \in Overlapping

checkAttributes(c) ==
    /\ c.pass = "detail" => DOMAIN c.attrs # {}
    /\ \A k \in DOMAIN c.attrs : InSource(c.attrs[k])

\* Mutant: compared with the last one accepted only.
restatesLast(c, prior) ==
    prior # <<>> /\ SameTopic(Last(prior), c) /\ Likeness[Last(prior).statement, c.statement] >= 70

\* It restates what was accepted before it.
restates(c, prior) ==
    \E n \in DOMAIN prior :
        SameTopic(prior[n], c) /\ Likeness[prior[n].statement, c.statement] >= 70

\* All eight; the sixth, that the episode is not dated in the future, is one for the batch.
Verify(c, prior) ==
    /\ checkShape(c) /\ checkTopic(c) /\ checkGrounding(c) /\ checkSelfContained(c)
    /\ checkKindAgreement(c) /\ timely /\ checkAttributes(c) /\ ~restates(c, prior)

VerifyAll(candidates) ==
    FoldLeft(LAMBDA prior, c :
               IF Verify(c, prior)
               THEN Append(prior, [c EXCEPT !.confidence = @ - Penalty(c)])
               ELSE prior,
             <<>>, candidates)

\* The candidates of an episode, and the claims of them that a Commit is given.
Merged == Merge(broad, detail)
Accepted == VerifyAll(Merged)

-----------------------------------------------------------------------------
(* Process. *)

Calling == stage = "extracting" /\ chunk <= Chunks

NextPass ==
    /\ attempt' = 1
    /\ IF pass = "broad" THEN pass' = "detail" /\ chunk' = chunk
       ELSE pass' = "broad" /\ chunk' = chunk + 1

\* The model answers what ExtractJSON and the decoder make sense of.
Answered ==
    /\ Calling /\ context = "live"
    /\ IF pass = "broad"
       THEN /\ \E items \in BroadAnswer : broad' = broad \o BroadCandidates(items)
            /\ detail' = detail
       ELSE /\ \E items \in DetailAnswer : detail' = detail \o DetailCandidates(items)
            /\ broad' = broad
    /\ NextPass
    /\ UNCHANGED <<timely, context, errs, stage>>

PassFails ==
    /\ errs' = errs + 1
    /\ NextPass
    /\ UNCHANGED <<timely, context, broad, detail, stage>>

\* What trying again will not change: a refusal below 500, an answer without JSON.
Malformed == Calling /\ context = "live" /\ PassFails

\* Mutant: the attempts are counted from the start again.
RetryForEver ==
    /\ Calling /\ context = "live"
    /\ attempt' = (attempt % MaxRetries) + 1
    /\ UNCHANGED <<timely, chunk, pass, context, broad, detail, errs, stage>>

\* 429, 500 and above, a connection that fails, an answer without choices.
Retry ==
    /\ Calling /\ context = "live"
    /\ attempt < MaxRetries
    /\ attempt' = attempt + 1
    /\ UNCHANGED <<timely, chunk, pass, context, broad, detail, errs, stage>>

\* The last attempt fails, or the deadline ends the wait for the next.
Unavailable ==
    /\ Calling
    /\ attempt = MaxRetries \/ context = "expired"
    /\ PassFails

\* The deadline of the message passes, or the service is shut down.
Expire ==
    /\ context = "live" /\ stage \in {"extracting", "screened"}
    /\ context' = "expired"
    /\ UNCHANGED <<timely, chunk, pass, attempt, broad, detail, errs, stage>>

\* Mutant: failed passes are not looked at.
ScreenWhatever ==
    /\ stage = "extracting" /\ chunk > Chunks
    /\ stage' = "screened"
    /\ UNCHANGED <<timely, chunk, pass, attempt, context, broad, detail, errs>>

\* All calls are made: an error if they yielded failures and nothing to merge, else the
\* verifier's turn.  (Merged is empty only if there was nothing to merge.)
Screen ==
    /\ stage = "extracting" /\ chunk > Chunks
    /\ stage' = IF broad \o detail = <<>> /\ errs > 0 THEN "refused" ELSE "screened"
    /\ UNCHANGED <<timely, chunk, pass, attempt, context, broad, detail, errs>>

\* Commit, with the ingest log; what it does is the subject of MemoryStore.
CommitEpisode ==
    /\ stage = "screened" /\ context = "live"
    /\ stage' = "committed"
    /\ UNCHANGED <<timely, chunk, pass, attempt, context, broad, detail, errs>>

CommitFails ==
    /\ stage = "screened"
    /\ stage' = "refused"
    /\ UNCHANGED <<timely, chunk, pass, attempt, context, broad, detail, errs>>

Step ==
    \/ Answered
    \/ Malformed
    \/ Retry
    \/ Unavailable
    \/ Screen
    \/ CommitEpisode
    \/ CommitFails

Next == Step \/ Expire

\* A call ends with an answer or an error: the HTTP client has a timeout.
Spec == Init /\ [][Next]_vars
FairSpec == Spec /\ WF_vars(Step)

-----------------------------------------------------------------------------
(* Properties. *)

\* Every claim carries a confidence of its own, which no item without one can get to 0,
\* and the rest of the state its type.
TypeOK ==
    /\ timely \in BOOLEAN
    /\ chunk \in 1..(Chunks + 1) /\ pass \in Pass \ {"merged"} /\ attempt \in 1..MaxRetries
    /\ context \in {"live", "expired"}
    /\ \A s \in {broad, detail, Accepted} : s \in Seq(Candidate)
    /\ errs \in 0..(2 * Chunks)
    /\ stage \in {"extracting", "screened", "committed", "refused"}

\* What a Commit is given for one key never restates itself, whatever the passes, chunks
\* and their merge repeated: otherwise the episode would corroborate itself.  (Statements that
\* do not restate each other may share a key; the later claim then supersedes the earlier.)
AcceptedAreDistinct ==
    stage = "screened" =>
        LET claims == Accepted
        IN  \A m, n \in DOMAIN claims :
                m # n /\ SameTopic(claims[m], claims[n]) =>
                    Likeness[claims[m].statement, claims[n].statement] < 70

\* Commits of different episodes take their locks in one order: claims come sorted by key.
InLockOrder ==
    stage = "screened" =>
        LET claims == Accepted
        IN  \A m, n \in DOMAIN claims :
                m < n => /\ KindRank(claims[m]) <= KindRank(claims[n])
                         /\ claims[m].kind = claims[n].kind => claims[m].topic <= claims[n].topic

\* What merging keeps and what it may not add.  Every statement of the broad pass is
\* there in its own or in near-identical words; every attribute the detail pass named on a
\* key is named by a candidate of that key; and what a candidate carries, the detail pass
\* said of its key and in that value.  (Of two values told for one name of one key only
\* one is sure to be left: a detail no broad candidate takes becomes the target of the next.)
MergeKeepsWhatWasSaid ==
    stage = "screened" =>
        LET merged == ToSet(Merged)
        IN  /\ \A b \in ToSet(broad) : \E c \in merged : Twins(b, c)
            /\ \A d \in ToSet(detail) :
                  \E c \in merged : SameTopic(c, d) /\ DOMAIN d.attrs \subseteq DOMAIN c.attrs
            /\ \A c \in merged : \A k \in DOMAIN c.attrs :
                  \E d \in ToSet(detail) :
                      SameTopic(c, d) /\ k \in DOMAIN d.attrs /\ d.attrs[k] = c.attrs[k]

\* A broken dependency is not a thin document: when every call failed, the episode is not
\* marked processed.
AllFailedIsRetried == stage = "committed" => errs < 2 * Chunks

\* Process returns, however the calls fail.
ProcessEnds == <>(stage \in {"committed", "refused"})
=============================================================================
