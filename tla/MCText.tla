------------------------------- MODULE MCText -------------------------------
(***************************************************************************)
(* Everything between the body of an episode and its claims, side by side: *)
(* each behaviour cuts a body into chunks, or reads a completion, or files *)
(* a phrase, or makes claims of what the model answers for two chunks.     *)
(***************************************************************************)
EXTENDS Chunking, JSONScan, TopicKey, MCExtraction

MCBodyLength == {0, 1, 12, 13, 14, 15, 16, 25, 30, 40}

\* Bodies long enough for an escaped quote in a string in brackets, and for an unpaired one.
MCBytes == {"{", "}", "[", "]", "quote", "backslash"}
MCBody == BoundedSeq(MCBytes, 6) \cup BoundedSeq(MCBytes \cup {"text"}, 4)
MCTag == {<<"text">>}

\* aws, dns, 1099s; policy, policies; class, classes; status; tie, ties; on-call; an, does.
MCStems == <<"1099", "an", "aw", "call", "cla", "dn", "doe", "on", "polic", "stat", "t">>
MCStemLetters == [x \in Range(MCStems) |->
    CASE x \in {"1099", "call"} -> 4 [] x \in {"an", "aw", "dn", "on"} -> 2 [] x \in {"cla", "doe"} -> 3
      [] x = "polic" -> 5 [] x = "stat" -> 4 [] x = "t" -> 1]
MCNumbered == {"1099"}
MCStopwords == {<< <<"an", "">> >>, << <<"doe", "s">> >>}
MCWord == MCStopwords \cup
    {<< <<"1099", "s">> >>, << <<"aw", "s">> >>, << <<"dn", "s">> >>,
     << <<"polic", "y">> >>, << <<"polic", "ies">> >>, << <<"cla", "ss">> >>, << <<"cla", "sses">> >>,
     << <<"stat", "us">> >>, << <<"t", "ie">> >>, << <<"t", "ies">> >>,
     << <<"on", "">>, <<"call", "s">> >>}
MCPhrase == BoundedSeq(MCWord, 2)

NoChunking == length = 0 /\ start = 0 /\ chunks = <<>> /\ cut = TRUE
NoScan == /\ body = <<>> /\ completion = <<>> /\ s = <<>> /\ i = 0
          /\ depth = 0 /\ inStr = FALSE /\ esc = FALSE /\ answer = Err
NoTopic == phrase = <<>> /\ asked = <<>> /\ key = <<>> /\ found = Unkeyed

\* Extraction has nothing to do: its episode has been committed, with no claims.
NoExtraction ==
    /\ timely = TRUE /\ chunk = Chunks + 1 /\ pass = "broad" /\ attempt = 1
    /\ context = "expired" /\ broad = <<>> /\ detail = <<>> /\ errs = 0 /\ stage = "committed"

MCInit ==
    \/ ChunkInit /\ NoScan /\ NoTopic /\ NoExtraction
    \/ NoChunking /\ ScanInit /\ NoTopic /\ NoExtraction
    \/ NoChunking /\ NoScan /\ TopicInit /\ NoExtraction
    \/ NoChunking /\ NoScan /\ NoTopic /\ Init

MCNext ==
    \/ ChunkNext /\ UNCHANGED <<scanVars, topicVars, vars>>
    \/ ScanNext /\ UNCHANGED <<chunkVars, topicVars, vars>>
    \/ TopicNext /\ UNCHANGED <<chunkVars, scanVars, vars>>
    \/ Next /\ UNCHANGED <<chunkVars, scanVars, topicVars>>

MCSpec ==
    /\ MCInit /\ [][MCNext]_<<chunkVars, scanVars, topicVars, vars>>
    /\ WF_vars(Step)
=============================================================================
