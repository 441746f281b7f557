------------------------------- MODULE Delivery -------------------------------
(***************************************************************************)
(* How a message of the content stream becomes memories: the JetStream     *)
(* durable consumer (external), the pull consumer of each replica with its *)
(* ack, nak and term policy (internal/bus), the pipeline that must run at  *)
(* most once per content (internal/pipeline) and the shutdown of a replica *)
(* (cmd/memory-service).                                                   *)
(*                                                                         *)
(* A replica pulls messages ahead of its handler, which takes one at a     *)
(* time.  Meanwhile the server's ack timer may expire: the message is then *)
(* delivered again, to any replica, and the first handler goes on.  What a *)
(* Commit does to the tables is the subject of MemoryStore and             *)
(* ConcurrentCommit: here it is one step that enters the ingest log.       *)
(***************************************************************************)
EXTENDS Integers, FiniteSets, Sequences

CONSTANTS
    Message,        \* messages of the stream
    Replica,        \* replicas of the service, sharing one durable consumer
    Body,           \* what each message carries
    Content,        \* its content: the hash of an upsert, the document of a delete
    MaxDeliver,     \* deliveries of one message
    MaxInflight,    \* messages delivered and not answered, and messages pulled ahead
    None

Bodies == {"undecodable", "invalid", "thin", "upsert", "delete"}

ASSUME BodyAssumption == Body \in [Message -> Bodies] /\ DOMAIN Content = Message
ASSUME BudgetAssumption == /\ MaxDeliver \in Nat \ {0}
                           /\ MaxInflight \in Nat \ {0}
ASSUME NoneAssumption == None \notin Message

VARIABLES
    status,         \* of each message, at the server
    delivered,      \* how often the server has delivered it
    pulled,         \* per replica, the deliveries its handler has not taken yet
    handling,       \* per replica, the delivery in the handler and how far it is
    context,        \* per replica: live; cancelled by a signal and still consuming; draining; gone
    ingested,       \* the ingest log: contents committed
    withdrawn,      \* documents whose deletion was propagated
    failures,       \* per message, deliveries lost to a failure, a crash, a timeout or a
                    \* lost answer (not state of the program: what a retry is for)
    calm            \* whether the environment has stopped failing (not state either)

serverVars == <<status, delivered>>
replicaVars == <<pulled, handling, context>>
storeVars == <<ingested, withdrawn>>
vars == <<serverVars, replicaVars, storeVars, failures, calm>>

\* pending: to be delivered.  outstanding: delivered, the ack timer runs.  exhausted: not
\* answered and not delivered again.
Status == {"pending", "outstanding", "acked", "terminated", "exhausted"}
Settled == {"acked", "terminated", "exhausted"}

Delivery == [message : Message, number : 1..MaxDeliver]
Step == {"decoding", "extracting", "ack", "nak", "term"}

Init ==
    /\ status = [m \in Message |-> "pending"]
    /\ delivered = [m \in Message |-> 0]
    /\ pulled = [r \in Replica |-> <<>>]
    /\ handling = [r \in Replica |-> None]
    /\ context = [r \in Replica |-> "live"]
    /\ ingested = {}
    /\ withdrawn = {}
    /\ failures = [m \in Message |-> 0]
    /\ calm = FALSE

-----------------------------------------------------------------------------
(* The server's side of the consumer the service creates. *)

\* Mutant: a message whose deliveries are used up is delivered again.
PullForEver(r, m) ==
    /\ context[r] \in {"live", "cancelled"}
    /\ Len(pulled[r]) < MaxInflight
    /\ Cardinality({n \in Message : status[n] = "outstanding"}) < MaxInflight
    /\ status[m] \in {"pending", "exhausted"}
    /\ delivered' = [delivered EXCEPT ![m] = IF @ < MaxDeliver THEN @ + 1 ELSE @]
    /\ status' = [status EXCEPT ![m] = "outstanding"]
    /\ pulled' = [pulled EXCEPT ![r] = Append(@, [message |-> m, number |-> delivered'[m]])]
    /\ UNCHANGED <<handling, context, storeVars, failures, calm>>

\* PullMaxMessages lets a replica pull ahead, MaxAckPending bounds what is unanswered.
Pull(r, m) ==
    /\ context[r] \in {"live", "cancelled"}
    /\ Len(pulled[r]) < MaxInflight
    /\ Cardinality({n \in Message : status[n] = "outstanding"}) < MaxInflight
    /\ status[m] = "pending"
    /\ delivered' = [delivered EXCEPT ![m] = @ + 1]
    /\ status' = [status EXCEPT ![m] = "outstanding"]
    /\ pulled' = [pulled EXCEPT ![r] = Append(@, [message |-> m, number |-> delivered'[m]])]
    /\ UNCHANGED <<handling, context, storeVars, failures, calm>>

\* Mutant: MaxDeliver is not checked.
AgainAlways(m) == "pending"

\* What an unanswered or refused message becomes.
Again(m) == IF delivered[m] < MaxDeliver THEN "pending" ELSE "exhausted"

Held(m) ==
    \E r \in Replica :
        \/ handling[r] # None /\ handling[r].delivery.message = m
        \/ \E n \in DOMAIN pulled[r] : pulled[r][n].message = m

\* The ack timer of a message expires: BackOff, where it is set, is the timer of the first
\* deliveries and far shorter than the deadline of the handler.
AckExpires(m) ==
    /\ status[m] = "outstanding"
    /\ calm => ~Held(m)
    /\ status' = [status EXCEPT ![m] = Again(m)]
    /\ failures' = [failures EXCEPT ![m] = IF @ < MaxDeliver THEN @ + 1 ELSE @]
    /\ UNCHANGED <<delivered, replicaVars, storeVars, calm>>

\* An answer counts for the message, whichever of its deliveries it answers.
Answer(m, step) ==
    status' = [status EXCEPT ![m] =
                 CASE step = "ack" /\ @ \notin Settled -> "acked"
                   [] step = "term" /\ @ \notin Settled -> "terminated"
                   [] step = "nak" /\ @ = "outstanding" -> Again(m)
                   [] OTHER -> @]

-----------------------------------------------------------------------------
(* handle and Process: one delivery. *)

Take(r) ==
    /\ context[r] # "gone"
    /\ handling[r] = None
    /\ pulled[r] # <<>>
    /\ handling' = [handling EXCEPT ![r] = [delivery |-> Head(pulled[r]), step |-> "decoding"]]
    /\ pulled' = [pulled EXCEPT ![r] = Tail(@)]
    /\ UNCHANGED <<serverVars, context, storeVars, failures, calm>>

Handles(r, step) == handling[r] # None /\ handling[r].step = step

Handled(r) == handling[r].delivery.message

Goes(r, step) == handling' = [handling EXCEPT ![r].step = step]

\* Undecodable payloads and invalid events are terminated, thin ones acked and dropped.
Dismiss(r) ==
    /\ Handles(r, "decoding")
    /\ \/ Body[Handled(r)] \in {"undecodable", "invalid"} /\ Goes(r, "term")
       \/ Body[Handled(r)] = "thin" /\ Goes(r, "ack")
    /\ UNCHANGED <<serverVars, pulled, context, storeVars, failures, calm>>

\* handleDelete succeeds.
PropagateDelete(r) ==
    /\ Handles(r, "decoding")
    /\ Body[Handled(r)] = "delete"
    /\ context[r] = "live"
    /\ withdrawn' = withdrawn \cup {Content[Handled(r)]}
    /\ Goes(r, "ack")
    /\ UNCHANGED <<serverVars, pulled, context, ingested, failures, calm>>

\* AlreadyProcessed: what is in the ingest log is not extracted again.
CheckLog(r) ==
    /\ Handles(r, "decoding")
    /\ Body[Handled(r)] = "upsert"
    /\ context[r] = "live"
    /\ Goes(r, IF Content[Handled(r)] \in ingested THEN "ack" ELSE "extracting")
    /\ UNCHANGED <<serverVars, pulled, context, storeVars, failures, calm>>

\* Extract, VerifyAll and Commit succeed.
CommitEpisode(r) ==
    /\ Handles(r, "extracting")
    /\ context[r] = "live"
    /\ ingested' = ingested \cup {Content[Handled(r)]}
    /\ Goes(r, "ack")
    /\ UNCHANGED <<serverVars, pulled, context, withdrawn, failures, calm>>

\* Mutant: one delivery too early.
SpentEarly(number) == number + 1 >= MaxDeliver

Spent(number) == number >= MaxDeliver

\* Mutant: an error is acked.
RefusalAcked(r) == {"ack"}

\* What handle answers to an error: a delete is always refused, an upsert terminated when
\* its deliveries are used up.  If their number cannot be read, it is refused too.
Refusal(r) ==
    {"nak"} \cup (IF Body[Handled(r)] = "upsert" /\ Spent(handling[r].delivery.number)
                 THEN {"term"} ELSE {})

\* The model, the database or the deadline fails what the handler is doing; a cancelled
\* context fails everything.
Fail(r) ==
    /\ \/ Handles(r, "decoding") /\ Body[Handled(r)] \in {"upsert", "delete"}
       \/ Handles(r, "extracting")
    /\ calm => context[r] # "live"
    /\ \E answer \in Refusal(r) : Goes(r, answer)
    /\ failures' = IF context[r] = "live"
                   THEN [failures EXCEPT ![Handled(r)] = IF @ < MaxDeliver THEN @ + 1 ELSE @]
                   ELSE failures
    /\ UNCHANGED <<serverVars, pulled, context, storeVars, calm>>

\* The transaction commits and the answer to COMMIT is lost: an error to the handler.
CommitUnanswered(r) ==
    /\ Handles(r, "extracting")
    /\ context[r] = "live" /\ ~calm
    /\ ingested' = ingested \cup {Content[Handled(r)]}
    /\ \E answer \in Refusal(r) : Goes(r, answer)
    /\ failures' = [failures EXCEPT ![Handled(r)] = IF @ < MaxDeliver THEN @ + 1 ELSE @]
    /\ UNCHANGED <<serverVars, pulled, context, withdrawn, calm>>

\* Mutant: handle returns without answering.
AnswersNothing(r) ==
    /\ handling[r] # None /\ handling[r].step \in {"ack", "nak", "term"}
    /\ handling' = [handling EXCEPT ![r] = None]
    /\ UNCHANGED <<serverVars, pulled, context, storeVars, failures, calm>>

\* Ack, Nak or Term: sent and not waited for.
Reply(r) ==
    /\ handling[r] # None /\ handling[r].step \in {"ack", "nak", "term"}
    /\ Answer(Handled(r), handling[r].step)
    /\ handling' = [handling EXCEPT ![r] = None]
    /\ UNCHANGED <<delivered, pulled, context, storeVars, failures, calm>>

\* The connection drops it.
ReplyLost(r) ==
    /\ ~calm
    /\ handling[r] # None /\ handling[r].step \in {"ack", "nak", "term"}
    /\ handling' = [handling EXCEPT ![r] = None]
    /\ UNCHANGED <<serverVars, pulled, context, storeVars, failures, calm>>

-----------------------------------------------------------------------------
(* A replica's life. *)

\* SIGTERM cancels the context handlers run in; the HTTP server is shut down first, the
\* consumer goes on until the deferred Stop.
Signal(r) ==
    /\ ~calm
    /\ context[r] = "live"
    /\ context' = [context EXCEPT ![r] = "cancelled"]
    /\ UNCHANGED <<serverVars, pulled, handling, storeVars, failures, calm>>

\* Drain: no more pulls; what was pulled is still handed to the handler.
Stop(r) ==
    /\ context[r] = "cancelled"
    /\ context' = [context EXCEPT ![r] = "draining"]
    /\ UNCHANGED <<serverVars, pulled, handling, storeVars, failures, calm>>

\* The process ends, after Stop or without: nobody waits for the drain.
Exit(r) ==
    /\ context[r] # "gone"
    /\ calm => context[r] # "live"
    /\ context' = [context EXCEPT ![r] = "gone"]
    /\ pulled' = [pulled EXCEPT ![r] = <<>>]
    /\ handling' = [handling EXCEPT ![r] = None]
    /\ UNCHANGED <<serverVars, storeVars, failures, calm>>

Restart(r) ==
    /\ context[r] = "gone"
    /\ context' = [context EXCEPT ![r] = "live"]
    /\ UNCHANGED <<serverVars, pulled, handling, storeVars, failures, calm>>

\* From now on nothing fails, no answer is lost and no replica stops.
Calm ==
    /\ ~calm
    /\ \A r \in Replica : context[r] \in {"live", "gone"}
    /\ calm' = TRUE
    /\ UNCHANGED <<serverVars, replicaVars, storeVars, failures>>

-----------------------------------------------------------------------------
Handle(r) ==
    \/ Take(r)
    \/ Dismiss(r)
    \/ PropagateDelete(r)
    \/ CheckLog(r)
    \/ CommitEpisode(r)
    \/ Fail(r)
    \/ Reply(r)

Next ==
    \/ \E r \in Replica :
          \/ \E m \in Message : Pull(r, m)
          \/ Handle(r)
          \/ CommitUnanswered(r)
          \/ ReplyLost(r)
          \/ Signal(r)
          \/ Stop(r)
          \/ Exit(r)
          \/ Restart(r)
    \/ \E m \in Message : AckExpires(m)
    \/ Calm

Spec == Init /\ [][Next]_vars

\* A handler that can go on does (its deadline ends what hangs), a shutdown ends (its 30
\* seconds do), a replica that stopped is started again, the ack timer runs, and the server
\* serves a replica that keeps asking (strongly: replicas come and go).  Nothing obliges the
\* environment to fail or to be calm.
Fairness ==
    /\ \A r \in Replica : /\ WF_vars(Handle(r))
                          /\ WF_vars(Stop(r))
                          /\ WF_vars(context[r] = "draining" /\ Exit(r))
                          /\ WF_vars(Restart(r))
                          /\ SF_vars(\E m \in Message : Pull(r, m))
    /\ \A m \in Message : WF_vars(AckExpires(m))

FairSpec == Spec /\ Fairness

-----------------------------------------------------------------------------
(* Properties. *)

TypeOK ==
    /\ status \in [Message -> Status]
    /\ delivered \in [Message -> 0..MaxDeliver]
    /\ \A r \in Replica : /\ pulled[r] \in Seq(Delivery) /\ Len(pulled[r]) <= MaxInflight
                          /\ handling[r] # None =>
                                handling[r] \in [delivery : Delivery, step : Step]
    /\ context \in [Replica -> {"live", "cancelled", "draining", "gone"}]
    /\ failures \in [Message -> 0..MaxDeliver]
    /\ calm \in BOOLEAN

\* Whether what a message asks for has been done.
Done(m) ==
    CASE Body[m] = "upsert" -> Content[m] \in ingested
      [] Body[m] = "delete" -> Content[m] \in withdrawn
      [] OTHER -> TRUE

\* An acked message is done, whichever delivery was answered, however often it was
\* delivered and wherever a replica stopped: nothing is acked and lost.
AckedIsDone == \A m \in Message : status[m] = "acked" => Done(m)

\* A message that could succeed is given up only when its deliveries are used up.
GivenUpIsSpent ==
    \A m \in Message :
        status[m] = "terminated" /\ Body[m] \in {"thin", "upsert", "delete"} =>
            delivered[m] = MaxDeliver

\* Every message is settled in the end: it neither holds one of the unanswered places nor
\* comes back for ever.
EveryMessageSettles == \A m \in Message : <>[](status[m] \in Settled)

\* Once the environment is calm, a message that has deliveries left is done and acked,
\* whatever its past and whatever poison is around it - if no replica still holds an older
\* delivery of it, whose late nak would count against the new one.
CalmDelivers ==
    \A m \in Message :
        calm /\ status[m] = "pending" /\ ~Held(m) /\ Body[m] \in {"thin", "upsert", "delete"}
            ~> status[m] = "acked" /\ Done(m)

-----------------------------------------------------------------------------
(* What the repository says and the code does not keep. *)

\* consumer.go:213-215: an error is refused "with backoff", to be tried again when what is
\* transient is over; a shutdown (main.go:43-44: the signal "unwinds the consumer, the jobs
\* and the HTTP server in that order") is no error of the message.  A replica that was
\* signalled goes on consuming with a cancelled context, refusing the same message until
\* its deliveries are used up.
ShutdownCostsNoMessage ==
    \A m \in Message :
        status[m] = "terminated" /\ Body[m] = "upsert" => failures[m] > 0
=============================================================================
