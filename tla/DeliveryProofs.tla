---------------------------- MODULE DeliveryProofs ----------------------------
(***************************************************************************)
(* For any number of messages, replicas, deliveries and unanswered places: *)
(* what is acked is done, and nothing that could succeed is given up       *)
(* before its deliveries are used up.                                      *)
(***************************************************************************)
EXTENDS Delivery, TLAPS

Worth == {"thin", "upsert", "delete"}

\* A log is what the tables say was done: contents committed, documents withdrawn.
Log == [ingested |-> ingested, withdrawn |-> withdrawn]

DoneBy(m, log) ==
    /\ Body[m] = "upsert" => Content[m] \in log.ingested
    /\ Body[m] = "delete" => Content[m] \in log.withdrawn

\* A delivery is one of those the server has made.
Made(d, counts) == d \in Delivery /\ d.number <= counts[d.message]

\* What a handler is about to answer is justified already: the message is done before it is
\* acked, and its deliveries are used up before it is terminated.
Justified(h, counts, log) ==
    h # None =>
        /\ h \in [delivery : Delivery, step : Step]
        /\ Made(h.delivery, counts)
        /\ h.step = "extracting" => Body[h.delivery.message] = "upsert"
        /\ h.step = "ack" => DoneBy(h.delivery.message, log)
        /\ h.step = "term" /\ Body[h.delivery.message] \in Worth =>
              counts[h.delivery.message] = MaxDeliver

\* What the server holds of a message is justified too.
Counted(m, state, count, log) ==
    /\ state \in Status
    /\ count \in 0..MaxDeliver
    /\ state = "pending" => count < MaxDeliver
    /\ state = "acked" => DoneBy(m, log)
    /\ state = "terminated" /\ Body[m] \in Worth => count = MaxDeliver

Queued(queue, counts) ==
    /\ queue \in Seq(Delivery)
    /\ Len(queue) <= MaxInflight
    /\ \A n \in 1..Len(queue) : Made(queue[n], counts)

IsFunction(f, S) == f = [x \in S |-> f[x]]

Shaped ==
    /\ IsFunction(status, Message)
    /\ IsFunction(delivered, Message)
    /\ IsFunction(pulled, Replica)
    /\ IsFunction(handling, Replica)
    /\ context \in [Replica -> {"live", "cancelled", "draining", "gone"}]
    /\ failures \in [Message -> 0..MaxDeliver]
    /\ calm \in BOOLEAN

DeliveryInv ==
    /\ Shaped
    /\ \A m \in Message : Counted(m, status[m], delivered[m], Log)
    /\ \A r \in Replica : Queued(pulled[r], delivered)
    /\ \A r \in Replica : Justified(handling[r], delivered, Log)

LEMMA DoneIsDoneBy == \A m : Done(m) <=> DoneBy(m, Log)
  BY DEF Done, DoneBy, Log

LEMMA InitDelivery == Init => DeliveryInv
  <1> SUFFICES ASSUME Init PROVE DeliveryInv
    OBVIOUS
  <1> USE BudgetAssumption
  <1>1. /\ IsFunction(status, Message) /\ IsFunction(delivered, Message)
        /\ IsFunction(pulled, Replica) /\ IsFunction(handling, Replica)
    BY DEF Init, IsFunction
  <1>2. failures \in [Message -> 0..MaxDeliver]
    BY DEF Init
  <1>3. context \in [Replica -> {"live", "cancelled", "draining", "gone"}] /\ calm \in BOOLEAN
    BY DEF Init
  <1>4. \A m \in Message : Counted(m, status[m], delivered[m], Log)
    BY DEF Init, Counted, Status
  <1>5. \A r \in Replica : Queued(pulled[r], delivered)
    BY DEF Init, Queued
  <1>6. \A r \in Replica : Justified(handling[r], delivered, Log)
    BY DEF Init, Justified
  <1>7. QED
    BY <1>1, <1>2, <1>3, <1>4, <1>5, <1>6 DEF DeliveryInv, Shaped

\* Deliveries are only ever made, and what is done stays done.
LEMMA StaysJustified ==
    ASSUME NEW counts, NEW countsNext, NEW log, NEW logNext,
           \A m \in Message : /\ counts[m] \in 0..MaxDeliver /\ countsNext[m] \in 0..MaxDeliver
                              /\ counts[m] <= countsNext[m],
           log.ingested \subseteq logNext.ingested, log.withdrawn \subseteq logNext.withdrawn
    PROVE  /\ \A m : DoneBy(m, log) => DoneBy(m, logNext)
           /\ \A d : Made(d, counts) => Made(d, countsNext)
           /\ \A queue : Queued(queue, counts) => Queued(queue, countsNext)
           /\ \A h : Justified(h, counts, log) => Justified(h, countsNext, logNext)
  <1> USE BudgetAssumption
  <1>1. \A m : DoneBy(m, log) => DoneBy(m, logNext)
    BY DEF DoneBy
  <1>2. \A d \in Delivery : d.message \in Message /\ d.number \in Nat
    BY DEF Delivery
  <1>3. ASSUME NEW d, Made(d, counts) PROVE Made(d, countsNext)
    <2>1. d \in Delivery /\ d.message \in Message /\ d.number \in Nat
          /\ d.number <= counts[d.message]
      BY <1>2, <1>3 DEF Made
    <2>2. /\ counts[d.message] \in Nat /\ countsNext[d.message] \in Nat
          /\ counts[d.message] <= countsNext[d.message]
      BY <2>1
    <2>3. QED
      BY <2>1, <2>2 DEF Made
  <1>4. \A queue : Queued(queue, counts) => Queued(queue, countsNext)
    BY <1>3 DEF Queued
  <1>5. ASSUME NEW h, Justified(h, counts, log) PROVE Justified(h, countsNext, logNext)
    <2>1. SUFFICES ASSUME h # None PROVE Justified(h, countsNext, logNext)
      BY DEF Justified
    <2>2. h.delivery.message \in Message /\ Made(h.delivery, countsNext)
      BY <1>2, <1>3, <1>5, <2>1 DEF Justified
    <2>3. counts[h.delivery.message] = MaxDeliver => countsNext[h.delivery.message] = MaxDeliver
      BY <2>2
    <2>4. QED
      BY <1>1, <1>5, <2>1, <2>2, <2>3 DEF Justified
  <1>6. QED
    BY <1>1, <1>3, <1>4, <1>5

\* The steps of a replica: nothing changes at the server, and queues and handlers stay
\* justified by what has been delivered and done.
LEMMA ServerUntouched ==
    ASSUME DeliveryInv, Shaped', UNCHANGED serverVars,
           ingested \subseteq ingested', withdrawn \subseteq withdrawn',
           \A r \in Replica : pulled'[r] = pulled[r] \/ Queued(pulled'[r], delivered),
           \A r \in Replica : handling'[r] = handling[r]
                              \/ Justified(handling'[r], delivered, Log')
    PROVE  DeliveryInv'
  <1>1. /\ status' = status /\ delivered' = delivered
        /\ \A m \in Message : delivered[m] \in 0..MaxDeliver /\ delivered[m] <= delivered'[m]
    BY BudgetAssumption DEF serverVars, DeliveryInv, Counted
  <1>2. Log.ingested \subseteq Log'.ingested /\ Log.withdrawn \subseteq Log'.withdrawn
    BY DEF Log
  <1>3. /\ \A m : DoneBy(m, Log) => DoneBy(m, Log')
        /\ \A h : Justified(h, delivered, Log) => Justified(h, delivered, Log')
    BY <1>1, <1>2, StaysJustified
  <1>4. \A m \in Message : Counted(m, status'[m], delivered'[m], Log')
    BY <1>1, <1>3 DEF DeliveryInv, Counted
  <1>5. \A r \in Replica : Queued(pulled'[r], delivered')
    BY <1>1 DEF DeliveryInv
  <1>6. \A r \in Replica : Justified(handling'[r], delivered', Log')
    BY <1>1, <1>3 DEF DeliveryInv
  <1>7. QED
    BY <1>4, <1>5, <1>6 DEF DeliveryInv

\* A handler goes one step further.
LEMMA GoesOn ==
    ASSUME DeliveryInv, NEW r \in Replica, NEW s \in Step, handling[r] # None, Goes(r, s),
           UNCHANGED <<serverVars, pulled, context, calm>>,
           failures' \in [Message -> 0..MaxDeliver],
           ingested \subseteq ingested', withdrawn \subseteq withdrawn',
           s = "extracting" => Body[Handled(r)] = "upsert",
           s = "ack" => DoneBy(Handled(r), Log'),
           s # "term" \/ Body[Handled(r)] \notin Worth \/ delivered[Handled(r)] = MaxDeliver
    PROVE  DeliveryInv'
  <1>1. Justified(handling[r], delivered, Log) /\ IsFunction(handling, Replica)
    BY DEF DeliveryInv, Shaped
  <1>2. Shaped'
    BY <1>1 DEF DeliveryInv, Shaped, IsFunction, Goes, serverVars
  <1>3. /\ handling'[r] = [handling[r] EXCEPT !.step = s]
        /\ \A q \in Replica \ {r} : handling'[q] = handling[q]
    BY <1>1 DEF Goes, IsFunction
  <1>4. /\ handling[r] \in [delivery : Delivery, step : Step]
        /\ Made(handling[r].delivery, delivered)
    BY <1>1 DEF Justified
  <1>5. /\ handling'[r] \in [delivery : Delivery, step : Step]
        /\ handling'[r].delivery = handling[r].delivery
        /\ handling'[r].step = s
    BY <1>3, <1>4
  <1>6. Justified(handling'[r], delivered, Log')
    BY <1>4, <1>5 DEF Justified, Handled
  <1>7. QED
    BY <1>2, <1>3, <1>6, ServerUntouched

-----------------------------------------------------------------------------
(* The steps of a replica, one lemma for each kind. *)

\* A delivery the handler holds is of a message, and its number is one the server gave.
LEMMA HeldIsMade ==
    ASSUME DeliveryInv, NEW r \in Replica, handling[r] # None
    PROVE  /\ Handled(r) \in Message
           /\ handling[r].delivery.number \in 1..MaxDeliver
           /\ handling[r].delivery.number <= delivered[Handled(r)]
           /\ delivered[Handled(r)] \in 0..MaxDeliver
  BY BudgetAssumption DEF DeliveryInv, Justified, Made, Delivery, Handled, Counted

LEMMA TakeStep ==
    ASSUME DeliveryInv, NEW r \in Replica, Take(r)
    PROVE  DeliveryInv'
  <1>1. /\ IsFunction(handling, Replica) /\ IsFunction(pulled, Replica)
        /\ Queued(pulled[r], delivered)
    BY DEF DeliveryInv, Shaped
  <1>2. Shaped'
    BY <1>1 DEF DeliveryInv, Shaped, IsFunction, Take, serverVars
  <1>3. /\ handling'[r] = [delivery |-> Head(pulled[r]), step |-> "decoding"]
        /\ pulled'[r] = Tail(pulled[r])
        /\ \A q \in Replica \ {r} : handling'[q] = handling[q] /\ pulled'[q] = pulled[q]
    BY <1>1 DEF Take, IsFunction
  <1> DEFINE queue == pulled[r]
  <1>4. /\ queue \in Seq(Delivery) /\ queue # <<>> /\ Len(queue) <= MaxInflight
        /\ \A n \in 1..Len(queue) : Made(queue[n], delivered)
    BY <1>1 DEF Take, Queued
  <1>5. Queued(Tail(queue), delivered)
    <2>1. /\ Tail(queue) \in Seq(Delivery) /\ Len(Tail(queue)) = Len(queue) - 1
          /\ \A n \in 1..Len(Tail(queue)) : Tail(queue)[n] = queue[n + 1]
      BY <1>4
    <2>2. Len(queue) \in Nat
      BY <1>4
    <2>3. \A n \in 1..Len(Tail(queue)) : n + 1 \in 1..Len(queue)
      BY <2>1, <2>2
    <2>4. QED
      BY <1>4, <2>1, <2>2, <2>3, BudgetAssumption DEF Queued
  <1>6. Head(queue) \in Delivery /\ Made(Head(queue), delivered)
    BY <1>4 DEF Made
  <1>7. Justified(handling'[r], delivered, Log')
    BY <1>3, <1>6 DEF Justified, Step
  <1>8. QED
    BY <1>2, <1>3, <1>5, <1>7, ServerUntouched DEF Take, storeVars

LEMMA DismissStep ==
    ASSUME DeliveryInv, NEW r \in Replica, Dismiss(r)
    PROVE  DeliveryInv'
  <1>1. handling[r] # None /\ failures' \in [Message -> 0..MaxDeliver]
    BY DEF Dismiss, Handles, DeliveryInv, Shaped
  <1>2. CASE Body[Handled(r)] \in {"undecodable", "invalid"} /\ Goes(r, "term")
    BY <1>1, <1>2, GoesOn DEF Dismiss, storeVars, Step, Worth
  <1>3. CASE Body[Handled(r)] = "thin" /\ Goes(r, "ack")
    <2>1. DoneBy(Handled(r), Log')
      BY <1>3 DEF DoneBy
    <2>2. QED
      BY <1>1, <1>3, <2>1, GoesOn DEF Dismiss, storeVars, Step
  <1>4. QED
    BY <1>2, <1>3 DEF Dismiss

LEMMA PropagateDeleteStep ==
    ASSUME DeliveryInv, NEW r \in Replica, PropagateDelete(r)
    PROVE  DeliveryInv'
  <1>1. handling[r] # None /\ failures' \in [Message -> 0..MaxDeliver]
    BY DEF PropagateDelete, Handles, DeliveryInv, Shaped
  <1>2. DoneBy(Handled(r), Log')
    BY DEF PropagateDelete, DoneBy, Log
  <1>3. QED
    BY <1>1, <1>2, GoesOn DEF PropagateDelete, Step

LEMMA CheckLogStep ==
    ASSUME DeliveryInv, NEW r \in Replica, CheckLog(r)
    PROVE  DeliveryInv'
  <1>1. handling[r] # None /\ failures' \in [Message -> 0..MaxDeliver]
    BY DEF CheckLog, Handles, DeliveryInv, Shaped
  <1>2. CASE Content[Handled(r)] \in ingested
    <2>1. DoneBy(Handled(r), Log') /\ Goes(r, "ack")
      BY <1>2 DEF CheckLog, DoneBy, Log, storeVars
    <2>2. QED
      BY <1>1, <2>1, GoesOn DEF CheckLog, Step, storeVars
  <1>3. CASE Content[Handled(r)] \notin ingested
    BY <1>1, <1>3, GoesOn DEF CheckLog, Step, storeVars
  <1>4. QED
    BY <1>2, <1>3

LEMMA CommitEpisodeStep ==
    ASSUME DeliveryInv, NEW r \in Replica, CommitEpisode(r)
    PROVE  DeliveryInv'
  <1>1. /\ handling[r] # None /\ failures' \in [Message -> 0..MaxDeliver]
        /\ Body[Handled(r)] = "upsert"
    BY DEF CommitEpisode, Handles, Handled, DeliveryInv, Shaped, Justified
  <1>2. DoneBy(Handled(r), Log')
    BY <1>1 DEF CommitEpisode, DoneBy, Log
  <1>3. QED
    BY <1>1, <1>2, GoesOn DEF CommitEpisode, Step

\* What is refused for good has used its deliveries up.
LEMMA RefusedIsSpent ==
    ASSUME DeliveryInv, NEW r \in Replica, handling[r] # None
    PROVE  \A answer \in Refusal(r) :
              /\ answer \in Step \ {"extracting", "ack"}
              /\ answer # "term" \/ delivered[Handled(r)] = MaxDeliver
  BY HeldIsMade, BudgetAssumption DEF Refusal, Spent, Step

LEMMA Lost ==
    ASSUME DeliveryInv, NEW m \in Message,
           failures' = [failures EXCEPT ![m] = IF @ < MaxDeliver THEN @ + 1 ELSE @]
    PROVE  failures' \in [Message -> 0..MaxDeliver]
  BY BudgetAssumption DEF DeliveryInv, Shaped

LEMMA FailStep ==
    ASSUME DeliveryInv, NEW r \in Replica, Fail(r)
    PROVE  DeliveryInv'
  <1>1. handling[r] # None
    BY DEF Fail, Handles
  <1>2. failures' \in [Message -> 0..MaxDeliver]
    BY <1>1, Lost, HeldIsMade DEF Fail, DeliveryInv, Shaped
  <1>3. PICK answer \in Refusal(r) : Goes(r, answer)
    BY DEF Fail
  <1>4. /\ answer \in Step \ {"extracting", "ack"}
        /\ answer # "term" \/ delivered[Handled(r)] = MaxDeliver
    BY <1>1, <1>3, RefusedIsSpent
  <1>5. QED
    BY <1>1, <1>2, <1>3, <1>4, GoesOn DEF Fail, storeVars

LEMMA CommitUnansweredStep ==
    ASSUME DeliveryInv, NEW r \in Replica, CommitUnanswered(r)
    PROVE  DeliveryInv'
  <1>1. handling[r] # None
    BY DEF CommitUnanswered, Handles
  <1>2. failures' \in [Message -> 0..MaxDeliver]
    BY <1>1, Lost, HeldIsMade DEF CommitUnanswered
  <1>3. PICK answer \in Refusal(r) : Goes(r, answer)
    BY DEF CommitUnanswered
  <1>4. /\ answer \in Step \ {"extracting", "ack"}
        /\ answer # "term" \/ delivered[Handled(r)] = MaxDeliver
    BY <1>1, <1>3, RefusedIsSpent
  <1>5. QED
    BY <1>1, <1>2, <1>3, <1>4, GoesOn DEF CommitUnanswered

LEMMA ReplyLostStep ==
    ASSUME DeliveryInv, NEW r \in Replica, ReplyLost(r)
    PROVE  DeliveryInv'
  <1>1. IsFunction(handling, Replica)
    BY DEF DeliveryInv, Shaped
  <1>2. Shaped'
    BY <1>1 DEF DeliveryInv, Shaped, IsFunction, ReplyLost, serverVars
  <1>3. handling'[r] = None /\ \A q \in Replica \ {r} : handling'[q] = handling[q]
    BY <1>1 DEF ReplyLost, IsFunction
  <1>4. Justified(handling'[r], delivered, Log')
    BY <1>3 DEF Justified
  <1>5. QED
    BY <1>2, <1>3, <1>4, ServerUntouched DEF ReplyLost, storeVars

\* Signal, Stop, Exit and Restart: a replica drops what it holds or keeps it.
LEMMA LifeStep ==
    ASSUME DeliveryInv, NEW r \in Replica,
           Signal(r) \/ Stop(r) \/ Exit(r) \/ Restart(r)
    PROVE  DeliveryInv'
  <1>1. CASE Signal(r) \/ Stop(r) \/ Restart(r)
    <2>1. Shaped'
      BY <1>1 DEF DeliveryInv, Shaped, IsFunction, Signal, Stop, Restart, serverVars
    <2>2. QED
      BY <1>1, <2>1, ServerUntouched DEF Signal, Stop, Restart, storeVars
  <1>2. CASE Exit(r)
    <2>1. IsFunction(handling, Replica) /\ IsFunction(pulled, Replica)
      BY DEF DeliveryInv, Shaped
    <2>2. Shaped'
      BY <1>2, <2>1 DEF DeliveryInv, Shaped, IsFunction, Exit, serverVars
    <2>3. /\ handling'[r] = None /\ pulled'[r] = <<>>
          /\ \A q \in Replica \ {r} : handling'[q] = handling[q] /\ pulled'[q] = pulled[q]
      BY <1>2, <2>1 DEF Exit, IsFunction
    <2>4. Justified(handling'[r], delivered, Log') /\ Queued(pulled'[r], delivered)
      BY <2>3, BudgetAssumption DEF Justified, Queued
    <2>5. QED
      BY <1>2, <2>2, <2>3, <2>4, ServerUntouched DEF Exit, storeVars
  <1>3. QED
    BY <1>1, <1>2

LEMMA CalmStep ==
    ASSUME DeliveryInv, Calm
    PROVE  DeliveryInv'
  <1>1. Shaped'
    BY DEF DeliveryInv, Shaped, IsFunction, Calm, serverVars, replicaVars
  <1>2. QED
    BY <1>1, ServerUntouched DEF Calm, storeVars, replicaVars

-----------------------------------------------------------------------------
(* The steps of the server. *)

\* One more delivery: the older ones stay justified, and the new one is made.
LEMMA PullStep ==
    ASSUME DeliveryInv, NEW r \in Replica, NEW m \in Message, Pull(r, m)
    PROVE  DeliveryInv'
  <1> USE BudgetAssumption
  <1>1. /\ IsFunction(status, Message) /\ IsFunction(delivered, Message)
        /\ IsFunction(pulled, Replica)
    BY DEF DeliveryInv, Shaped
  <1>2. Shaped'
    BY <1>1 DEF DeliveryInv, Shaped, IsFunction, Pull
  <1>3. /\ delivered'[m] = delivered[m] + 1 /\ status'[m] = "outstanding"
        /\ \A n \in Message \ {m} : delivered'[n] = delivered[n] /\ status'[n] = status[n]
        /\ pulled'[r] = Append(pulled[r], [message |-> m, number |-> delivered'[m]])
        /\ \A q \in Replica \ {r} : pulled'[q] = pulled[q]
        /\ handling' = handling /\ Log' = Log
    BY <1>1 DEF Pull, IsFunction, Log, storeVars
  <1>4. /\ delivered[m] \in Nat /\ delivered[m] < MaxDeliver
        /\ \A n \in Message : delivered[n] \in 0..MaxDeliver
    BY DEF Pull, DeliveryInv, Counted
  <1>5. delivered'[m] \in 1..MaxDeliver
    BY <1>3, <1>4
  <1>6. \A n \in Message : delivered'[n] \in 0..MaxDeliver /\ delivered[n] <= delivered'[n]
    BY <1>3, <1>4
  <1>7. /\ \A queue : Queued(queue, delivered) => Queued(queue, delivered')
        /\ \A h : Justified(h, delivered, Log) => Justified(h, delivered', Log)
    BY <1>4, <1>6, StaysJustified
  <1>8. \A n \in Message : Counted(n, status'[n], delivered'[n], Log')
    BY <1>3, <1>5 DEF DeliveryInv, Counted, Status
  <1>9. Queued(pulled'[r], delivered')
    <2> DEFINE queue == pulled[r]
    <2> DEFINE d == [message |-> m, number |-> delivered'[m]]
    <2>1. /\ queue \in Seq(Delivery) /\ Len(queue) < MaxInflight
          /\ \A n \in 1..Len(queue) : Made(queue[n], delivered')
      BY <1>7 DEF DeliveryInv, Queued, Pull
    <2>2. d \in Delivery /\ Made(d, delivered')
      BY <1>5 DEF Delivery, Made
    <2>3. /\ Append(queue, d) \in Seq(Delivery) /\ Len(Append(queue, d)) = Len(queue) + 1
          /\ \A n \in 1..Len(queue) : Append(queue, d)[n] = queue[n]
          /\ Append(queue, d)[Len(queue) + 1] = d
      BY <2>1, <2>2
    <2>4. Len(queue) \in Nat
      BY <2>1
    <2>5. ASSUME NEW n \in 1..Len(Append(queue, d)) PROVE Made(Append(queue, d)[n], delivered')
      <3>1. n \in 1..Len(queue) \/ n = Len(queue) + 1
        BY <2>3, <2>4
      <3>2. QED
        BY <3>1, <2>1, <2>2, <2>3
    <2>6. Queued(Append(queue, d), delivered')
      <3>1. Len(Append(queue, d)) <= MaxInflight
        BY <2>1, <2>3, <2>4
      <3>2. QED
        BY <2>3, <2>5, <3>1 DEF Queued
    <2>7. QED
      BY <1>3, <2>6
  <1>10. \A q \in Replica : Queued(pulled'[q], delivered')
    BY <1>3, <1>7, <1>9 DEF DeliveryInv
  <1>11. \A q \in Replica : Justified(handling'[q], delivered', Log')
    BY <1>3, <1>7 DEF DeliveryInv
  <1>12. QED
    BY <1>2, <1>8, <1>10, <1>11 DEF DeliveryInv

\* What the server does with a message it has delivered.
LEMMA StatusStep ==
    ASSUME DeliveryInv, NEW m \in Message, NEW state,
           status' = [status EXCEPT ![m] = state],
           UNCHANGED <<delivered, pulled, context, storeVars, calm>>,
           Counted(m, state, delivered[m], Log),
           IsFunction(handling', Replica),
           \A r \in Replica : handling'[r] = handling[r] \/ handling'[r] = None,
           failures' \in [Message -> 0..MaxDeliver]
    PROVE  DeliveryInv'
  <1>1. Shaped'
    BY DEF DeliveryInv, Shaped, IsFunction
  <1>2. Log' = Log
    BY DEF Log, storeVars
  <1>3. status'[m] = state /\ \A n \in Message \ {m} : status'[n] = status[n]
    BY DEF DeliveryInv, Shaped, IsFunction
  <1>4. \A n \in Message : Counted(n, status'[n], delivered'[n], Log')
    BY <1>2, <1>3 DEF DeliveryInv
  <1>5. \A r \in Replica : Queued(pulled'[r], delivered')
    BY DEF DeliveryInv
  <1>6. \A r \in Replica : Justified(handling'[r], delivered', Log')
    BY <1>2 DEF DeliveryInv, Justified
  <1>7. QED
    BY <1>1, <1>4, <1>5, <1>6 DEF DeliveryInv

LEMMA AgainCounted ==
    ASSUME DeliveryInv, NEW m \in Message
    PROVE  Counted(m, Again(m), delivered[m], Log)
  BY BudgetAssumption DEF DeliveryInv, Counted, Again, Status

LEMMA AckExpiresStep ==
    ASSUME DeliveryInv, NEW m \in Message, AckExpires(m)
    PROVE  DeliveryInv'
  <1>1. handling' = handling /\ IsFunction(handling', Replica)
    BY DEF AckExpires, replicaVars, DeliveryInv, Shaped
  <1>2. failures' \in [Message -> 0..MaxDeliver]
    BY Lost DEF AckExpires
  <1>3. QED
    BY <1>1, <1>2, AgainCounted, StatusStep DEF AckExpires, replicaVars

\* An answer counts for what the handler was justified in answering.
LEMMA ReplyStep ==
    ASSUME DeliveryInv, NEW r \in Replica, Reply(r)
    PROVE  DeliveryInv'
  <1> DEFINE m == Handled(r)
  <1> DEFINE step == handling[r].step
  <1> DEFINE state == CASE step = "ack" /\ status[m] \notin Settled -> "acked"
                        [] step = "term" /\ status[m] \notin Settled -> "terminated"
                        [] step = "nak" /\ status[m] = "outstanding" -> Again(m)
                        [] OTHER -> status[m]
  <1>1. handling[r] # None /\ m \in Message
    BY HeldIsMade DEF Reply
  <1>2. /\ IsFunction(handling, Replica) /\ IsFunction(status, Message)
        /\ failures' \in [Message -> 0..MaxDeliver]
    BY DEF Reply, DeliveryInv, Shaped
  <1>3. /\ IsFunction(handling', Replica)
        /\ \A q \in Replica : handling'[q] = handling[q] \/ handling'[q] = None
    BY <1>2 DEF Reply, IsFunction
  <1>4. status' = [status EXCEPT ![m] = state]
    BY <1>1, <1>2 DEF Reply, Answer, IsFunction
  <1>5. /\ Counted(m, status[m], delivered[m], Log)
        /\ step = "ack" => DoneBy(m, Log)
        /\ step = "term" /\ Body[m] \in Worth => delivered[m] = MaxDeliver
    BY <1>1 DEF DeliveryInv, Justified, Handled
  <1>6. Counted(m, state, delivered[m], Log)
    <2>1. /\ Counted(m, Again(m), delivered[m], Log)
          /\ step = "ack" => Counted(m, "acked", delivered[m], Log)
          /\ step = "term" => Counted(m, "terminated", delivered[m], Log)
      BY <1>1, <1>5, AgainCounted DEF Counted, Status
    <2>2. \/ state = status[m]
          \/ state = Again(m)
          \/ step = "ack" /\ state = "acked"
          \/ step = "term" /\ state = "terminated"
      OBVIOUS
    <2>3. QED
      BY <1>5, <2>1, <2>2
  <1> HIDE DEF state, step, m
  <1>7. QED
    BY <1>1, <1>2, <1>3, <1>4, <1>6, StatusStep DEF Reply

-----------------------------------------------------------------------------
(* The theorems. *)

LEMMA NextDelivery == DeliveryInv /\ [Next]_vars => DeliveryInv'
  <1> SUFFICES ASSUME DeliveryInv, [Next]_vars PROVE DeliveryInv'
    OBVIOUS
  <1>1. ASSUME NEW r \in Replica, NEW m \in Message, Pull(r, m) PROVE DeliveryInv'
    BY <1>1, PullStep
  <1>2. ASSUME NEW r \in Replica, Handle(r) PROVE DeliveryInv'
    BY <1>2, TakeStep, DismissStep, PropagateDeleteStep, CheckLogStep, CommitEpisodeStep,
       FailStep, ReplyStep DEF Handle
  <1>3. ASSUME NEW r \in Replica, CommitUnanswered(r) \/ ReplyLost(r) PROVE DeliveryInv'
    BY <1>3, CommitUnansweredStep, ReplyLostStep
  <1>4. ASSUME NEW r \in Replica, Signal(r) \/ Stop(r) \/ Exit(r) \/ Restart(r)
        PROVE  DeliveryInv'
    BY <1>4, LifeStep
  <1>5. ASSUME NEW m \in Message, AckExpires(m) PROVE DeliveryInv'
    BY <1>5, AckExpiresStep
  <1>6. CASE Calm
    BY <1>6, CalmStep
  <1>7. CASE UNCHANGED vars
    <2>1. Shaped'
      BY <1>7 DEF DeliveryInv, Shaped, IsFunction, vars, serverVars, replicaVars
    <2>2. QED
      BY <1>7, <2>1, ServerUntouched DEF vars, storeVars, replicaVars
  <1>8. QED
    BY <1>1, <1>2, <1>3, <1>4, <1>5, <1>6, <1>7 DEF Next

LEMMA DeliveryInvHolds == Spec => []DeliveryInv
  BY InitDelivery, NextDelivery, PTL DEF Spec

\* The server, the queues, the handlers and the replicas keep their types: no message is
\* delivered more often than the budget allows, and no replica pulls ahead of its bound.
THEOREM DeliveryTypeCorrect == Spec => []TypeOK
  <1>1. DeliveryInv => TypeOK
    <2> SUFFICES ASSUME DeliveryInv PROVE TypeOK
      OBVIOUS
    <2>1. status \in [Message -> Status] /\ delivered \in [Message -> 0..MaxDeliver]
      BY DEF DeliveryInv, Shaped, IsFunction, Counted
    <2>2. /\ context \in [Replica -> {"live", "cancelled", "draining", "gone"}]
          /\ failures \in [Message -> 0..MaxDeliver] /\ calm \in BOOLEAN
      BY DEF DeliveryInv, Shaped
    <2>3. \A r \in Replica : /\ pulled[r] \in Seq(Delivery) /\ Len(pulled[r]) <= MaxInflight
                             /\ handling[r] # None =>
                                   handling[r] \in [delivery : Delivery, step : Step]
      BY DEF DeliveryInv, Queued, Justified
    <2>4. QED
      BY <2>1, <2>2, <2>3 DEF TypeOK
  <1>2. QED
    BY <1>1, DeliveryInvHolds, PTL

\* However messages are delivered again, answers are lost or late, and replicas crash, shut
\* down and restart: a message that is acked has been committed, or its document withdrawn.
THEOREM AckedWasDone == Spec => []AckedIsDone
  <1>1. DeliveryInv => AckedIsDone
    BY DoneIsDoneBy DEF DeliveryInv, Counted, AckedIsDone
  <1>2. QED
    BY <1>1, DeliveryInvHolds, PTL

\* No upsert, delete or thin message is terminated before its last delivery, by whichever
\* of its deliveries and on whichever replica.
THEOREM GivenUpWasSpent == Spec => []GivenUpIsSpent
  <1>1. DeliveryInv => GivenUpIsSpent
    BY DEF DeliveryInv, Counted, GivenUpIsSpent, Worth
  <1>2. QED
    BY <1>1, DeliveryInvHolds, PTL
=============================================================================
