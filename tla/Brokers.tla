------------------------------- MODULE Brokers --------------------------------
(***************************************************************************)
(* The effects over message brokers: Rabbit, SQS and Kafka.  A consumer    *)
(* gets a message with an opaque ack_id, processes it, and acknowledges it *)
(* by that id (ack, delete_message, commit), which the provider resolves   *)
(* in a table of its own before it calls the broker.                       *)
(*                                                                         *)
(* The brokers are external, modelled from what the providers ask of them. *)
(* Rabbit keeps a message out of its queue while the channel it went to is *)
(* open, SQS for a while; Kafka has one position per group, which a commit *)
(* sets and from which a new reader starts.  One queue or partition, of    *)
(* one message per number; its readers are goroutines of one program, that *)
(* may end and start again.                                                *)
(***************************************************************************)
EXTENDS Naturals, FiniteSets

CONSTANTS
    Systems,        \* subset of {"rabbit", "sqs", "kafka"}
    Workers,        \* goroutines that consume
    MaxMessages,    \* bound: messages published
    MaxFaults       \* bound: connections lost, restarts, jobs given up, calls
                    \* that failed and answers that came too late

ASSUME BrokersAssumption ==
    /\ Systems \subseteq {"rabbit", "sqs", "kafka"}
    /\ MaxMessages \in Nat /\ MaxFaults \in Nat

VARIABLES
    system,     \* which of them
    published,  \* the number of messages published: they are 1..published
    queue,      \* rabbit, sqs: the messages ready to be delivered
    out,        \* rabbit, sqs: the deliveries not acknowledged: message, channel
    committed,  \* kafka: the last message the group has committed
    position,   \* kafka: the last message the reader has fetched
    channel,    \* rabbit: the channels opened so far; the last one is in use
    consumer,   \* rabbit: the channel of the cached deliveries, 0 for none
    table,      \* tagsByID, receipts, messages: of each known ack_id, its delivery
    reads,      \* the last ack_id given
    holds,      \* per worker: the ack_id and delivery it works on, NoTask
    processed,  \* the messages processed (history)
    confirmed,  \* the deliveries whose acknowledgement returned "ok" (history)
    acks,       \* rabbit: the acknowledgements written that the broker has not read
    faults

brVars == <<system, published, queue, out, committed, position, channel, consumer,
            table, reads, holds, processed, confirmed, acks, faults>>

Messages == 1..MaxMessages
Delivery == [message : Messages, channel : 0..MaxFaults + 1]
NoTask == [id |-> 0, stage |-> "none"]
Task == {NoTask} \cup [id : Nat, stage : {"working", "done", "acking"}, of : Delivery]

BrTypeOK ==
    /\ system \in Systems
    /\ published \in 0..MaxMessages
    /\ queue \subseteq 1..published
    /\ out \subseteq Delivery
    /\ committed \in 0..published /\ position \in 0..published
    /\ channel \in 0..MaxFaults + 1 /\ consumer \in 0..channel
    /\ DOMAIN table \subseteq 1..reads /\ \A id \in DOMAIN table : table[id] \in Delivery
    /\ reads \in Nat
    /\ holds \in [Workers -> Task]
    /\ processed \subseteq 1..published
    /\ confirmed \subseteq Delivery /\ acks \subseteq confirmed
    /\ faults \in 0..MaxFaults

BrInit ==
    /\ system \in Systems
    /\ published = 0 /\ queue = {} /\ out = {}
    /\ committed = 0 /\ position = 0
    /\ channel = 0 /\ consumer = 0
    /\ table = <<>> /\ reads = 0
    /\ holds = [w \in Workers |-> NoTask]
    /\ processed = {} /\ confirmed = {} /\ acks = {} /\ faults = 0

Another ==
    /\ published < MaxMessages
    /\ published' = published + 1
    /\ UNCHANGED <<system, out, committed, position, channel, consumer, table, reads,
                   holds, processed, confirmed, acks, faults>>

\* Rabbit.publish, SQS.send_message.
Publish == system = "rabbit" /\ Another /\ queue' = queue \cup {published + 1}
SendMessage == system = "sqs" /\ Another /\ queue' = queue \cup {published + 1}

\* Kafka.write_message: behind what the partition has.
WriteMessage == system = "kafka" /\ Another /\ UNCHANGED queue

-----------------------------------------------------------------------------
(* Reading. *)

\* What Store could be, were ids the number of those in the table.
StoreByCount(w, d) ==
    LET id == Cardinality(DOMAIN table) + 1 IN
    /\ table' = [i \in DOMAIN table \cup {id} |-> IF i = id THEN d ELSE table[i]]
    /\ holds' = [holds EXCEPT ![w] = [id |-> id, stage |-> "working", of |-> d]]
    /\ UNCHANGED reads

\* storeDelivery, storeReceipt, storeMessage.
Store(w, d) ==
    /\ reads' = reads + 1
    /\ table' = [id \in DOMAIN table \cup {reads + 1} |->
                    IF id = reads + 1 THEN d ELSE table[id]]
    /\ holds' = [holds EXCEPT ![w] = [id |-> reads + 1, stage |-> "working", of |-> d]]

Free(w) == holds[w] = NoTask

\* openChannel and startConsumer: a closed channel is replaced, the cached
\* deliveries are kept.
StartConsumer ==
    /\ system = "rabbit" /\ consumer = 0
    /\ channel' = IF channel = 0 THEN 1 ELSE channel
    /\ consumer' = channel'
    /\ UNCHANGED <<system, published, queue, out, committed, position, table, reads,
                   holds, processed, confirmed, acks, faults>>

\* Rabbit.consume, when the cached deliveries have one.  Those of a closed
\* channel are over, and consume is an error from then on.
ConsumeRabbit(w) ==
    /\ system = "rabbit" /\ Free(w)
    /\ consumer # 0 /\ consumer = channel
    /\ \E m \in queue :
         LET d == [message |-> m, channel |-> channel] IN
         /\ queue' = queue \ {m}
         /\ out' = out \cup {d}
         /\ Store(w, d)
    /\ UNCHANGED <<system, published, committed, position, channel, consumer,
                   processed, confirmed, acks, faults>>

ReceiveSQS(w) ==
    /\ system = "sqs" /\ Free(w)
    /\ \E m \in queue :
         LET d == [message |-> m, channel |-> 0] IN
         /\ queue' = queue \ {m}
         /\ out' = out \cup {d}
         /\ Store(w, d)
    /\ UNCHANGED <<system, published, committed, position, channel, consumer,
                   processed, confirmed, acks, faults>>

\* Kafka.read_message.
FetchKafka(w) ==
    /\ system = "kafka" /\ Free(w)
    /\ position < published
    /\ position' = position + 1
    /\ Store(w, [message |-> position + 1, channel |-> 0])
    /\ UNCHANGED <<system, published, queue, out, committed, channel, consumer,
                   processed, confirmed, acks, faults>>

-----------------------------------------------------------------------------
(* Working, outside of the providers. *)

Process(w) ==
    /\ holds[w].stage = "working"
    /\ processed' = processed \cup {holds[w].of.message}
    /\ holds' = [holds EXCEPT ![w].stage = "done"]
    /\ UNCHANGED <<system, published, queue, out, committed, position, channel,
                   consumer, table, reads, confirmed, acks, faults>>

\* What failed is not acknowledged, as the documentation has it.
GiveUp(w) ==
    /\ faults < MaxFaults /\ faults' = faults + 1
    /\ holds[w].stage = "working"
    /\ holds' = [holds EXCEPT ![w] = NoTask]
    /\ UNCHANGED <<system, published, queue, out, committed, position, channel,
                   consumer, table, reads, processed, confirmed, acks>>

-----------------------------------------------------------------------------
(* Acknowledging: first the table, under its lock, then the broker. *)

\* What LookUp could be: acknowledging before the message is processed.
LookUpEarly(w) ==
    /\ holds[w].stage \in {"working", "done"} /\ holds[w].id \in DOMAIN table
    /\ table' = [id \in DOMAIN table \ {holds[w].id} |-> table[id]]
    /\ holds' = [holds EXCEPT ![w].stage = "acking"]
    /\ UNCHANGED <<system, published, queue, out, committed, position, channel,
                   consumer, reads, processed, confirmed, acks, faults>>

LookUp(w) ==
    /\ holds[w].stage = "done" /\ holds[w].id \in DOMAIN table
    /\ table' = [id \in DOMAIN table \ {holds[w].id} |-> table[id]]
    /\ holds' = [holds EXCEPT ![w].stage = "acking"]
    /\ UNCHANGED <<system, published, queue, out, committed, position, channel,
                   consumer, reads, processed, confirmed, acks, faults>>

Acknowledged(w, d) ==
    /\ holds[w].stage = "acking" /\ d = holds[w].of
    /\ confirmed' = confirmed \cup {d}
    /\ holds' = [holds EXCEPT ![w] = NoTask]
    /\ UNCHANGED <<system, published, position, channel, consumer, table, reads,
                   processed, faults>>

\* What AckRabbit could be, were a delivery acknowledged by its number on
\* whatever channel is open: it takes the place of another.
AckRabbitByNumber(w) ==
    /\ system = "rabbit" /\ \E d \in Delivery : Acknowledged(w, d)
    /\ \E d \in IF out = {} THEN {holds[w].of} ELSE out :
         out' = out \ {d} /\ queue' = queue \ {d.message}
    /\ UNCHANGED <<committed, acks>>

\* Delivery.Ack: on its own channel only, and not once that is closed.  It is
\* "ok" when the frame is written; nobody waits for the broker.
AckRabbit(w) ==
    /\ system = "rabbit"
    /\ \E d \in Delivery :
         /\ d.channel = channel /\ Acknowledged(w, d)
         /\ acks' = acks \cup {d}
    /\ UNCHANGED <<queue, out, committed>>

\* The broker reads an acknowledgement, and lets go of the delivery.
BrokerReadsAck ==
    /\ \E d \in acks : acks' = acks \ {d} /\ out' = out \ {d}
    /\ UNCHANGED <<system, published, queue, committed, position, channel, consumer,
                   table, reads, holds, processed, confirmed, faults>>

\* delete_message: a receipt that is not the last one may have no effect.
DeleteSQS(w) ==
    /\ system = "sqs"
    /\ \E d \in Delivery :
         /\ Acknowledged(w, d)
         /\ \/ out' = out \ {d} /\ queue' = queue \ {d.message}
            \/ d.message \in queue /\ UNCHANGED <<queue, out>>
    /\ UNCHANGED <<committed, acks>>

\* CommitMessages: the position of the group, wherever it was.
CommitKafka(w) ==
    /\ system = "kafka"
    /\ \E d \in Delivery : Acknowledged(w, d) /\ committed' = d.message
    /\ UNCHANGED <<queue, out, acks>>

\* The call failed, as it must on a closed channel: the id is forgotten, the
\* message is not.
AckFails(w) ==
    /\ holds[w].stage = "acking"
    /\ IF system = "rabbit" /\ holds[w].of.channel # channel THEN UNCHANGED faults
       ELSE faults < MaxFaults /\ faults' = faults + 1
    /\ holds' = [holds EXCEPT ![w] = NoTask]
    /\ UNCHANGED <<system, published, queue, out, committed, position, channel,
                   consumer, table, reads, processed, confirmed, acks>>

-----------------------------------------------------------------------------
(* What happens to the program. *)

\* The messages delivered on channels that are now closed are ready again.
Returned == queue \cup {d.message : d \in out}

\* The connection is lost, with what was written to it and not read, and opened
\* again by the next call (dial, openChannel).
LoseConnection ==
    /\ system = "rabbit" /\ channel # 0 /\ faults < MaxFaults
    /\ faults' = faults + 1
    /\ channel' = channel + 1
    /\ queue' = Returned /\ out' = {} /\ acks' = {}
    /\ UNCHANGED <<system, published, committed, position, consumer, table, reads,
                   holds, processed, confirmed>>

\* SQS shows a message again that was not deleted in time, also while a
\* worker is still at it.
Reappear ==
    /\ system = "sqs"
    /\ \E d \in out :
         /\ queue' = queue \cup {d.message} /\ out' = out \ {d}
         /\ IF \E w \in Workers : holds[w] # NoTask /\ holds[w].of = d
            THEN faults < MaxFaults /\ faults' = faults + 1
            ELSE UNCHANGED faults
    /\ UNCHANGED <<system, published, committed, position, channel, consumer, table,
                   reads, holds, processed, confirmed, acks>>

\* The program dies and starts again, with new connections and tables.
Restart ==
    /\ faults < MaxFaults
    /\ faults' = faults + 1
    /\ table' = <<>> /\ holds' = [w \in Workers |-> NoTask]
    /\ consumer' = 0 /\ channel' = IF system = "rabbit" THEN channel + 1 ELSE channel
    /\ IF system = "rabbit" THEN queue' = Returned /\ out' = {} ELSE UNCHANGED <<queue, out>>
    /\ position' = committed /\ acks' = {}
    /\ UNCHANGED <<system, published, committed, reads, processed, confirmed>>

WorkerStep(w) ==
    \/ ConsumeRabbit(w) \/ ReceiveSQS(w) \/ FetchKafka(w)
    \/ Process(w) \/ LookUp(w)
    \/ AckRabbit(w) \/ DeleteSQS(w) \/ CommitKafka(w) \/ AckFails(w)

BrNext ==
    \/ Publish \/ SendMessage \/ WriteMessage \/ StartConsumer
    \/ BrokerReadsAck \/ LoseConnection \/ Reappear \/ Restart
    \/ \E w \in Workers : WorkerStep(w) \/ GiveUp(w)

BrSpec == BrInit /\ [][BrNext]_brVars

\* Workers call again whenever they are free and finish what they hold; SQS
\* shows again what was not deleted.  What fails is bounded: weak fairness is
\* enough.
BrFairness ==
    /\ WF_brVars(StartConsumer) /\ WF_brVars(Reappear)
    /\ \A w \in Workers : WF_brVars(WorkerStep(w))

BrFairSpec == BrSpec /\ BrFairness
-----------------------------------------------------------------------------
(* Properties. *)

\* A message that no worker has processed can still be delivered: the broker
\* has it, or will have it again.
Retained(m) ==
    \/ m \in processed
    \/ system # "kafka" /\ m \in Returned
    \/ system = "kafka" /\ (m > committed \/ \E w \in Workers :
            holds[w].stage = "working" /\ holds[w].of.message = m)

\* Whatever fails between the table and the broker, no message is lost: of
\* Kafka, unless a later one of its partition was committed, which passes it.
NothingLost ==
    \A m \in 1..published :
        Retained(m) \/ (system = "kafka" /\ \E d \in confirmed : d.message > m)

Holders(m) == {w \in Workers : holds[w] # NoTask /\ holds[w].of.message = m}

\* Rabbit.ack is for its own delivery, whatever its "ok" is worth.  The broker
\* lets go only of a message that was processed and whose own acknowledgement
\* returned "ok": none takes the place of another, also across connections.
\* And one that returned "ok" is delivered again only when the connection it
\* came over was lost, for it may have been lost before the broker had read it.
AcksAreForTheirOwn ==
    [][system = "rabbit" =>
        /\ \A m \in Returned \ Returned' :
             m \in processed /\ \E d \in confirmed : d.message = m
        /\ \A d \in confirmed, w \in Workers :
             w \in Holders(d.message)' \ Holders(d.message)
                => holds'[w].of.channel > d.channel]_brVars

\* Every message sent to SQS is processed in the end, though workers give up,
\* calls fail, answers come late and the program restarts.
SQSDelivers ==
    \A m \in Messages : system = "sqs" /\ m <= published ~> m \in processed
=============================================================================
