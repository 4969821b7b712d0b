--------------------------- MODULE BrokersProofs -----------------------------
(***************************************************************************)
(* For any number of workers, messages and faults: the types, that no      *)
(* message is lost, and that an acknowledgement of Rabbit is for its own   *)
(* delivery, and holds for as long as the connection it was written to.    *)
(*                                                                         *)
(* The inductive invariant says where a message is: with the broker until  *)
(* it is processed, and, of Rabbit, in one place at a time.  A worker may  *)
(* hold a delivery of a channel that is closed, but one of the open        *)
(* channel it holds alone.  Actors (ActorRuntimeProofs) share nothing with *)
(* brokers: in MCMessaging what is proved of each holds.                   *)
(***************************************************************************)
EXTENDS MCMessaging, ActorRuntimeProofs

Holds(w) == holds[w].stage # "none"

\* Every channel but the first was opened for a fault, and what is delivered
\* was published.
Delivered ==
    /\ channel <= faults + 1
    /\ \A d \in out : d.message \in 1..published
    /\ \A w \in Workers : Holds(w) => holds[w].of.message \in 1..published

\* What is acknowledged, or about to be, was processed.
Acknowledging ==
    /\ \A w \in Workers : holds[w].stage \in {"done", "acking"} => holds[w].of.message \in processed
    /\ \A d \in confirmed : d.message \in processed

\* Rabbit and SQS have what was not processed, Kafka committed what it was told.
Kept ==
    /\ system # "kafka" => \A m \in 1..published : m \in processed \/ m \in Returned
    /\ system = "kafka" => committed = 0 \/ \E d \in confirmed : d.message = committed

\* A message of Rabbit is in one place.  Once it is confirmed no worker has that
\* delivery, and it is ready again only for a later channel.
InOnePlace ==
    /\ \A d \in out : d.channel = channel /\ channel # 0 /\ d.message \notin queue
    /\ \A w \in Workers : Holds(w) =>
          /\ holds[w].of.channel <= channel
          /\ holds[w].of.channel = channel => holds[w].of \in out
          /\ \A v \in Workers : Holds(v) /\ holds[v].of = holds[w].of => v = w
          /\ holds[w].of \notin confirmed
    /\ \A d \in confirmed :
          d.channel <= channel /\ (d.channel = channel => d.message \notin queue)

BrInv == BrTypeOK /\ Delivered /\ Acknowledging /\ Kept /\ (system = "rabbit" => InOnePlace)

USE BrokersAssumption

LEMMA HeldTask ==
    ASSUME BrTypeOK, NEW w \in Workers
    PROVE  /\ Holds(w) => holds[w] \in [id : Nat, stage : {"working", "done", "acking"}, of : Delivery]
           /\ Holds(w) <=> holds[w] # NoTask
           /\ Free(w) <=> ~Holds(w)
<1>1. holds[w] \in Task
  BY DEF BrTypeOK
<1>2. CASE holds[w] = NoTask
  BY <1>2 DEF Holds, NoTask, Free
<1>3. CASE holds[w] \in [id : Nat, stage : {"working", "done", "acking"}, of : Delivery]
  BY <1>3 DEF Holds, NoTask, Free
<1>4. QED
  BY <1>1, <1>2, <1>3 DEF Task

LEMMA InitInv == BrInit => BrInv
<1>1. SUFFICES ASSUME BrInit PROVE BrInv
  OBVIOUS
<1>2. BrTypeOK
  BY <1>1 DEF BrInit, BrTypeOK, Task, NoTask
<1>3. \A w \in Workers : ~Holds(w) /\ holds[w].stage = "none"
  BY <1>1 DEF BrInit, Holds, NoTask
<1>4. QED
  BY <1>1, <1>2, <1>3 DEF BrInit, BrInv, Delivered, Acknowledging, Kept, InOnePlace, Returned

\* What a worker does to the tasks: it takes one, goes on to a stage, ends.
LEMMA StoreTasks ==
    ASSUME BrTypeOK, NEW w \in Workers, NEW d \in Delivery, Store(w, d)
    PROVE  /\ holds' \in [Workers -> Task]
           /\ Holds(w)' /\ holds'[w].of = d /\ holds'[w].stage = "working"
           /\ \A v \in Workers : v # w => holds'[v] = holds[v]
           /\ reads' \in Nat /\ DOMAIN table' \subseteq 1..reads'
           /\ \A id \in DOMAIN table' : table'[id] \in Delivery
<1>1. reads \in Nat /\ holds \in [Workers -> Task]
  BY DEF BrTypeOK
<1> DEFINE task == [id |-> reads + 1, stage |-> "working", of |-> d]
<1>2. task \in Task /\ task.stage = "working" /\ task.of = d
  BY <1>1 DEF Task
<1>3. holds' = [holds EXCEPT ![w] = task]
  BY DEF Store
<1> HIDE DEF task
<1>4. /\ holds' \in [Workers -> Task] /\ holds'[w] = task
      /\ \A v \in Workers : v # w => holds'[v] = holds[v]
  BY <1>1, <1>2, <1>3
<1>5. /\ reads' \in Nat /\ DOMAIN table' \subseteq 1..reads'
      /\ \A id \in DOMAIN table' : table'[id] \in Delivery
  BY <1>1 DEF Store, BrTypeOK
<1>6. QED
  BY <1>2, <1>4, <1>5 DEF Holds

LEMMA StageTasks ==
    ASSUME BrTypeOK, NEW w \in Workers, Holds(w), NEW s \in {"working", "done", "acking"},
           holds' = [holds EXCEPT ![w].stage = s]
    PROVE  /\ holds' \in [Workers -> Task]
           /\ Holds(w)' /\ holds'[w].of = holds[w].of /\ holds'[w].stage = s
           /\ \A v \in Workers : v # w => holds'[v] = holds[v]
<1>1. /\ holds \in [Workers -> Task]
      /\ holds[w] \in [id : Nat, stage : {"working", "done", "acking"}, of : Delivery]
  BY HeldTask DEF BrTypeOK
<1> DEFINE task == [holds[w] EXCEPT !.stage = s]
<1>2. task \in Task /\ task.stage = s /\ task.of = holds[w].of
  BY <1>1 DEF Task
<1>3. holds' = [holds EXCEPT ![w] = task]
  OBVIOUS
<1> HIDE DEF task
<1>4. /\ holds' \in [Workers -> Task] /\ holds'[w] = task
      /\ \A v \in Workers : v # w => holds'[v] = holds[v]
  BY <1>1, <1>2, <1>3
<1>5. QED
  BY <1>2, <1>4 DEF Holds

LEMMA EndTasks ==
    ASSUME BrTypeOK, NEW w \in Workers, holds' = [holds EXCEPT ![w] = NoTask]
    PROVE  /\ holds' \in [Workers -> Task]
           /\ ~Holds(w)' /\ holds'[w].stage = "none"
           /\ \A v \in Workers : v # w => holds'[v] = holds[v]
<1>1. holds \in [Workers -> Task] /\ NoTask \in Task
  BY DEF BrTypeOK, Task
<1>2. QED
  BY <1>1 DEF Holds, NoTask

-----------------------------------------------------------------------------
(* Every action keeps the invariant. *)

\* The actions that touch no task keep what is said of tasks.
LEMMA SameTasks ==
    ASSUME holds' = holds, NEW w \in Workers
    PROVE  (Holds(w)' <=> Holds(w)) /\ holds'[w] = holds[w]
  BY DEF Holds

LEMMA AtMostOneMore ==
    ASSUME NEW a \in Nat, NEW b \in Nat, NEW c \in Nat, a <= b + 1, b <= c
    PROVE  a <= c + 1
  OBVIOUS

\* The numbers, and what is with the broker.
LEMMA Bounds ==
    ASSUME BrInv
    PROVE  /\ channel \in Nat /\ faults \in Nat /\ channel <= faults + 1
           /\ published \in Nat /\ Returned \subseteq 1..published
<1>1. BrTypeOK /\ Delivered
  BY DEF BrInv
<1>2. channel \in Nat /\ faults \in Nat /\ published \in Nat
  BY <1>1 DEF BrTypeOK
<1>3. channel <= faults + 1
  BY <1>1 DEF Delivered
<1>4. \A m \in Returned : m \in 1..published
  BY <1>1 DEF Returned, BrTypeOK, Delivered
<1>5. QED
  BY <1>2, <1>3, <1>4

LEMMA PublishInv ==
    ASSUME BrInv, Publish \/ SendMessage \/ WriteMessage
    PROVE  BrInv'
<1>1. /\ published' = published + 1 /\ published' \in 1..MaxMessages
      /\ published \in Nat /\ 1..published' = 1..published \cup {published'}
  BY DEF BrInv, BrTypeOK, Publish, SendMessage, WriteMessage, Another
<1>2. /\ UNCHANGED <<system, out, committed, position, channel, consumer, table, reads,
                     holds, processed, confirmed, acks, faults>>
      /\ system # "kafka" => queue' = queue \cup {published'}
      /\ system = "kafka" => queue' = queue
  BY DEF BrInv, BrTypeOK, Publish, SendMessage, WriteMessage, Another
<1>3. BrTypeOK'
  <2>1. BrTypeOK
    BY DEF BrInv
  <2>2. queue' \subseteq 1..published'
    BY <1>1, <1>2, <2>1 DEF BrTypeOK
  <2>3. processed' \subseteq 1..published'
    BY <1>1, <1>2, <2>1 DEF BrTypeOK
  <2>4. committed' \in 0..published' /\ position' \in 0..published'
    BY <1>1, <1>2, <2>1 DEF BrTypeOK
  <2>5. QED
    BY <1>1, <1>2, <2>1, <2>2, <2>3, <2>4 DEF BrTypeOK
<1>4. Delivered'
  BY <1>1, <1>2, SameTasks DEF BrInv, BrTypeOK, Delivered
<1>5. Acknowledging'
  BY <1>2, SameTasks DEF BrInv, Acknowledging
<1>6. Kept'
  BY <1>1, <1>2 DEF BrInv, Kept, Returned
<1>7. ASSUME system = "rabbit" PROVE InOnePlace'
  <2>1. queue' = queue \cup {published'}
    BY <1>1, <1>2, <1>7 DEF BrInv, BrTypeOK
  <2>2. \A d \in out \cup confirmed : d.message # published'
    BY <1>1 DEF BrInv, BrTypeOK, Delivered, Acknowledging
  <2>3. QED
    BY <1>2, <1>7, <2>1, <2>2, SameTasks DEF BrInv, InOnePlace, Returned
<1>8. QED
  BY <1>2, <1>3, <1>4, <1>5, <1>6, <1>7 DEF BrInv

LEMMA StartConsumerInv ==
    ASSUME BrInv, StartConsumer
    PROVE  BrInv'
<1>1. /\ UNCHANGED <<system, published, queue, out, committed, position, table, reads,
                     holds, processed, confirmed, acks, faults>>
      /\ channel' = IF channel = 0 THEN 1 ELSE channel
      /\ consumer' = channel' /\ system = "rabbit"
  BY DEF StartConsumer
<1>2. BrTypeOK /\ channel \in Nat /\ faults \in Nat
  BY DEF BrInv, BrTypeOK
<1>3. channel' \in 1..MaxFaults + 1 /\ channel' \in Nat
  BY <1>1, <1>2 DEF BrTypeOK
<1>4. BrTypeOK'
  BY <1>1, <1>2, <1>3 DEF BrTypeOK
<1>5. Delivered' /\ Acknowledging' /\ Kept'
  BY <1>1, <1>2, SameTasks DEF BrInv, Delivered, Acknowledging, Kept, Returned
<1>6. InOnePlace'
  <2>1. CASE channel = 0
    <3>1. out = {}
      BY <1>1, <2>1 DEF BrInv, InOnePlace
    <3>2. \A w \in Workers : ~Holds(w)
      BY <1>1, <1>2, <2>1, <3>1, HeldTask DEF BrInv, InOnePlace, Delivery
    <3>3. \A d \in confirmed : d.channel = 0 /\ channel' = 1
      BY <1>1, <1>2, <2>1 DEF BrInv, BrTypeOK, InOnePlace, Delivery
    <3>4. QED
      BY <1>1, <3>1, <3>2, <3>3, SameTasks DEF InOnePlace
  <2>2. CASE channel # 0
    BY <1>1, <2>2, SameTasks DEF BrInv, InOnePlace, Returned
  <2>3. QED
    BY <2>1, <2>2
<1>7. QED
  BY <1>4, <1>5, <1>6 DEF BrInv

\* What all three reads have in common.
LEMMA TakeInv ==
    ASSUME BrInv, NEW w \in Workers, ~Holds(w), NEW d \in Delivery, Store(w, d),
           d.message \in 1..published,
           UNCHANGED <<system, published, committed, channel, consumer, processed, confirmed, acks, faults>>
    PROVE  /\ holds' \in [Workers -> Task] /\ reads' \in Nat /\ DOMAIN table' \subseteq 1..reads'
           /\ \A id \in DOMAIN table' : table'[id] \in Delivery
           /\ \A v \in Workers : Holds(v)' => holds'[v].of.message \in 1..published'
           /\ Acknowledging'
<1>1. BrTypeOK /\ Acknowledging /\ Delivered
  BY DEF BrInv
<1>2. /\ holds' \in [Workers -> Task]
      /\ Holds(w)' /\ holds'[w].of = d /\ holds'[w].stage = "working"
      /\ \A v \in Workers : v # w => holds'[v] = holds[v]
      /\ reads' \in Nat /\ DOMAIN table' \subseteq 1..reads'
      /\ \A id \in DOMAIN table' : table'[id] \in Delivery
  BY <1>1, StoreTasks
<1>3. \A v \in Workers : v # w => (Holds(v)' <=> Holds(v))
  BY <1>2 DEF Holds
<1>4. \A v \in Workers : Holds(v)' => holds'[v].of.message \in 1..published'
  BY <1>1, <1>2, <1>3 DEF Delivered
<1>5. Acknowledging'
  BY <1>1, <1>2 DEF Acknowledging
<1>6. QED
  BY <1>2, <1>4, <1>5

LEMMA ConsumeRabbitInv ==
    ASSUME BrInv, NEW w \in Workers, ConsumeRabbit(w)
    PROVE  BrInv'
<1>1. BrTypeOK /\ system = "rabbit" /\ ~Holds(w) /\ channel # 0
  BY HeldTask DEF BrInv, ConsumeRabbit
<1>2. PICK m \in queue :
         /\ queue' = queue \ {m}
         /\ out' = out \cup {[message |-> m, channel |-> channel]}
         /\ Store(w, [message |-> m, channel |-> channel])
  BY DEF ConsumeRabbit
<1> DEFINE d == [message |-> m, channel |-> channel]
<1>3. d \in Delivery /\ d.message = m /\ d.channel = channel /\ m \in 1..published
  BY <1>1, <1>2 DEF BrTypeOK, Delivery, Messages
<1>4. out' = out \cup {d} /\ Store(w, d)
  BY <1>2
<1> HIDE DEF d
<1>5. UNCHANGED <<system, published, committed, position, channel, consumer, processed, confirmed, acks, faults>>
  BY DEF ConsumeRabbit
<1>6. /\ holds' \in [Workers -> Task] /\ reads' \in Nat /\ DOMAIN table' \subseteq 1..reads'
      /\ \A id \in DOMAIN table' : table'[id] \in Delivery
      /\ \A v \in Workers : Holds(v)' => holds'[v].of.message \in 1..published'
      /\ Acknowledging'
  BY <1>1, <1>3, <1>4, <1>5, TakeInv
<1>7. BrTypeOK'
  BY <1>1, <1>2, <1>3, <1>4, <1>5, <1>6 DEF BrTypeOK
<1>8. Delivered'
  BY <1>3, <1>4, <1>5, <1>6 DEF BrInv, Delivered
<1>9. Returned' = Returned
  BY <1>2, <1>3, <1>4 DEF Returned
<1>10. Kept'
  BY <1>1, <1>5, <1>9 DEF BrInv, Kept
<1>11. InOnePlace'
  <2>1. InOnePlace
    BY <1>1 DEF BrInv
  <2>2. /\ Holds(w)' /\ holds'[w].of = d
        /\ \A v \in Workers : v # w => holds'[v] = holds[v] /\ (Holds(v)' <=> Holds(v))
    BY <1>1, <1>3, <1>4, StoreTasks DEF Holds
  <2>3. d \notin out /\ \A v \in Workers : Holds(v) => holds[v].of # d
    BY <1>2, <1>3, <2>1 DEF InOnePlace
  <2>4. \A e \in out' : e.channel = channel' /\ channel' # 0 /\ e.message \notin queue'
    BY <1>1, <1>2, <1>3, <1>4, <1>5, <2>1 DEF InOnePlace
  <2>5. channel \in Nat
    BY <1>1 DEF BrTypeOK
  <2>6. ASSUME NEW v \in Workers, Holds(v)'
        PROVE  /\ holds'[v].of.channel <= channel'
               /\ holds'[v].of.channel = channel' => holds'[v].of \in out'
               /\ \A u \in Workers : Holds(u)' /\ holds'[u].of = holds'[v].of => u = v
    BY <1>3, <1>4, <1>5, <2>1, <2>2, <2>3, <2>5, <2>6 DEF InOnePlace
  <2>7. /\ d \notin confirmed'
        /\ \A e \in confirmed' :
             e.channel <= channel' /\ (e.channel = channel' => e.message \notin queue')
    BY <1>2, <1>3, <1>5, <2>1 DEF InOnePlace
  <2>8. \A v \in Workers : Holds(v)' => holds'[v].of \notin confirmed'
    BY <1>5, <2>1, <2>2, <2>7 DEF InOnePlace
  <2>9. QED
    BY <2>4, <2>6, <2>7, <2>8 DEF InOnePlace
<1>12. QED
  BY <1>7, <1>8, <1>6, <1>10, <1>11 DEF BrInv

LEMMA ReceiveSQSInv ==
    ASSUME BrInv, NEW w \in Workers, ReceiveSQS(w)
    PROVE  BrInv'
<1>1. BrTypeOK /\ system = "sqs" /\ ~Holds(w)
  BY HeldTask DEF BrInv, ReceiveSQS
<1>2. PICK m \in queue :
         /\ queue' = queue \ {m}
         /\ out' = out \cup {[message |-> m, channel |-> 0]}
         /\ Store(w, [message |-> m, channel |-> 0])
  BY DEF ReceiveSQS
<1> DEFINE d == [message |-> m, channel |-> 0]
<1>3. d \in Delivery /\ d.message = m /\ m \in 1..published
  BY <1>1, <1>2 DEF BrTypeOK, Delivery, Messages
<1>4. out' = out \cup {d} /\ Store(w, d)
  BY <1>2
<1> HIDE DEF d
<1>5. UNCHANGED <<system, published, committed, position, channel, consumer, processed, confirmed, acks, faults>>
  BY DEF ReceiveSQS
<1>6. /\ holds' \in [Workers -> Task] /\ reads' \in Nat /\ DOMAIN table' \subseteq 1..reads'
      /\ \A id \in DOMAIN table' : table'[id] \in Delivery
      /\ \A v \in Workers : Holds(v)' => holds'[v].of.message \in 1..published'
      /\ Acknowledging'
  BY <1>1, <1>3, <1>4, <1>5, TakeInv
<1>7. BrTypeOK'
  BY <1>1, <1>2, <1>3, <1>4, <1>5, <1>6 DEF BrTypeOK
<1>8. Delivered'
  BY <1>3, <1>4, <1>5, <1>6 DEF BrInv, Delivered
<1>9. Returned' = Returned
  BY <1>2, <1>3, <1>4 DEF Returned
<1>10. Kept'
  BY <1>1, <1>5, <1>9 DEF BrInv, Kept
<1>11. QED
  BY <1>1, <1>5, <1>7, <1>8, <1>6, <1>10 DEF BrInv

LEMMA FetchKafkaInv ==
    ASSUME BrInv, NEW w \in Workers, FetchKafka(w)
    PROVE  BrInv'
<1>1. BrTypeOK /\ system = "kafka" /\ ~Holds(w)
  BY HeldTask DEF BrInv, FetchKafka
<1> DEFINE d == [message |-> position + 1, channel |-> 0]
<1>2. /\ d \in Delivery /\ d.message \in 1..published
      /\ position' = position + 1 /\ position' \in 0..published
  BY <1>1 DEF FetchKafka, BrTypeOK, Delivery, Messages
<1>3. Store(w, d)
  BY DEF FetchKafka
<1> HIDE DEF d
<1>4. UNCHANGED <<system, published, queue, out, committed, channel, consumer, processed, confirmed, acks, faults>>
  BY DEF FetchKafka
<1>5. /\ holds' \in [Workers -> Task] /\ reads' \in Nat /\ DOMAIN table' \subseteq 1..reads'
      /\ \A id \in DOMAIN table' : table'[id] \in Delivery
      /\ \A v \in Workers : Holds(v)' => holds'[v].of.message \in 1..published'
      /\ Acknowledging'
  BY <1>1, <1>2, <1>3, <1>4, TakeInv
<1>6. BrTypeOK'
  BY <1>1, <1>2, <1>4, <1>5 DEF BrTypeOK
<1>7. Delivered' /\ Kept'
  BY <1>1, <1>4, <1>5 DEF BrInv, Delivered, Kept
<1>8. QED
  BY <1>1, <1>4, <1>5, <1>6, <1>7 DEF BrInv

\* A worker goes on with, or ends, the task it holds: the places of deliveries
\* stay what they are.
LEMMA TaskInv ==
    ASSUME BrInv, NEW w \in Workers, holds' \in [Workers -> Task],
           \A v \in Workers : v # w => holds'[v] = holds[v],
           Holds(w)' => Holds(w) /\ holds'[w].of = holds[w].of,
           UNCHANGED <<system, published, queue, out, channel, confirmed, acks>>
    PROVE  /\ \A v \in Workers : Holds(v)' => holds'[v].of.message \in 1..published'
           /\ system = "rabbit" => InOnePlace'
<1>1. \A v \in Workers : Holds(v)' => Holds(v) /\ holds'[v].of = holds[v].of
  BY DEF Holds
<1>2. \A v \in Workers : Holds(v)' => holds'[v].of.message \in 1..published'
  BY <1>1 DEF BrInv, Delivered
<1>3. ASSUME system = "rabbit" PROVE InOnePlace'
  BY <1>1, <1>3 DEF BrInv, InOnePlace, Returned
<1>4. QED
  BY <1>2, <1>3

LEMMA ProcessInv ==
    ASSUME BrInv, NEW w \in Workers, Process(w)
    PROVE  BrInv'
<1>1. /\ BrTypeOK /\ Holds(w) /\ holds[w].of.message \in 1..published
      /\ holds' = [holds EXCEPT ![w].stage = "done"]
      /\ processed' = processed \cup {holds[w].of.message}
      /\ UNCHANGED <<system, published, queue, out, committed, position, channel,
                     consumer, table, reads, confirmed, acks, faults>>
  BY DEF BrInv, Process, Holds, Delivered
<1>2. /\ holds' \in [Workers -> Task]
      /\ Holds(w)' /\ holds'[w].of = holds[w].of /\ holds'[w].stage = "done"
      /\ \A v \in Workers : v # w => holds'[v] = holds[v]
  BY <1>1, StageTasks
<1>3. BrTypeOK'
  BY <1>1, <1>2 DEF BrTypeOK
<1>4. /\ \A v \in Workers : Holds(v)' => holds'[v].of.message \in 1..published'
      /\ system = "rabbit" => InOnePlace'
  BY <1>1, <1>2, TaskInv
<1>5. Acknowledging'
  BY <1>1, <1>2 DEF BrInv, Acknowledging
<1>6. Delivered' /\ Kept'
  BY <1>1, <1>4 DEF BrInv, Delivered, Kept, Returned
<1>7. QED
  BY <1>1, <1>3, <1>4, <1>5, <1>6 DEF BrInv

LEMMA LookUpInv ==
    ASSUME BrInv, NEW w \in Workers, LookUp(w)
    PROVE  BrInv'
<1>1. /\ BrTypeOK /\ Holds(w) /\ holds[w].of.message \in processed
      /\ holds' = [holds EXCEPT ![w].stage = "acking"]
      /\ table' = [id \in DOMAIN table \ {holds[w].id} |-> table[id]]
      /\ UNCHANGED <<system, published, queue, out, committed, position, channel,
                     consumer, reads, processed, confirmed, acks, faults>>
  BY DEF BrInv, LookUp, Holds, Acknowledging
<1>2. /\ holds' \in [Workers -> Task]
      /\ Holds(w)' /\ holds'[w].of = holds[w].of /\ holds'[w].stage = "acking"
      /\ \A v \in Workers : v # w => holds'[v] = holds[v]
  BY <1>1, StageTasks
<1>3. BrTypeOK'
  BY <1>1, <1>2 DEF BrTypeOK
<1>4. /\ \A v \in Workers : Holds(v)' => holds'[v].of.message \in 1..published'
      /\ system = "rabbit" => InOnePlace'
  BY <1>1, <1>2, TaskInv
<1>5. Acknowledging'
  BY <1>1, <1>2 DEF BrInv, Acknowledging
<1>6. Delivered' /\ Kept'
  BY <1>1, <1>4 DEF BrInv, Delivered, Kept, Returned
<1>7. QED
  BY <1>1, <1>3, <1>4, <1>5, <1>6 DEF BrInv

\* A job that is given up, a call that fails.
LEMMA DropInv ==
    ASSUME BrInv, NEW w \in Workers, GiveUp(w) \/ AckFails(w)
    PROVE  BrInv'
<1>1. /\ BrTypeOK
      /\ holds' = [holds EXCEPT ![w] = NoTask]
      /\ faults' \in faults..MaxFaults
      /\ UNCHANGED <<system, published, queue, out, committed, position, channel,
                     consumer, table, reads, processed, confirmed, acks>>
  BY DEF BrInv, BrTypeOK, GiveUp, AckFails
<1>2. /\ holds' \in [Workers -> Task]
      /\ ~Holds(w)' /\ holds'[w].stage = "none"
      /\ \A v \in Workers : v # w => holds'[v] = holds[v]
  BY <1>1, EndTasks
<1>3. BrTypeOK'
  BY <1>1, <1>2 DEF BrTypeOK
<1>4. /\ \A v \in Workers : Holds(v)' => holds'[v].of.message \in 1..published'
      /\ system = "rabbit" => InOnePlace'
  BY <1>1, <1>2, TaskInv
<1>5. Acknowledging'
  BY <1>1, <1>2 DEF BrInv, Acknowledging
<1>6. Delivered'
  <2>1. channel \in Nat /\ faults \in Nat /\ faults' \in Nat /\ faults <= faults'
    BY <1>1 DEF BrTypeOK
  <2>2. channel <= faults + 1
    BY DEF BrInv, Delivered
  <2>3. channel <= faults' + 1
    BY <2>1, <2>2, AtMostOneMore
  <2>4. QED
    BY <1>1, <1>4, <2>3 DEF BrInv, Delivered
<1>7. Kept'
  BY <1>1 DEF BrInv, Kept, Returned
<1>8. QED
  BY <1>1, <1>3, <1>4, <1>5, <1>6, <1>7 DEF BrInv

\* What the three acknowledgements have in common.
LEMMA AcknowledgedInv ==
    ASSUME BrInv, NEW w \in Workers, NEW d \in Delivery, Acknowledged(w, d)
    PROVE  /\ Holds(w) /\ d = holds[w].of
           /\ d.message \in processed /\ d.message \in 1..published
           /\ holds' \in [Workers -> Task] /\ ~Holds(w)' /\ Acknowledging'
           /\ \A v \in Workers : v # w => holds'[v] = holds[v] /\ (Holds(v)' <=> Holds(v))
           /\ \A v \in Workers : Holds(v)' => holds'[v].of.message \in 1..published'
<1>1. /\ BrTypeOK /\ Holds(w) /\ d = holds[w].of /\ d.message \in processed
      /\ d.message \in 1..published
  BY DEF BrInv, Acknowledged, Acknowledging, Delivered, Holds
<1>2. /\ holds' \in [Workers -> Task] /\ ~Holds(w)' /\ holds'[w].stage = "none"
      /\ \A v \in Workers : v # w => holds'[v] = holds[v]
  BY <1>1, EndTasks DEF Acknowledged
<1>3. /\ confirmed' = confirmed \cup {d} /\ processed' = processed
      /\ published' = published
  BY DEF Acknowledged
<1>4. Acknowledging'
  BY <1>1, <1>2, <1>3 DEF BrInv, Acknowledging
<1>5. \A v \in Workers : Holds(v)' => v # w /\ Holds(v)
  BY <1>2 DEF Holds
<1>6. \A v \in Workers : Holds(v)' => holds'[v].of.message \in 1..published'
  BY <1>2, <1>3, <1>5 DEF BrInv, Delivered
<1>7. QED
  BY <1>1, <1>2, <1>4, <1>5, <1>6 DEF Holds

LEMMA AckRabbitInv ==
    ASSUME BrInv, NEW w \in Workers, AckRabbit(w)
    PROVE  BrInv'
<1>1. PICK d \in Delivery : d.channel = channel /\ Acknowledged(w, d) /\ acks' = acks \cup {d}
  BY DEF AckRabbit
<1>2. /\ BrTypeOK /\ system = "rabbit" /\ InOnePlace
      /\ confirmed' = confirmed \cup {d}
      /\ UNCHANGED <<system, published, queue, out, committed, position, channel, consumer,
                     table, reads, processed, faults>>
  BY <1>1 DEF BrInv, AckRabbit, Acknowledged
<1>3. /\ Holds(w) /\ d = holds[w].of
      /\ d.message \in processed /\ d.message \in 1..published
      /\ holds' \in [Workers -> Task] /\ ~Holds(w)' /\ Acknowledging'
      /\ \A v \in Workers : v # w => holds'[v] = holds[v] /\ (Holds(v)' <=> Holds(v))
      /\ \A v \in Workers : Holds(v)' => holds'[v].of.message \in 1..published'
  BY <1>1, AcknowledgedInv
<1>4. BrTypeOK'
  BY <1>1, <1>2, <1>3 DEF BrTypeOK
<1>5. Delivered'
  BY <1>1, <1>2, <1>3 DEF BrInv, Delivered
<1>6. Kept'
  BY <1>1, <1>2, <1>3 DEF BrInv, Kept, Returned
<1>7. d.channel = channel /\ d.message \notin queue /\ channel \in Nat
  BY <1>1, <1>2, <1>3 DEF InOnePlace, BrTypeOK
<1>8. InOnePlace'
  <2>1. ASSUME NEW v \in Workers, Holds(v)'
        PROVE  /\ v # w /\ Holds(v) /\ holds'[v] = holds[v] /\ holds[v].of # d
               /\ holds[v].of \notin confirmed'
    BY <1>2, <1>3, <2>1 DEF InOnePlace
  <2>2. \A e \in confirmed' :
          e.channel <= channel' /\ (e.channel = channel' => e.message \notin queue')
    BY <1>2, <1>7 DEF InOnePlace
  <2>3. QED
    BY <1>2, <1>3, <2>1, <2>2 DEF InOnePlace
<1>9. QED
  BY <1>2, <1>3, <1>4, <1>5, <1>6, <1>8 DEF BrInv

LEMMA BrokerReadsAckInv ==
    ASSUME BrInv, BrokerReadsAck
    PROVE  BrInv'
<1>1. PICK d \in acks : acks' = acks \ {d} /\ out' = out \ {d}
  BY DEF BrokerReadsAck
<1>2. UNCHANGED <<system, published, queue, committed, position, channel, consumer,
                  table, reads, holds, processed, confirmed, faults>>
  BY DEF BrokerReadsAck
<1>3. BrTypeOK /\ d \in confirmed /\ d.message \in processed
  BY <1>1 DEF BrInv, BrTypeOK, Acknowledging
<1>4. BrTypeOK'
  BY <1>1, <1>2, <1>3 DEF BrTypeOK
<1>5. Delivered' /\ Acknowledging' /\ Kept'
  BY <1>1, <1>2, <1>3, SameTasks DEF BrInv, Delivered, Acknowledging, Kept, Returned
<1>6. ASSUME system = "rabbit" PROVE InOnePlace'
  <2>1. \A w \in Workers : Holds(w) => holds[w].of # d
    BY <1>3, <1>6 DEF BrInv, InOnePlace
  <2>2. QED
    BY <1>1, <1>2, <1>6, <2>1, SameTasks DEF BrInv, InOnePlace
<1>7. QED
  BY <1>2, <1>4, <1>5, <1>6 DEF BrInv

LEMMA DeleteSQSInv ==
    ASSUME BrInv, NEW w \in Workers, DeleteSQS(w)
    PROVE  BrInv'
<1>1. PICK d \in Delivery :
         /\ Acknowledged(w, d)
         /\ \/ out' = out \ {d} /\ queue' = queue \ {d.message}
            \/ d.message \in queue /\ UNCHANGED <<queue, out>>
  BY DEF DeleteSQS
<1>2. /\ BrTypeOK /\ system = "sqs"
      /\ confirmed' = confirmed \cup {d}
      /\ UNCHANGED <<system, published, committed, position, channel, consumer,
                     table, reads, processed, acks, faults>>
  BY <1>1 DEF BrInv, DeleteSQS, Acknowledged
<1>3. /\ Holds(w) /\ d = holds[w].of
      /\ d.message \in processed /\ d.message \in 1..published
      /\ holds' \in [Workers -> Task] /\ ~Holds(w)' /\ Acknowledging'
      /\ \A v \in Workers : v # w => holds'[v] = holds[v] /\ (Holds(v)' <=> Holds(v))
      /\ \A v \in Workers : Holds(v)' => holds'[v].of.message \in 1..published'
  BY <1>1, AcknowledgedInv
<1>4. BrTypeOK'
  BY <1>1, <1>2, <1>3 DEF BrTypeOK
<1>5. Delivered'
  BY <1>1, <1>2, <1>3 DEF BrInv, Delivered
<1>6. Kept'
  BY <1>1, <1>2, <1>3 DEF BrInv, Kept, Returned
<1>7. QED
  BY <1>2, <1>3, <1>4, <1>5, <1>6 DEF BrInv

LEMMA CommitKafkaInv ==
    ASSUME BrInv, NEW w \in Workers, CommitKafka(w)
    PROVE  BrInv'
<1>1. PICK d \in Delivery : Acknowledged(w, d) /\ committed' = d.message
  BY DEF CommitKafka
<1>2. /\ BrTypeOK /\ system = "kafka"
      /\ confirmed' = confirmed \cup {d}
      /\ UNCHANGED <<system, published, queue, out, position, channel, consumer,
                     table, reads, processed, acks, faults>>
  BY <1>1 DEF BrInv, CommitKafka, Acknowledged
<1>3. /\ Holds(w) /\ d = holds[w].of
      /\ d.message \in processed /\ d.message \in 1..published
      /\ holds' \in [Workers -> Task] /\ ~Holds(w)' /\ Acknowledging'
      /\ \A v \in Workers : v # w => holds'[v] = holds[v] /\ (Holds(v)' <=> Holds(v))
      /\ \A v \in Workers : Holds(v)' => holds'[v].of.message \in 1..published'
  BY <1>1, AcknowledgedInv
<1>4. BrTypeOK'
  <2>1. confirmed' \subseteq Delivery /\ acks' \subseteq confirmed'
    BY <1>2, <1>3 DEF BrTypeOK
  <2>2. published \in Nat /\ committed' = d.message
    BY <1>1, Bounds
  <2>3. committed' \in 0..published'
    BY <1>2, <1>3, <2>2
  <2>4. QED
    BY <1>2, <1>3, <2>1, <2>3 DEF BrTypeOK
<1>5. Delivered' /\ Kept'
  BY <1>1, <1>2, <1>3 DEF BrInv, Delivered, Kept
<1>6. QED
  BY <1>2, <1>3, <1>4, <1>5 DEF BrInv

LEMMA LoseConnectionInv ==
    ASSUME BrInv, LoseConnection
    PROVE  BrInv'
<1>1. /\ BrTypeOK /\ system = "rabbit" /\ InOnePlace
      /\ channel' = channel + 1 /\ faults' = faults + 1 /\ faults < MaxFaults
      /\ queue' = Returned /\ out' = {} /\ acks' = {}
      /\ UNCHANGED <<system, published, committed, position, consumer, table, reads,
                     holds, processed, confirmed>>
  BY DEF BrInv, LoseConnection
<1>2. /\ channel \in Nat /\ faults \in Nat /\ channel <= faults + 1
      /\ Returned \subseteq 1..published
  BY Bounds
<1>3. channel' \in 0..MaxFaults + 1 /\ faults' \in 0..MaxFaults /\ channel' <= faults' + 1
  BY <1>1, <1>2
<1>4. BrTypeOK'
  <2>1. consumer' \in 0..channel'
    BY <1>1, <1>2 DEF BrTypeOK
  <2>2. QED
    BY <1>1, <1>2, <1>3, <2>1 DEF BrTypeOK
<1>5. Delivered'
  BY <1>1, <1>3, SameTasks DEF BrInv, Delivered
<1>6. Returned' = Returned
  BY <1>1 DEF Returned
<1>7. Acknowledging' /\ Kept'
  BY <1>1, <1>6, SameTasks DEF BrInv, Acknowledging, Kept
<1>8. /\ \A w \in Workers : Holds(w) => holds[w].of.channel \in Nat
      /\ \A d \in confirmed : d.channel \in Nat
  BY <1>1, HeldTask DEF BrTypeOK, Delivery
<1>9. InOnePlace'
  BY <1>1, <1>2, <1>6, <1>8, SameTasks DEF InOnePlace
<1>10. QED
  BY <1>4, <1>5, <1>7, <1>9 DEF BrInv

LEMMA ReappearInv ==
    ASSUME BrInv, Reappear
    PROVE  BrInv'
<1>1. PICK d \in out : queue' = queue \cup {d.message} /\ out' = out \ {d}
  BY DEF Reappear
<1>2. /\ BrTypeOK /\ system = "sqs" /\ Delivered
      /\ UNCHANGED <<system, published, committed, position, channel, consumer, table,
                     reads, holds, processed, confirmed, acks>>
  BY DEF BrInv, Reappear
<1>3. /\ faults \in Nat /\ faults' \in Nat /\ faults <= faults' /\ faults' \in 0..MaxFaults
  BY <1>2 DEF Reappear, BrTypeOK
<1>4. d.message \in 1..published
  BY <1>1, <1>2 DEF Delivered
<1>5. BrTypeOK'
  BY <1>1, <1>2, <1>3, <1>4 DEF BrTypeOK
<1>6. Delivered'
  <2>1. channel \in Nat /\ channel <= faults + 1
    BY <1>2 DEF BrTypeOK, Delivered
  <2>2. channel' <= faults' + 1
    BY <1>2, <1>3, <2>1, AtMostOneMore
  <2>3. QED
    BY <1>1, <1>2, <2>2, SameTasks DEF Delivered
<1>7. Acknowledging' /\ Kept'
  BY <1>1, <1>2, SameTasks DEF BrInv, Acknowledging, Kept, Returned
<1>8. QED
  BY <1>2, <1>5, <1>6, <1>7 DEF BrInv

LEMMA RestartInv ==
    ASSUME BrInv, Restart
    PROVE  BrInv'
<1>1. /\ BrTypeOK
      /\ faults' = faults + 1 /\ faults < MaxFaults
      /\ table' = <<>> /\ holds' = [w \in Workers |-> NoTask]
      /\ consumer' = 0 /\ position' = committed /\ acks' = {}
      /\ UNCHANGED <<system, published, committed, reads, processed, confirmed>>
  BY DEF BrInv, Restart
<1>2. /\ channel' = IF system = "rabbit" THEN channel + 1 ELSE channel
      /\ system = "rabbit" => queue' = Returned /\ out' = {}
      /\ system # "rabbit" => UNCHANGED <<queue, out>>
  BY DEF Restart
<1>3. /\ channel \in Nat /\ faults \in Nat /\ channel <= faults + 1
      /\ Returned \subseteq 1..published
  BY Bounds
<1>4. /\ channel' \in 0..MaxFaults + 1 /\ faults' \in 0..MaxFaults
      /\ channel' <= faults' + 1 /\ consumer' \in 0..channel'
  BY <1>1, <1>2, <1>3
<1>5. /\ Returned' = Returned
      /\ \A d \in confirmed : d.channel \in Nat
  BY <1>1, <1>2 DEF Returned, BrTypeOK, Delivery
<1>6. \A w \in Workers : ~Holds(w)' /\ holds'[w].stage = "none"
  BY <1>1 DEF Holds, NoTask
<1>7. BrTypeOK'
  <2>1. holds' \in [Workers -> Task]
    BY <1>1 DEF Task
  <2>2. queue' \subseteq 1..published' /\ out' \subseteq Delivery
    BY <1>1, <1>2, <1>3 DEF BrTypeOK
  <2>3. DOMAIN table' \subseteq 1..reads' /\ \A id \in DOMAIN table' : table'[id] \in Delivery
    BY <1>1 DEF BrTypeOK
  <2>4. QED
    BY <1>1, <1>4, <2>1, <2>2, <2>3 DEF BrTypeOK
<1>8. Delivered'
  BY <1>1, <1>2, <1>4, <1>6 DEF BrInv, Delivered
<1>9. Acknowledging' /\ Kept'
  BY <1>1, <1>5, <1>6 DEF BrInv, Acknowledging, Kept
<1>10. ASSUME system = "rabbit" PROVE InOnePlace'
  BY <1>1, <1>2, <1>3, <1>5, <1>6, <1>10 DEF BrInv, InOnePlace
<1>11. QED
  BY <1>1, <1>7, <1>8, <1>9, <1>10 DEF BrInv

LEMMA StutterInv == BrInv /\ UNCHANGED brVars => BrInv'
  BY DEF BrInv, brVars, BrTypeOK, Delivered, Acknowledging, Kept, InOnePlace, Returned, Holds

LEMMA NextInv == BrInv /\ [BrNext]_brVars => BrInv'
<1>1. SUFFICES ASSUME BrInv, BrNext PROVE BrInv'
  BY StutterInv
<1>2. CASE Publish \/ SendMessage \/ WriteMessage
  BY <1>1, <1>2, PublishInv
<1>3. CASE StartConsumer
  BY <1>1, <1>3, StartConsumerInv
<1>4. CASE BrokerReadsAck \/ LoseConnection
  BY <1>1, <1>4, BrokerReadsAckInv, LoseConnectionInv
<1>5. CASE Reappear
  BY <1>1, <1>5, ReappearInv
<1>6. CASE Restart
  BY <1>1, <1>6, RestartInv
<1>7. ASSUME NEW w \in Workers, WorkerStep(w) \/ GiveUp(w) PROVE BrInv'
  <2>1. CASE ConsumeRabbit(w)
    BY <1>1, <2>1, ConsumeRabbitInv
  <2>2. CASE ReceiveSQS(w)
    BY <1>1, <2>2, ReceiveSQSInv
  <2>3. CASE FetchKafka(w)
    BY <1>1, <2>3, FetchKafkaInv
  <2>4. CASE Process(w)
    BY <1>1, <2>4, ProcessInv
  <2>5. CASE LookUp(w)
    BY <1>1, <2>5, LookUpInv
  <2>6. CASE AckRabbit(w)
    BY <1>1, <2>6, AckRabbitInv
  <2>7. CASE DeleteSQS(w)
    BY <1>1, <2>7, DeleteSQSInv
  <2>8. CASE CommitKafka(w)
    BY <1>1, <2>8, CommitKafkaInv
  <2>9. CASE GiveUp(w) \/ AckFails(w)
    BY <1>1, <2>9, DropInv
  <2>10. QED
    BY <1>7, <2>1, <2>2, <2>3, <2>4, <2>5, <2>6, <2>7, <2>8, <2>9 DEF WorkerStep
<1>8. QED
  BY <1>1, <1>2, <1>3, <1>4, <1>5, <1>6, <1>7 DEF BrNext

LEMMA Invariance == BrSpec => []BrInv
  BY InitInv, NextInv, PTL DEF BrSpec

-----------------------------------------------------------------------------
\* Every reachable state is well typed, and within its bounds.
THEOREM BrokersTypeCorrect == BrSpec => []BrTypeOK
<1>1. BrInv => BrTypeOK
  BY DEF BrInv
<1>2. QED
  BY <1>1, Invariance, PTL

\* No message is lost, whatever fails between the table and the broker, and
\* however many workers, connections and restarts there are.
THEOREM NoMessageIsLost == BrSpec => []NothingLost
<1>1. ASSUME BrInv PROVE NothingLost
  <2>1. SUFFICES ASSUME NEW m \in 1..published
                 PROVE  Retained(m) \/ (system = "kafka" /\ \E d \in confirmed : d.message > m)
    BY DEF NothingLost
  <2>2. CASE system # "kafka"
    BY <1>1, <2>2 DEF BrInv, Kept, Retained
  <2>3. CASE system = "kafka"
    <3>1. m \in Nat /\ committed \in Nat /\ m # 0
      BY <1>1 DEF BrInv, BrTypeOK
    <3>2. CASE m > committed
      BY <2>3, <3>2 DEF Retained
    <3>3. CASE m = committed
      BY <1>1, <2>3, <3>1, <3>3 DEF BrInv, Kept, Acknowledging, Retained
    <3>4. CASE committed > m
      BY <1>1, <2>3, <3>1, <3>4 DEF BrInv, Kept
    <3>5. QED
      BY <3>1, <3>2, <3>3, <3>4
  <2>4. QED
    BY <2>2, <2>3
<1>2. QED
  BY <1>1, Invariance, PTL

\* Who newly holds a message took it from the queue of Rabbit.
LEMMA NewHolder ==
    ASSUME BrInv, BrNext, system = "rabbit", NEW m, NEW w \in Workers,
           w \in Holders(m)', w \notin Holders(m)
    PROVE  m \in queue /\ holds'[w].of.channel = channel
<1>1. BrTypeOK /\ BrTypeOK'
  BY NextInv DEF BrInv
<1>2. Holds(w)' /\ holds'[w].of.message = m /\ ~(Holds(w) /\ holds[w].of.message = m)
  BY <1>1, HeldTask DEF Holders, Holds, BrTypeOK, Task, NoTask
<1>3. holds' # holds /\ ~Restart
  BY <1>2 DEF Holds, Restart, NoTask
<1>4. PICK v \in Workers : WorkerStep(v) \/ GiveUp(v)
  BY <1>3 DEF BrNext, Publish, SendMessage, WriteMessage, Another, StartConsumer,
              BrokerReadsAck, LoseConnection, Reappear
<1>5. CASE ConsumeRabbit(v)
  <2>1. PICK n \in queue : Store(v, [message |-> n, channel |-> channel])
    BY <1>5 DEF ConsumeRabbit
  <2>2. [message |-> n, channel |-> channel] \in Delivery
    BY <1>1, <2>1 DEF BrTypeOK, Delivery, Messages
  <2>3. /\ holds'[v].of = [message |-> n, channel |-> channel]
        /\ \A u \in Workers : u # v => holds'[u] = holds[u]
    BY <1>1, <2>1, <2>2, StoreTasks
  <2>4. QED
    BY <1>2, <2>3 DEF Holds
<1>6. CASE Process(v) \/ LookUp(v)
  <2>1. Holds(v) /\ \E s \in {"done", "acking"} : holds' = [holds EXCEPT ![v].stage = s]
    BY <1>6 DEF Process, LookUp, Holds
  <2>2. holds'[v].of = holds[v].of /\ \A u \in Workers : u # v => holds'[u] = holds[u]
    BY <1>1, <2>1, StageTasks
  <2>3. QED
    BY <1>2, <2>1, <2>2 DEF Holds
<1>7. CASE AckRabbit(v) \/ AckFails(v) \/ GiveUp(v)
  <2>1. holds' = [holds EXCEPT ![v] = NoTask]
    BY <1>7 DEF AckRabbit, Acknowledged, AckFails, GiveUp
  <2>2. QED
    BY <1>1, <1>2, <2>1, EndTasks DEF Holds
<1>8. QED
  BY <1>4, <1>5, <1>6, <1>7 DEF WorkerStep, ReceiveSQS, FetchKafka, DeleteSQS, CommitKafka

\* What Rabbit lets go of, its own acknowledgement confirmed.
LEMMA LetGo ==
    ASSUME BrInv, BrNext, system = "rabbit", NEW m \in Returned \ Returned'
    PROVE  m \in processed /\ \E d \in confirmed : d.message = m
<1>1. BrTypeOK /\ Acknowledging
  BY DEF BrInv
<1>2. CASE BrokerReadsAck
  <2>1. PICK d \in acks : out' = out \ {d} /\ queue' = queue
    BY <1>2 DEF BrokerReadsAck
  <2>2. d \in confirmed /\ d.message = m
    BY <1>1, <2>1 DEF Returned, BrTypeOK
  <2>3. QED
    BY <1>1, <2>2 DEF Acknowledging
<1>3. CASE Publish \/ SendMessage \/ WriteMessage
  BY <1>3 DEF Publish, SendMessage, WriteMessage, Another, Returned
<1>4. CASE StartConsumer \/ LoseConnection \/ Restart
  BY <1>4 DEF StartConsumer, LoseConnection, Restart, Returned
<1>5. ASSUME NEW w \in Workers, ConsumeRabbit(w) PROVE FALSE
  <2>1. PICK n \in queue : queue' = queue \ {n} /\ out' = out \cup {[message |-> n, channel |-> channel]}
    BY <1>5 DEF ConsumeRabbit
  <2> DEFINE d == [message |-> n, channel |-> channel]
  <2>2. d.message = n /\ out' = out \cup {d}
    BY <2>1
  <2> HIDE DEF d
  <2>3. QED
    BY <2>1, <2>2 DEF Returned
<1>6. ASSUME NEW w \in Workers,
             Process(w) \/ LookUp(w) \/ AckRabbit(w) \/ AckFails(w) \/ GiveUp(w)
      PROVE  FALSE
  BY <1>6 DEF Process, LookUp, AckRabbit, AckFails, GiveUp, Returned
<1>7. QED
  BY <1>2, <1>3, <1>4, <1>5, <1>6
  DEF BrNext, WorkerStep, Reappear, ReceiveSQS, FetchKafka, DeleteSQS, CommitKafka

\* What Rabbit lets go of was acknowledged for itself, and what it was told of
\* over a connection it delivers again only over a later one, for any number of
\* workers and of connections lost.
THEOREM RabbitAcksAreForTheirOwn == BrSpec => AcksAreForTheirOwn
<1> DEFINE Own == system = "rabbit" =>
               /\ \A m \in Returned \ Returned' :
                    m \in processed /\ \E d \in confirmed : d.message = m
               /\ \A d \in confirmed, w \in Workers :
                    w \in Holders(d.message)' \ Holders(d.message)
                       => holds'[w].of.channel > d.channel
<1>1. ASSUME BrInv, BrNext PROVE Own
  <2>1. SUFFICES ASSUME system = "rabbit"
                 PROVE  \A d \in confirmed, w \in Workers :
                          w \in Holders(d.message)' \ Holders(d.message)
                             => holds'[w].of.channel > d.channel
    BY <1>1, LetGo
  <2>2. SUFFICES ASSUME NEW d \in confirmed, NEW w \in Workers,
                        w \in Holders(d.message)', w \notin Holders(d.message)
                 PROVE  holds'[w].of.channel > d.channel
    OBVIOUS
  <2>3. d.message \in queue /\ holds'[w].of.channel = channel
    BY <1>1, <2>1, <2>2, NewHolder
  <2>4. d.channel <= channel /\ d.channel # channel
    BY <1>1, <2>1, <2>3 DEF BrInv, InOnePlace
  <2>5. d.channel \in Nat /\ channel \in Nat
    BY <1>1 DEF BrInv, BrTypeOK, Delivery
  <2>6. QED
    BY <2>3, <2>4, <2>5
<1>2. BrInv /\ [BrNext]_brVars => [Own]_brVars
  BY <1>1
<1>3. QED
  BY <1>2, Invariance, PTL DEF BrSpec, AcksAreForTheirOwn
-----------------------------------------------------------------------------
(* Actors and brokers together, one at rest while the other works.         *)

\* The mailboxes of the actors and the queues of the brokers are well formed, of
\* whichever of them a behaviour is.
THEOREM MessagingTypeCorrect == MCSpec => []MessagingTypeOK
<1>1. MCInit => Init /\ BrInit
  BY DEF MCInit
<1>2. [MCNext]_<<part, vars, brVars>> => [Next]_vars /\ [BrNext]_brVars
  BY DEF MCNext
<1>3. MCSpec => Spec /\ BrSpec
  BY <1>1, <1>2, PTL DEF MCSpec, Spec, BrSpec
<1>4. TypeOK /\ BrTypeOK => MessagingTypeOK
  BY DEF MessagingTypeOK
<1>5. QED
  BY <1>3, <1>4, TypeCorrect, BrokersTypeCorrect, PTL
=============================================================================
