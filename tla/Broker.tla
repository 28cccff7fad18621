------------------------------- MODULE Broker --------------------------------
(***************************************************************************)
(* The message broker (broker.rs): named topics of append-only logs,       *)
(* consumer groups that commit one offset per partition, and consumers     *)
(* that read ahead of what their group has committed. Every operation is   *)
(* one critical section under the broker's lock; what happens outside it   *)
(* -- a consumer at work on the messages it has taken, or dead before it   *)
(* has finished -- is between the steps. A message is its key and its      *)
(* place among all that was published to the topic: what it carries is     *)
(* transfer's business.                                                    *)
(***************************************************************************)
EXTENDS Integers, Sequences

CONSTANTS
  Names, Keys, Groups,
  Counts,        \* how many partitions a program may ask for
  Hash,          \* FNV-1a of each key
  MaxMessages,   \* bound: messages published to a topic
  MaxConsumers,  \* bound: consumers ever subscribed
  MaxOffset      \* bound: how far a program may seek

ASSUME BrokerAssumption ==
  /\ Counts \subseteq Int
  /\ Hash \in [Keys -> Nat]
  /\ MaxMessages \in Nat /\ MaxConsumers \in Nat /\ MaxOffset \in Nat

VARIABLES
  topics,    \* Broker.topics: name, logs, groups
  consumers, \* Broker.consumers: topic, group, position
  taken,     \* the messages each consumer has polled and not finished with
  settled,   \* history: what some consumer of a group has finished with, or
             \* was told to seek past
  last       \* history: the partition each consumer polled last

vars == <<topics, consumers, taken, settled, last>>

Init ==
  /\ topics = <<>>
  /\ consumers = <<>>
  /\ taken = <<>>
  /\ settled = {}
  /\ last = <<>>

-----------------------------------------------------------------------------
\* A count taken as it is given.
WidthAsAsked(n) == n

\* partitions.max(1).
Width(n) == IF n < 1 THEN 1 ELSE n

\* partition_of; partitions are counted from zero.
PartitionOf(k, n) == Hash[k] % n

\* A group nobody has joined has committed nothing, like one that is created
\* when the first consumer joins it.
NewTopic(name, n) ==
  [name |-> name, width |-> n, published |-> 0,
   logs |-> [p \in 0 .. n - 1 |-> <<>>],
   groups |-> [g \in Groups |-> [p \in 0 .. n - 1 |-> 0]]]

Known(name) == \E t \in DOMAIN topics : topics[t].name = name

\* ws_broker_topic makes the topic, unless there is one of that name: then the
\* caller gets that one, whatever count it asked for.
Topic(name, n) ==
  /\ ~Known(name)
  /\ topics' = Append(topics, NewTopic(name, Width(n)))
  /\ UNCHANGED <<consumers, taken, settled, last>>

\* The partitions in turn, whatever the key.
PublishInTurn(t, k) ==
  LET p == topics[t].published % topics[t].width IN
  /\ topics[t].published < MaxMessages
  /\ topics' = [topics EXCEPT ![t].published = @ + 1,
                              ![t].logs[p] = Append(@, [key |-> k, seq |-> topics[t].published])]
  /\ UNCHANGED <<consumers, taken, settled, last>>

\* ws_broker_publish.
Publish(t, k) ==
  LET p == PartitionOf(k, topics[t].width) IN
  /\ topics[t].published < MaxMessages
  /\ topics' = [topics EXCEPT ![t].published = @ + 1,
                              ![t].logs[p] = Append(@, [key |-> k, seq |-> topics[t].published])]
  /\ UNCHANGED <<consumers, taken, settled, last>>

\* ws_broker_subscribe: start from where the group has committed.
Subscribe(t, g) ==
  /\ Len(consumers) < MaxConsumers
  /\ consumers' = Append(consumers,
       [topic |-> t, group |-> g, position |-> topics[t].groups[g]])
  /\ taken' = Append(taken, {})
  /\ last' = Append(last, -1)
  /\ UNCHANGED <<topics, settled>>

Unread(c) ==
  LET t == topics[consumers[c].topic] IN
  {p \in 0 .. t.width - 1 : consumers[c].position[p] < Len(t.logs[p])}

\* A poll that commits what it hands out.
PollAndCommit(c) ==
  \E p \in Unread(c) :
    /\ \A q \in Unread(c) : p <= q
    /\ consumers' = [consumers EXCEPT ![c].position[p] = @ + 1]
    /\ taken' = [taken EXCEPT ![c] = @ \cup {<<p, consumers[c].position[p]>>}]
    /\ last' = [last EXCEPT ![c] = p]
    /\ topics' = [topics EXCEPT
         ![consumers[c].topic].groups[consumers[c].group][p] = consumers[c].position[p] + 1]
    /\ UNCHANGED settled

\* ws_broker_poll: the first partition, counted from zero, with an unread
\* message in it.
Poll(c) ==
  \E p \in Unread(c) :
    /\ \A q \in Unread(c) : p <= q
    /\ consumers' = [consumers EXCEPT ![c].position[p] = @ + 1]
    /\ taken' = [taken EXCEPT ![c] = @ \cup {<<p, consumers[c].position[p]>>}]
    /\ last' = [last EXCEPT ![c] = p]
    /\ UNCHANGED <<topics, settled>>

Message(c, m) == <<consumers[c].topic, consumers[c].group, m[1], m[2]>>

\* The program has finished with a message.
Finish(c) ==
  \E m \in taken[c] :
    /\ taken' = [taken EXCEPT ![c] = @ \ {m}]
    /\ settled' = settled \cup {Message(c, m)}
    /\ UNCHANGED <<topics, consumers, last>>

\* ws_broker_commit. A program commits when it is done with what it has read:
\* that is the contract under which a commit means anything.
Commit(c) ==
  /\ taken[c] = {}
  /\ topics' = [topics EXCEPT
       ![consumers[c].topic].groups[consumers[c].group] = consumers[c].position]
  /\ UNCHANGED <<consumers, taken, settled, last>>

Clamp(n) == IF n < 0 THEN 0 ELSE n

\* ws_broker_seek, forwards or back. A partition there is not is not sought.
Seek(c, p, o) ==
  /\ Clamp(p) \in DOMAIN consumers[c].position
  /\ consumers' = [consumers EXCEPT ![c].position[Clamp(p)] = Clamp(o)]
  /\ settled' = settled \cup
       {Message(c, <<Clamp(p), i>>) : i \in consumers[c].position[Clamp(p)] .. Clamp(o) - 1}
  /\ UNCHANGED <<topics, taken, last>>

Next ==
  \/ \E name \in Names, n \in Counts : Topic(name, n)
  \/ \E t \in DOMAIN topics, k \in Keys : Publish(t, k)
  \/ \E t \in DOMAIN topics, g \in Groups : Subscribe(t, g)
  \/ \E c \in DOMAIN consumers : Poll(c) \/ Finish(c) \/ Commit(c)
  \/ \E c \in DOMAIN consumers :
       \E p \in -1 .. topics[consumers[c].topic].width, o \in -1 .. MaxOffset : Seek(c, p, o)

Spec == Init /\ [][Next]_vars

-----------------------------------------------------------------------------
Widths == {n \in Counts \cup {1} : n > 0}
Partitions(n) == 0 .. n - 1
Positions(n) == [Partitions(n) -> Nat]

TopicsOf(n) ==
  [name : Names, width : {n}, published : Nat,
   logs : [Partitions(n) -> Seq([key : Keys, seq : Nat])],
   groups : [Groups -> Positions(n)]]

ConsumersOf(n) == [topic : Nat, group : Groups, position : Positions(n)]

TypeOK ==
  /\ \A t \in DOMAIN topics : \E n \in Widths : topics[t] \in TopicsOf(n)
  /\ \A c \in DOMAIN consumers :
       /\ consumers[c].topic \in DOMAIN topics
       /\ consumers[c] \in ConsumersOf(topics[consumers[c].topic].width)
  /\ taken \in [DOMAIN consumers -> SUBSET (Nat \X Nat)]
  /\ last \in [DOMAIN consumers -> Int]

\* broker.rs: "a message that was read but not committed is read again by the
\* next consumer of that group -- which is what at-least-once means". So what a
\* group has committed past, some consumer of the group has finished with, or
\* was told to seek past: a consumer that dies loses nothing.
AtLeastOnce ==
  \A t \in DOMAIN topics : \A g \in Groups : \A p \in DOMAIN topics[t].logs :
    \A i \in 0 .. topics[t].groups[g][p] - 1 :
      <<t, g, p, i>> \in settled

Polled(c, m) == c \in DOMAIN taken /\ m \in taken'[c] \ taken[c]

Entry(t, m) == topics[t].logs[m[1]][m[2] + 1]

\* Every message in the topic.
Entries(t) ==
  {<<p, i>> : p \in DOMAIN topics[t].logs, i \in 0 .. topics[t].published - 1}

\* broker.rs: "messages sharing a key stay in order with each other". When a
\* consumer takes a message, every earlier message of that key in that topic
\* has been taken by it, or handled or skipped by its group.
KeyOrderStep ==
  \A c \in DOMAIN taken : LET t == consumers[c].topic IN
    \A m \in Entries(t) : Polled(c, m) =>
      \A n \in Entries(t) :
        /\ n[2] < Len(topics[t].logs[n[1]])
        /\ Entry(t, n).key = Entry(t, m).key
        /\ Entry(t, n).seq < Entry(t, m).seq
        => n \in taken[c] \/ Message(c, n) \in settled
KeyOrder == [][KeyOrderStep]_vars

\* broker.rs, poll: "Round-robin across partitions from the one after the last,
\* so that a busy partition cannot starve a quiet one".
Turn(c, p) == (p - last[c] - 1) % topics[consumers[c].topic].width
RoundRobinStep ==
  \A c \in DOMAIN taken : \A m \in Entries(consumers[c].topic) :
    Polled(c, m) => \A q \in Unread(c) : Turn(c, m[1]) <= Turn(c, q)
RoundRobin == [][RoundRobinStep]_vars
=============================================================================
