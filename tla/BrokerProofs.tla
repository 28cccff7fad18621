---------------------------- MODULE BrokerProofs -----------------------------
(***************************************************************************)
(* The broker is type correct, and what a group has committed past is      *)
(* settled, for all keys, groups and topics, however many messages and     *)
(* consumers there are, and whatever the hash. What makes it inductive is  *)
(* that a consumer accounts for all it has read past: each such message is *)
(* in its hands, or settled for its group. A commit with empty hands then  *)
(* moves the group over settled messages only. That a key's messages stay  *)
(* in order rests on the same account, and on the logs: the key decides    *)
(* the log, and a log is in order of publication.                          *)
(***************************************************************************)
EXTENDS Broker, TLAPS

AnyTopic == UNION {TopicsOf(n) : n \in Widths}
AnyConsumer == UNION {ConsumersOf(n) : n \in Widths}

Types ==
  /\ topics \in Seq(AnyTopic)
  /\ consumers \in Seq(AnyConsumer)
  /\ taken \in Seq(SUBSET (Nat \X Nat)) /\ Len(taken) = Len(consumers)
  /\ last \in Seq(Int) /\ Len(last) = Len(consumers)
  /\ \A c \in 1 .. Len(consumers) :
       /\ consumers[c].topic \in 1 .. Len(topics)
       /\ consumers[c].position \in Positions(topics[consumers[c].topic].width)

Accounted ==
  \A c \in 1 .. Len(consumers) : \A p \in Partitions(topics[consumers[c].topic].width) :
    \A i \in Nat : i < consumers[c].position[p] =>
      \/ <<p, i>> \in taken[c]
      \/ <<consumers[c].topic, consumers[c].group, p, i>> \in settled

\* AtLeastOnce with its ranges written out.
Settled ==
  \A t \in 1 .. Len(topics) : \A g \in Groups : \A p \in Partitions(topics[t].width) :
    \A i \in Nat : i < topics[t].groups[g][p] => <<t, g, p, i>> \in settled

IInv == Types /\ Accounted /\ Settled

-----------------------------------------------------------------------------
\* What is in the sequence of topics is a topic of its own width.
LEMMA TopicShape ==
  ASSUME Types, NEW t \in 1 .. Len(topics)
  PROVE  /\ topics[t] \in TopicsOf(topics[t].width)
         /\ topics[t].width \in Widths
         /\ topics[t].width \in Nat /\ topics[t].width > 0
         /\ topics[t].groups \in [Groups -> Positions(topics[t].width)]
         /\ topics[t].logs \in [Partitions(topics[t].width) -> Seq([key : Keys, seq : Nat])]
<1>1. topics[t] \in AnyTopic
  BY DEF Types
<1>2. PICK n \in Widths : topics[t] \in TopicsOf(n)
  BY <1>1 DEF AnyTopic
<1>3. n \in Nat /\ n > 0
  BY BrokerAssumption DEF Widths
<1> QED
  BY <1>2, <1>3 DEF TopicsOf

\* And a consumer is a consumer of its topic's width.
LEMMA ConsumerShape ==
  ASSUME Types, NEW c \in 1 .. Len(consumers)
  PROVE  /\ consumers[c] \in ConsumersOf(topics[consumers[c].topic].width)
         /\ consumers[c].topic \in 1 .. Len(topics)
         /\ consumers[c].group \in Groups
         /\ consumers[c].position \in Positions(topics[consumers[c].topic].width)
<1>1. consumers[c] \in AnyConsumer
  BY DEF Types
<1>2. PICK n \in Widths : consumers[c] \in ConsumersOf(n)
  BY <1>1 DEF AnyConsumer
<1>3. consumers[c].position \in Positions(topics[consumers[c].topic].width)
  BY DEF Types
<1> QED
  BY <1>2, <1>3 DEF ConsumersOf, Types

\* A topic replaced by one of the same width, and a consumer by one of the
\* same topic, leave the sequences well formed.
LEMMA TopicReplaced ==
  ASSUME Types, NEW t \in 1 .. Len(topics), NEW new \in TopicsOf(topics[t].width)
  PROVE  /\ [topics EXCEPT ![t] = new] \in Seq(AnyTopic)
         /\ Len([topics EXCEPT ![t] = new]) = Len(topics)
         /\ \A u \in 1 .. Len(topics) : [topics EXCEPT ![t] = new][u].width = topics[u].width
<1>1. new \in AnyTopic /\ new.width = topics[t].width
  BY TopicShape DEF AnyTopic, TopicsOf
<1> QED
  BY <1>1 DEF Types

LEMMA ConsumerReplaced ==
  ASSUME Types, NEW c \in 1 .. Len(consumers),
         NEW pos \in Positions(topics[consumers[c].topic].width)
  PROVE  LET new == [consumers EXCEPT ![c].position = pos] IN
         /\ new \in Seq(AnyConsumer)
         /\ Len(new) = Len(consumers)
         /\ \A d \in 1 .. Len(consumers) :
              /\ new[d].topic = consumers[d].topic
              /\ new[d].group = consumers[d].group
              /\ new[d].position = IF d = c THEN pos ELSE consumers[d].position
<1> DEFINE w == topics[consumers[c].topic].width
           one == [consumers[c] EXCEPT !.position = pos]
<1>1. one \in ConsumersOf(w) /\ w \in Widths
  BY ConsumerShape, TopicShape DEF ConsumersOf
<1>2. one \in AnyConsumer
  BY <1>1 DEF AnyConsumer
<1>3. one.topic = consumers[c].topic /\ one.group = consumers[c].group /\ one.position = pos
  BY ConsumerShape DEF ConsumersOf
<1> HIDE DEF one
<1>4. [consumers EXCEPT ![c].position = pos] = [consumers EXCEPT ![c] = one]
  BY DEF one
<1>5. consumers \in Seq(AnyConsumer)
  BY DEF Types
<1>6. /\ [consumers EXCEPT ![c] = one] \in Seq(AnyConsumer)
      /\ Len([consumers EXCEPT ![c] = one]) = Len(consumers)
  BY <1>2, <1>5
<1>7. \A d \in 1 .. Len(consumers) :
        [consumers EXCEPT ![c] = one][d] = IF d = c THEN one ELSE consumers[d]
  BY <1>5
<1> QED
  BY <1>3, <1>4, <1>6, <1>7

-----------------------------------------------------------------------------
LEMMA InitInv == Init => IInv
BY DEF Init, IInv, Types, Accounted, Settled

\* A topic that did not exist has no committed offsets and no consumers.
LEMMA TopicInv ==
  ASSUME IInv, NEW name \in Names, NEW n \in Counts, Topic(name, n)
  PROVE  IInv'
<1> DEFINE new == NewTopic(name, Width(n))
<1>1. Width(n) \in Widths /\ Width(n) \in Nat \ {0}
  BY BrokerAssumption DEF Width, Widths
<1>2. new \in TopicsOf(Width(n))
  BY <1>1 DEF NewTopic, TopicsOf, Positions, Partitions
<1>3. new \in AnyTopic
  BY <1>1, <1>2 DEF AnyTopic
<1>4. \A g \in Groups : \A p \in Partitions(new.width) : new.groups[g][p] = 0
  BY DEF NewTopic, Partitions
<1> HIDE DEF new
<1>5. topics' = Append(topics, new) /\ UNCHANGED <<consumers, taken, settled, last>>
  BY DEF Topic, new
<1>6. topics \in Seq(AnyTopic)
  BY DEF IInv, Types
<1>7. /\ topics' \in Seq(AnyTopic)
      /\ Len(topics') = Len(topics) + 1
      /\ \A t \in 1 .. Len(topics) : topics'[t] = topics[t]
      /\ topics'[Len(topics) + 1] = new
  BY <1>3, <1>5, <1>6
<1>8. Len(topics) \in Nat
  BY <1>6
<1>9. Types'
  BY <1>5, <1>7, <1>8 DEF IInv, Types
<1>10. Accounted'
  BY <1>5, <1>7 DEF IInv, Accounted, Types
<1>11. Settled'
  <2> SUFFICES ASSUME NEW t \in 1 .. Len(topics'), NEW g \in Groups,
                      NEW p \in Partitions(topics'[t].width), NEW i \in Nat,
                      i < topics'[t].groups[g][p]
               PROVE  <<t, g, p, i>> \in settled
    BY <1>5 DEF Settled
  <2>1. CASE t \in 1 .. Len(topics)
    BY <2>1, <1>7 DEF IInv, Settled
  <2>2. CASE t = Len(topics) + 1
    BY <2>2, <1>4, <1>7
  <2> QED
    BY <2>1, <2>2, <1>7, <1>8
<1> QED
  BY <1>9, <1>10, <1>11 DEF IInv

\* A message published moves no offset.
LEMMA PublishInv ==
  ASSUME IInv, NEW t \in 1 .. Len(topics), NEW k \in Keys, Publish(t, k)
  PROVE  IInv'
<1> DEFINE w == topics[t].width
           p == PartitionOf(k, w)
           Messages == [key : Keys, seq : Nat]
           message == [key |-> k, seq |-> topics[t].published]
           logs == [topics[t].logs EXCEPT ![p] = Append(@, message)]
           new == [topics[t] EXCEPT !.published = @ + 1, !.logs = logs]
<1>1. Types
  BY DEF IInv
<1>2. topics[t] \in TopicsOf(w) /\ w \in Nat /\ w > 0
  BY <1>1, TopicShape
<1>3. p \in Partitions(w)
  BY <1>2, BrokerAssumption DEF PartitionOf, Partitions
<1>4. topics[t].published \in Nat /\ topics[t].logs \in [Partitions(w) -> Seq([key : Keys, seq : Nat])]
  BY <1>2 DEF TopicsOf
<1>5. logs \in [Partitions(w) -> Seq([key : Keys, seq : Nat])]
  <2>1. message \in Messages
    BY <1>4
  <2>2. topics[t].logs \in [Partitions(w) -> Seq(Messages)]
    BY <1>4
  <2> HIDE DEF Messages, message, p
  <2>3. Append(topics[t].logs[p], message) \in Seq(Messages)
    BY <2>1, <2>2, <1>3
  <2>4. logs \in [Partitions(w) -> Seq(Messages)]
    BY <2>2, <2>3, <1>3
  <2> QED
    BY <2>4 DEF Messages
<1> HIDE DEF logs, p, message
<1>6. new \in TopicsOf(w)
  <2> HIDE DEF w
  <2>1. topics[t].published + 1 \in Nat
    BY <1>4
  <2> QED
    BY <2>1, <1>2, <1>5 DEF TopicsOf
<1>7. new.groups = topics[t].groups /\ new.width = w
  BY <1>2 DEF TopicsOf
<1>8. topics' = [topics EXCEPT ![t] = new] /\ UNCHANGED <<consumers, taken, settled, last>>
  BY Zenon DEF Publish, logs, p, message
<1> HIDE DEF new
<1>9. topics \in Seq(AnyTopic)
  BY <1>1 DEF Types
<1>10. /\ topics' \in Seq(AnyTopic) /\ Len(topics') = Len(topics)
       /\ \A u \in 1 .. Len(topics) : topics'[u].width = topics[u].width
  BY <1>1, <1>6, <1>8, TopicReplaced
<1>11. \A u \in 1 .. Len(topics) : topics'[u].groups = topics[u].groups
  BY <1>7, <1>8, <1>9
<1>12. Types'
  BY <1>1, <1>8, <1>10 DEF Types
<1>13. Accounted'
  BY <1>8, <1>10, <1>1 DEF IInv, Accounted, Types
<1>14. Settled'
  BY <1>8, <1>10, <1>11 DEF IInv, Settled
<1> QED
  BY <1>12, <1>13, <1>14 DEF IInv

\* A consumer starts from its group's committed offsets, which are settled.
LEMMA SubscribeInv ==
  ASSUME IInv, NEW t \in 1 .. Len(topics), NEW g \in Groups, Subscribe(t, g)
  PROVE  IInv'
<1> DEFINE new == [topic |-> t, group |-> g, position |-> topics[t].groups[g]]
           n == Len(consumers)
<1>1. Types
  BY DEF IInv
<1>2. /\ topics[t].groups[g] \in Positions(topics[t].width) /\ topics[t].width \in Widths
  BY <1>1, TopicShape
<1>3. t \in Nat
  BY <1>1 DEF Types
<1>4. new \in AnyConsumer
  BY <1>2, <1>3 DEF AnyConsumer, ConsumersOf
<1>5. new.topic = t /\ new.group = g /\ new.position = topics[t].groups[g]
  OBVIOUS
<1> HIDE DEF new
<1>6. /\ consumers' = Append(consumers, new) /\ taken' = Append(taken, {})
      /\ last' = Append(last, -1) /\ UNCHANGED <<topics, settled>>
  BY DEF Subscribe, new
<1>7. /\ consumers \in Seq(AnyConsumer) /\ taken \in Seq(SUBSET (Nat \X Nat))
      /\ last \in Seq(Int) /\ Len(taken) = n /\ Len(last) = n /\ n \in Nat
  BY <1>1 DEF Types
<1>8. /\ consumers' \in Seq(AnyConsumer) /\ Len(consumers') = n + 1
      /\ \A c \in 1 .. n : consumers'[c] = consumers[c]
      /\ consumers'[n + 1] = new
  BY <1>4, <1>6, <1>7
<1>9. /\ taken' \in Seq(SUBSET (Nat \X Nat)) /\ Len(taken') = n + 1
      /\ \A c \in 1 .. n : taken'[c] = taken[c]
      /\ last' \in Seq(Int) /\ Len(last') = n + 1
  BY <1>6, <1>7
<1>10. \A c \in 1 .. n + 1 : c \in 1 .. n \/ c = n + 1
  BY <1>7
<1>11. Types'
  <2>1. ASSUME NEW c \in 1 .. Len(consumers')
        PROVE  /\ consumers'[c].topic \in 1 .. Len(topics')
               /\ consumers'[c].position \in Positions(topics'[consumers'[c].topic].width)
    <3>1. CASE c \in 1 .. n
      BY <3>1, <1>1, <1>6, <1>8 DEF Types
    <3>2. CASE c = n + 1
      BY <3>2, <1>2, <1>5, <1>6, <1>8
    <3> QED
      BY <3>1, <3>2, <1>8, <1>10
  <2> QED
    BY <2>1, <1>1, <1>6, <1>8, <1>9 DEF Types
<1>12. Accounted'
  <2> SUFFICES ASSUME NEW c \in 1 .. Len(consumers'),
                      NEW p \in Partitions(topics[consumers'[c].topic].width),
                      NEW i \in Nat, i < consumers'[c].position[p]
               PROVE  \/ <<p, i>> \in taken'[c]
                      \/ <<consumers'[c].topic, consumers'[c].group, p, i>> \in settled
    BY <1>6 DEF Accounted
  <2>1. CASE c \in 1 .. n
    BY <2>1, <1>8, <1>9 DEF IInv, Accounted
  <2>2. CASE c = n + 1
    BY <2>2, <1>5, <1>8 DEF IInv, Settled
  <2> QED
    BY <2>1, <2>2, <1>8, <1>10
<1>13. Settled'
  BY <1>6 DEF IInv, Settled
<1> QED
  BY <1>11, <1>12, <1>13 DEF IInv

\* A message polled goes into the consumer's hands as it is read past.
LEMMA PollInv ==
  ASSUME IInv, NEW c \in 1 .. Len(consumers), Poll(c)
  PROVE  IInv'
<1> DEFINE w == topics[consumers[c].topic].width
           old == consumers[c].position
<1>1. Types
  BY DEF IInv
<1>2. PICK p \in Unread(c) :
        /\ consumers' = [consumers EXCEPT ![c].position[p] = @ + 1]
        /\ taken' = [taken EXCEPT ![c] = @ \cup {<<p, old[p]>>}]
        /\ last' = [last EXCEPT ![c] = p]
        /\ UNCHANGED <<topics, settled>>
  BY DEF Poll
<1>3. p \in Partitions(w) /\ p \in Nat
  BY <1>1, <1>2, ConsumerShape, TopicShape DEF Unread, Partitions
<1> DEFINE pos == [old EXCEPT ![p] = @ + 1]
<1>4. old \in Positions(w) /\ pos \in Positions(w) /\ old[p] \in Nat
  BY <1>1, <1>3, ConsumerShape DEF Positions
<1>5. \A q \in Partitions(w) : pos[q] = IF q = p THEN old[p] + 1 ELSE old[q]
  BY <1>3, <1>4 DEF Positions
<1>6. consumers' = [consumers EXCEPT ![c].position = pos]
  BY <1>2
<1> HIDE DEF pos
<1>7. /\ consumers' \in Seq(AnyConsumer) /\ Len(consumers') = Len(consumers)
      /\ \A d \in 1 .. Len(consumers) :
           /\ consumers'[d].topic = consumers[d].topic
           /\ consumers'[d].group = consumers[d].group
           /\ consumers'[d].position = IF d = c THEN pos ELSE consumers[d].position
  <2> HIDE DEF old
  <2>1. pos \in Positions(topics[consumers[c].topic].width)
    BY <1>4
  <2> QED
    BY <2>1, <1>1, <1>6, ConsumerReplaced
<1>8. taken \in Seq(SUBSET (Nat \X Nat)) /\ Len(taken) = Len(consumers)
      /\ last \in Seq(Int) /\ Len(last) = Len(consumers)
  BY <1>1 DEF Types
<1>9. taken[c] \cup {<<p, old[p]>>} \in SUBSET (Nat \X Nat)
  BY <1>3, <1>4, <1>8
<1>10. /\ taken' \in Seq(SUBSET (Nat \X Nat)) /\ Len(taken') = Len(consumers)
       /\ last' \in Seq(Int) /\ Len(last') = Len(consumers)
       /\ \A d \in 1 .. Len(consumers) :
            taken'[d] = IF d = c THEN taken[c] \cup {<<p, old[p]>>} ELSE taken[d]
  BY <1>2, <1>3, <1>8, <1>9
<1>11. Types'
  <2>1. \A d \in 1 .. Len(consumers) :
          /\ consumers'[d].topic \in 1 .. Len(topics)
          /\ consumers'[d].position \in Positions(topics[consumers'[d].topic].width)
    BY <1>1, <1>4, <1>7 DEF Types
  <2> QED
    BY <2>1, <1>1, <1>2, <1>7, <1>10 DEF Types
<1>12. Accounted'
  <2> SUFFICES ASSUME NEW d \in 1 .. Len(consumers),
                      NEW q \in Partitions(topics[consumers[d].topic].width),
                      NEW i \in Nat, i < consumers'[d].position[q]
               PROVE  \/ <<q, i>> \in taken'[d]
                      \/ <<consumers[d].topic, consumers[d].group, q, i>> \in settled
    BY <1>2, <1>7 DEF Accounted
  <2>1. CASE d # c \/ q # p \/ i < old[p]
    <3>1. i < consumers[d].position[q]
      BY <2>1, <1>5, <1>7
    <3>2. \/ <<q, i>> \in taken[d]
          \/ <<consumers[d].topic, consumers[d].group, q, i>> \in settled
      BY <3>1 DEF IInv, Accounted
    <3> QED
      BY <3>2, <1>10
  <2>2. CASE d = c /\ q = p /\ i = old[p]
    BY <2>2, <1>10
  <2>3. d = c /\ q = p => i < old[p] + 1
    BY <1>3, <1>5, <1>7
  <2> QED
    BY <2>1, <2>2, <2>3, <1>4
<1>13. Settled'
  BY <1>2 DEF IInv, Settled
<1> QED
  BY <1>11, <1>12, <1>13 DEF IInv

\* A message finished with is settled as it leaves the consumer's hands.
LEMMA FinishInv ==
  ASSUME IInv, NEW c \in 1 .. Len(consumers), Finish(c)
  PROVE  IInv'
<1>1. PICK m \in taken[c] :
        /\ taken' = [taken EXCEPT ![c] = @ \ {m}]
        /\ settled' = settled \cup {Message(c, m)}
        /\ UNCHANGED <<topics, consumers, last>>
  BY DEF Finish
<1>2. taken \in Seq(SUBSET (Nat \X Nat)) /\ Len(taken) = Len(consumers)
  BY DEF IInv, Types
<1>3. taken[c] \ {m} \in SUBSET (Nat \X Nat)
  BY <1>2
<1>4. /\ taken' \in Seq(SUBSET (Nat \X Nat)) /\ Len(taken') = Len(taken)
      /\ \A d \in 1 .. Len(consumers) : taken'[d] = IF d = c THEN taken[c] \ {m} ELSE taken[d]
  BY <1>1, <1>2, <1>3
<1>5. Types'
  BY <1>1, <1>4 DEF IInv, Types
<1>6. Accounted'
  <2> SUFFICES ASSUME NEW d \in 1 .. Len(consumers),
                      NEW q \in Partitions(topics[consumers[d].topic].width),
                      NEW i \in Nat, i < consumers[d].position[q]
               PROVE  \/ <<q, i>> \in taken'[d]
                      \/ <<consumers[d].topic, consumers[d].group, q, i>> \in settled'
    BY <1>1 DEF Accounted
  <2>1. \/ <<q, i>> \in taken[d]
        \/ <<consumers[d].topic, consumers[d].group, q, i>> \in settled
    BY DEF IInv, Accounted
  <2>2. CASE d = c /\ <<q, i>> = m
    BY <2>2, <1>1 DEF Message
  <2>3. CASE d # c \/ <<q, i>> # m
    BY <2>1, <2>3, <1>1, <1>4
  <2> QED
    BY <2>2, <2>3
<1>7. Settled'
  BY <1>1 DEF IInv, Settled
<1> QED
  BY <1>5, <1>6, <1>7 DEF IInv

\* A consumer with empty hands has read past settled messages only, so its
\* group may be moved to where it is.
LEMMA CommitInv ==
  ASSUME IInv, NEW c \in 1 .. Len(consumers), Commit(c)
  PROVE  IInv'
<1> DEFINE t == consumers[c].topic
           g == consumers[c].group
           pos == consumers[c].position
           groups == [topics[t].groups EXCEPT ![g] = pos]
           new == [topics[t] EXCEPT !.groups = groups]
<1>1. Types
  BY DEF IInv
<1>2. t \in 1 .. Len(topics) /\ g \in Groups /\ pos \in Positions(topics[t].width)
  BY <1>1, ConsumerShape
<1>3. topics[t] \in TopicsOf(topics[t].width)
      /\ topics[t].groups \in [Groups -> Positions(topics[t].width)]
  BY <1>1, <1>2, TopicShape
<1>4. groups \in [Groups -> Positions(topics[t].width)]
      /\ \A h \in Groups : groups[h] = IF h = g THEN pos ELSE topics[t].groups[h]
  BY <1>2, <1>3
<1>5. taken[c] = {} /\ UNCHANGED <<consumers, taken, settled, last>>
      /\ topics' = [topics EXCEPT ![t] = new]
  BY DEF Commit
<1> HIDE DEF groups, t, g, pos
<1>6. new \in TopicsOf(topics[t].width) /\ new.groups = groups
  BY <1>3, <1>4 DEF TopicsOf
<1> HIDE DEF new
<1>7. /\ topics' \in Seq(AnyTopic) /\ Len(topics') = Len(topics)
      /\ \A u \in 1 .. Len(topics) : topics'[u].width = topics[u].width
  BY <1>1, <1>2, <1>5, <1>6, TopicReplaced
<1>8. topics \in Seq(AnyTopic)
  BY <1>1 DEF Types
<1>9. \A u \in 1 .. Len(topics) : topics'[u].groups = IF u = t THEN groups ELSE topics[u].groups
  BY <1>2, <1>5, <1>6, <1>8
<1>10. Types'
  BY <1>1, <1>5, <1>7 DEF Types
<1>11. Accounted'
  BY <1>1, <1>5, <1>7 DEF IInv, Accounted, Types
<1>12. Settled'
  <2> SUFFICES ASSUME NEW u \in 1 .. Len(topics), NEW h \in Groups,
                      NEW p \in Partitions(topics[u].width), NEW i \in Nat,
                      i < topics'[u].groups[h][p]
               PROVE  <<u, h, p, i>> \in settled
    BY <1>5, <1>7 DEF Settled
  <2>1. CASE u = t /\ h = g
    <3>1. i < consumers[c].position[p]
      BY <2>1, <1>4, <1>9 DEF pos
    <3>2. <<consumers[c].topic, consumers[c].group, p, i>> \in settled
      BY <3>1, <2>1, <1>5 DEF IInv, Accounted, t
    <3> QED
      BY <3>2, <2>1 DEF t, g
  <2>2. CASE u # t \/ h # g
    BY <2>2, <1>4, <1>9 DEF IInv, Settled
  <2> QED
    BY <2>1, <2>2
<1> QED
  BY <1>10, <1>11, <1>12 DEF IInv

\* What a consumer is told to seek past is settled by that.
LEMMA SeekInv ==
  ASSUME IInv, NEW c \in 1 .. Len(consumers), NEW p \in Int, NEW o \in Int, Seek(c, p, o)
  PROVE  IInv'
<1> DEFINE w == topics[consumers[c].topic].width
           old == consumers[c].position
           q == Clamp(p)
           n == Clamp(o)
           pos == [old EXCEPT ![q] = n]
<1>1. Types
  BY DEF IInv
<1>2. old \in Positions(w)
  BY <1>1, ConsumerShape
<1>3. n \in Nat /\ q \in Nat
  BY DEF Clamp
<1> HIDE DEF n, q
<1>4. q \in Partitions(w)
  BY <1>2 DEF Seek, Positions, q
<1>5. /\ pos \in Positions(w) /\ old[q] \in Nat
      /\ \A r \in Partitions(w) : pos[r] = IF r = q THEN n ELSE old[r]
  BY <1>2, <1>3, <1>4 DEF Positions
<1>6. /\ consumers' = [consumers EXCEPT ![c].position = pos]
      /\ settled' = settled \cup {Message(c, <<q, i>>) : i \in old[q] .. n - 1}
      /\ UNCHANGED <<topics, taken, last>>
  BY DEF Seek, q, n
<1> HIDE DEF pos
<1>7. /\ consumers' \in Seq(AnyConsumer) /\ Len(consumers') = Len(consumers)
      /\ \A d \in 1 .. Len(consumers) :
           /\ consumers'[d].topic = consumers[d].topic
           /\ consumers'[d].group = consumers[d].group
           /\ consumers'[d].position = IF d = c THEN pos ELSE consumers[d].position
  <2>1. c \in 1 .. Len(consumers) /\ pos \in Positions(topics[consumers[c].topic].width)
    BY <1>1, <1>5
  <2>2. consumers' = [consumers EXCEPT ![c].position = pos]
    BY <1>6
  <2> QED
    BY <1>1, <2>1, <2>2, ConsumerReplaced
<1>8. Types'
  BY <1>1, <1>5, <1>6, <1>7 DEF Types
<1>9. Accounted'
  <2> SUFFICES ASSUME NEW d \in 1 .. Len(consumers),
                      NEW r \in Partitions(topics[consumers[d].topic].width),
                      NEW i \in Nat, i < consumers'[d].position[r]
               PROVE  \/ <<r, i>> \in taken[d]
                      \/ <<consumers[d].topic, consumers[d].group, r, i>> \in settled'
    BY <1>6, <1>7 DEF Accounted
  <2>1. CASE i < consumers[d].position[r]
    BY <2>1, <1>6 DEF IInv, Accounted
  <2>2. CASE ~(i < consumers[d].position[r])
    <3>1. d = c /\ r = q
      BY <2>2, <1>5, <1>7
    <3>2. i \in old[q] .. n - 1
      BY <2>2, <3>1, <1>3, <1>5, <1>7
    <3>3. Message(c, <<q, i>>) \in settled'
      BY <3>2, <1>6
    <3> QED
      BY <3>1, <3>3 DEF Message
  <2> QED
    BY <2>1, <2>2
<1>10. Settled'
  BY <1>6 DEF IInv, Settled
<1> QED
  BY <1>8, <1>9, <1>10 DEF IInv

-----------------------------------------------------------------------------
LEMMA NextInv == IInv /\ [Next]_vars => IInv'
<1> SUFFICES ASSUME IInv, [Next]_vars PROVE IInv'
  OBVIOUS
<1>1. /\ DOMAIN topics = 1 .. Len(topics)
      /\ DOMAIN consumers = 1 .. Len(consumers)
      /\ \A c \in 1 .. Len(consumers) : topics[consumers[c].topic].width \in Nat
  BY ConsumerShape, TopicShape DEF IInv, Types
<1>2. CASE \E name \in Names, n \in Counts : Topic(name, n)
  BY <1>2, TopicInv
<1>3. CASE \E t \in DOMAIN topics, k \in Keys : Publish(t, k)
  BY <1>1, <1>3, PublishInv
<1>4. CASE \E t \in DOMAIN topics, g \in Groups : Subscribe(t, g)
  BY <1>1, <1>4, SubscribeInv
<1>5. CASE \E c \in DOMAIN consumers : Poll(c) \/ Finish(c) \/ Commit(c)
  BY <1>1, <1>5, PollInv, FinishInv, CommitInv
<1>6. CASE \E c \in DOMAIN consumers :
             \E p \in -1 .. topics[consumers[c].topic].width, o \in -1 .. MaxOffset : Seek(c, p, o)
  <2>1. PICK c \in 1 .. Len(consumers) :
          \E p \in -1 .. topics[consumers[c].topic].width, o \in -1 .. MaxOffset : Seek(c, p, o)
    BY <1>1, <1>6
  <2>2. \E p, o \in Int : Seek(c, p, o)
    BY <2>1, <1>1, BrokerAssumption
  <2> QED
    BY <2>2, SeekInv
<1>7. CASE UNCHANGED vars
  BY <1>7 DEF vars, IInv, Types, Accounted, Settled
<1> QED
  BY <1>2, <1>3, <1>4, <1>5, <1>6, <1>7 DEF Next

LEMMA Inductive == Spec => []IInv
BY InitInv, NextInv, PTL DEF Spec

\* The broker's state is always well formed: every log and every table of
\* offsets has exactly its topic's partitions, at least one, and no offset is
\* negative, whatever counts, offsets and partitions the program asks for.
THEOREM TypeCorrect == Spec => []TypeOK
<1>1. IInv => TypeOK
  <2> SUFFICES ASSUME IInv PROVE TypeOK
    OBVIOUS
  <2>1. ASSUME NEW t \in DOMAIN topics
        PROVE  \E n \in Widths : topics[t] \in TopicsOf(n)
    <3>1. Types /\ t \in 1 .. Len(topics)
      BY DEF IInv, Types
    <3> QED
      BY <3>1, TopicShape
  <2>2. ASSUME NEW c \in DOMAIN consumers
        PROVE  /\ consumers[c].topic \in DOMAIN topics
               /\ consumers[c] \in ConsumersOf(topics[consumers[c].topic].width)
    BY ConsumerShape DEF IInv, Types
  <2>3. /\ taken \in [DOMAIN consumers -> SUBSET (Nat \X Nat)]
        /\ last \in [DOMAIN consumers -> Int]
    BY DEF IInv, Types
  <2> QED
    BY <2>1, <2>2, <2>3 DEF TypeOK
<1> QED
  BY <1>1, Inductive, PTL

\* At-least-once delivery: a group has committed past no message that some
\* consumer of it has not finished with, or was not told to skip.
THEOREM NothingLost == Spec => []AtLeastOnce
<1>1. IInv => AtLeastOnce
  <2> SUFFICES ASSUME IInv, NEW t \in DOMAIN topics, NEW g \in Groups,
                      NEW p \in DOMAIN topics[t].logs,
                      NEW i \in 0 .. topics[t].groups[g][p] - 1
               PROVE  <<t, g, p, i>> \in settled
    BY DEF AtLeastOnce
  <2>1. t \in 1 .. Len(topics)
    BY DEF IInv, Types
  <2>2. p \in Partitions(topics[t].width) /\ topics[t].groups[g][p] \in Nat
    BY <2>1, TopicShape DEF IInv, Positions
  <2>3. i \in Nat /\ i < topics[t].groups[g][p]
    BY <2>2
  <2> QED
    BY <2>1, <2>2, <2>3 DEF IInv, Settled
<1> QED
  BY <1>1, Inductive, PTL
-----------------------------------------------------------------------------
\* A log holds the messages whose key its partition is for, in the order they
\* were published.
InOrder(topic) ==
  \A p \in Partitions(topic.width) :
    /\ \A i \in 1 .. Len(topic.logs[p]) :
         /\ PartitionOf(topic.logs[p][i].key, topic.width) = p
         /\ topic.logs[p][i].seq < topic.published
    /\ \A i, j \in 1 .. Len(topic.logs[p]) :
         i < j => topic.logs[p][i].seq < topic.logs[p][j].seq

Ordered == \A t \in 1 .. Len(topics) : InOrder(topics[t])

\* A message published goes to its key's log, behind everything published
\* before it.
LEMMA PublishOrdered ==
  ASSUME Types, Ordered, NEW t \in 1 .. Len(topics), NEW k \in Keys, Publish(t, k)
  PROVE  Ordered'
<1> DEFINE w == topics[t].width
           n == topics[t].published
           p == PartitionOf(k, w)
           Messages == [key : Keys, seq : Nat]
           message == [key |-> k, seq |-> n]
           old == topics[t].logs
           logs == [old EXCEPT ![p] = Append(@, message)]
           new == [topics[t] EXCEPT !.published = @ + 1, !.logs = logs]
<1>1. topics[t] \in TopicsOf(w) /\ w \in Nat /\ w > 0 /\ old \in [Partitions(w) -> Seq(Messages)]
  BY TopicShape
<1>2. n \in Nat
  BY <1>1 DEF TopicsOf
<1>3. p \in Partitions(w)
  BY <1>1, BrokerAssumption DEF PartitionOf, Partitions
<1>4. message \in Messages /\ message.key = k /\ message.seq = n
  BY <1>2
<1>5. topics \in Seq(AnyTopic)
  BY DEF Types
<1>6. topics' = [topics EXCEPT ![t] = new]
  BY Zenon DEF Publish
<1>7. new.width = w /\ new.published = n + 1 /\ new.logs = logs
  BY <1>1 DEF TopicsOf
<1> HIDE DEF new
<1>8. \A u \in 1 .. Len(topics) : topics'[u] = IF u = t THEN new ELSE topics[u]
  BY <1>5, <1>6
<1>9. Len(topics') = Len(topics)
  BY <1>5, <1>6
<1>10. InOrder(topics[t])
  BY DEF Ordered
<1> HIDE DEF message, Messages
<1>11. \A q \in Partitions(w) : logs[q] = IF q = p THEN Append(old[p], message) ELSE old[q]
  BY <1>1, <1>3
<1>12. \A q \in Partitions(w) : old[q] \in Seq(Messages) /\ Len(old[q]) \in Nat
  BY <1>1
<1>13. /\ Len(logs[p]) = Len(old[p]) + 1
       /\ logs[p][Len(old[p]) + 1] = message
       /\ \A i \in 1 .. Len(old[p]) : logs[p][i] = old[p][i]
  <2> HIDE DEF old, p, logs
  <2>1. logs[p] = Append(old[p], message) /\ old[p] \in Seq(Messages)
    BY <1>3, <1>11, <1>12
  <2> QED
    BY <2>1, <1>4
<1>14. \A q \in Partitions(w) : \A i \in 1 .. Len(old[q]) : old[q][i].seq \in Nat
  <2>1. \A q \in Partitions(w) : \A i \in 1 .. Len(old[q]) : old[q][i] \in Messages
    <3> HIDE DEF old, w
    <3> QED
      BY <1>12
  <2> QED
    BY <2>1 DEF Messages
<1> DEFINE Placed(q, i) == /\ PartitionOf(logs[q][i].key, w) = q
                           /\ logs[q][i].seq < n + 1
           Before(q, i, j) == i < j => logs[q][i].seq < logs[q][j].seq
<1> HIDE DEF logs
<1>15. ASSUME NEW q \in Partitions(w), NEW i \in 1 .. Len(logs[q]), ~(q = p /\ i = Len(old[p]) + 1)
       PROVE  i \in 1 .. Len(old[q]) /\ logs[q][i] = old[q][i]
  <2> HIDE DEF old, p, w
  <2>1. CASE q = p
    <3>1. Len(old[p]) \in Nat /\ i \in 1 .. Len(old[p]) + 1 /\ i # Len(old[p]) + 1
      BY <2>1, <1>3, <1>12, <1>13, <1>15
    <3>2. i \in 1 .. Len(old[p])
      BY <3>1
    <3> QED
      BY <2>1, <3>2, <1>13
  <2>2. CASE q # p
    BY <2>2, <1>11
  <2> QED
    BY <2>1, <2>2
<1>16. ASSUME NEW q \in Partitions(w), NEW i \in 1 .. Len(logs[q])
       PROVE  Placed(q, i)
  <2>1. CASE q = p /\ i = Len(old[p]) + 1
    BY <2>1, <1>2, <1>4, <1>13
  <2>2. CASE ~(q = p /\ i = Len(old[p]) + 1)
    <3>1. i \in 1 .. Len(old[q]) /\ logs[q][i] = old[q][i]
      BY <2>2, <1>15
    <3>2. PartitionOf(old[q][i].key, w) = q /\ old[q][i].seq < n /\ old[q][i].seq \in Nat
      BY <3>1, <1>10, <1>14 DEF InOrder
    <3> QED
      BY <3>1, <3>2, <1>2
  <2> QED
    BY <2>1, <2>2
<1>17. ASSUME NEW q \in Partitions(w), NEW i \in 1 .. Len(logs[q]), NEW j \in 1 .. Len(logs[q])
       PROVE  Before(q, i, j)
  <2> SUFFICES ASSUME i < j PROVE logs[q][i].seq < logs[q][j].seq
    OBVIOUS
  <2>1. i \in 1 .. Len(old[q]) /\ logs[q][i] = old[q][i]
    <3>1. Len(old[q]) \in Nat
      BY <1>12
    <3>2. CASE q = p
      <4> HIDE DEF old, p
      <4> QED
        BY <3>1, <3>2, <1>13
    <3>3. CASE q # p
      <4> HIDE DEF old, p
      <4> QED
        BY <3>1, <3>3, <1>11
    <3> QED
      BY <3>2, <3>3
  <2>2. CASE q = p /\ j = Len(old[p]) + 1
    BY <2>1, <2>2, <1>4, <1>10, <1>13 DEF InOrder
  <2>3. CASE ~(q = p /\ j = Len(old[p]) + 1)
    <3>1. j \in 1 .. Len(old[q]) /\ logs[q][j] = old[q][j]
      BY <2>3, <1>15
    <3> QED
      BY <3>1, <2>1, <1>10 DEF InOrder
  <2> QED
    BY <2>2, <2>3
<1>18. InOrder(new)
  BY <1>7, <1>16, <1>17 DEF InOrder
<1> QED
  BY <1>8, <1>9, <1>18 DEF Ordered

LEMMA DomainIs ==
  ASSUME NEW S, NEW T, NEW f \in [S -> T]
  PROVE  DOMAIN f = S
OBVIOUS

LEMMA UnreadIs ==
  ASSUME NEW c, NEW p \in Unread(c)
  PROVE  /\ p \in 0 .. topics[consumers[c].topic].width - 1
         /\ consumers[c].position[p] < Len(topics[consumers[c].topic].logs[p])
BY DEF Unread

LEMMA EntryIs ==
  ASSUME NEW t, NEW n \in Entries(t)
  PROVE  \E q \in DOMAIN topics[t].logs, i \in 0 .. topics[t].published - 1 : n = <<q, i>>
BY DEF Entries

\* No other step writes to a log: a new topic's are empty, and a commit only
\* moves its group.
LEMMA NextOrdered == IInv /\ Ordered /\ [Next]_vars => Ordered'
<1> SUFFICES ASSUME IInv, Ordered, [Next]_vars PROVE Ordered'
  OBVIOUS
<1>1. Types /\ topics \in Seq(AnyTopic)
  BY DEF IInv, Types
<1>2. CASE \E name \in Names, n \in Counts : Topic(name, n)
  <2>1. PICK name \in Names, n \in Counts : Topic(name, n)
    BY <1>2
  <2> DEFINE new == NewTopic(name, Width(n))
  <2>2. InOrder(new)
    BY DEF InOrder, NewTopic, Partitions
  <2> HIDE DEF new
  <2>3. topics' = Append(topics, new)
    BY <2>1 DEF Topic, new
  <2>4. \A t \in 1 .. Len(topics') : topics'[t] = new \/ (t \in 1 .. Len(topics) /\ topics'[t] = topics[t])
    BY <2>3, <1>1
  <2> QED
    BY <2>2, <2>4 DEF Ordered
<1>3. CASE \E t \in DOMAIN topics, k \in Keys : Publish(t, k)
  BY <1>1, <1>3, PublishOrdered
<1>4. CASE \E c \in DOMAIN consumers : Commit(c)
  <2>1. PICK c \in DOMAIN consumers : Commit(c)
    BY <1>4
  <2> DEFINE t == consumers[c].topic
             new == [topics[t] EXCEPT !.groups = [@ EXCEPT ![consumers[c].group] = consumers[c].position]]
  <2>2. t \in 1 .. Len(topics)
    BY <1>1, ConsumerShape DEF Types
  <2>3. new.width = topics[t].width /\ new.published = topics[t].published /\ new.logs = topics[t].logs
    BY <2>2, <1>1, TopicShape DEF TopicsOf
  <2>4. topics' = [topics EXCEPT ![t] = new]
    BY <2>1 DEF Commit
  <2> HIDE DEF new
  <2>5. InOrder(new)
    <3>1. InOrder(topics[t])
      BY <2>2 DEF Ordered
    <3> HIDE DEF t
    <3> QED
      BY <2>3, <3>1 DEF InOrder
  <2>6. Len(topics') = Len(topics) /\ \A u \in 1 .. Len(topics) : topics'[u] = IF u = t THEN new ELSE topics[u]
    BY <2>4, <1>1
  <2> QED
    BY <2>5, <2>6 DEF Ordered
<1>5. CASE UNCHANGED topics
  BY <1>5 DEF Ordered
<1>6. \/ \E name \in Names, n \in Counts : Topic(name, n)
      \/ \E t \in DOMAIN topics, k \in Keys : Publish(t, k)
      \/ \E c \in DOMAIN consumers : Commit(c)
      \/ UNCHANGED topics
  BY DEF Next, vars, Subscribe, Poll, Finish, Seek
<1> QED
  BY <1>2, <1>3, <1>4, <1>5, <1>6

\* Only a poll puts a message in a consumer's hands, and the message is the
\* first the consumer has not read in its partition.
LEMMA OnlyPollTakes ==
  ASSUME IInv, [Next]_vars, NEW c \in DOMAIN taken, NEW m, Polled(c, m)
  PROVE  \E p \in Unread(c) : m = <<p, consumers[c].position[p]>>
<1>1. /\ taken \in Seq(SUBSET (Nat \X Nat)) /\ Len(taken) = Len(consumers)
      /\ DOMAIN taken = 1 .. Len(taken) /\ DOMAIN consumers = 1 .. Len(consumers)
  BY DEF IInv, Types
<1>2. m \in taken'[c] /\ m \notin taken[c]
  BY DEF Polled
<1>3. CASE \E t \in DOMAIN topics, g \in Groups : Subscribe(t, g)
  BY <1>1, <1>2, <1>3 DEF Subscribe
<1>4. CASE \E d \in DOMAIN consumers : Poll(d)
  <2>1. PICK d \in DOMAIN consumers : Poll(d)
    BY <1>4
  <2>2. PICK p \in Unread(d) : taken' = [taken EXCEPT ![d] = @ \cup {<<p, consumers[d].position[p]>>}]
    BY <2>1 DEF Poll
  <2>3. d = c /\ m = <<p, consumers[d].position[p]>>
    BY <2>2, <1>1, <1>2
  <2> QED
    BY <2>2, <2>3
<1>5. CASE \E d \in DOMAIN consumers : Finish(d)
  BY <1>1, <1>2, <1>5 DEF Finish
<1>6. CASE UNCHANGED taken
  BY <1>2, <1>6
<1>7. \/ \E t \in DOMAIN topics, g \in Groups : Subscribe(t, g)
      \/ \E d \in DOMAIN consumers : Poll(d)
      \/ \E d \in DOMAIN consumers : Finish(d)
      \/ UNCHANGED taken
  BY Zenon DEF Next, vars, Topic, Publish, Commit, Seek
<1> QED
  BY <1>3, <1>4, <1>5, <1>6, <1>7

\* n is published before m, in the same topic, with the same key.
Earlier(c, m, n) ==
  /\ n \in Entries(consumers[c].topic)
  /\ n[2] < Len(topics[consumers[c].topic].logs[n[1]])
  /\ Entry(consumers[c].topic, n).key = Entry(consumers[c].topic, m).key
  /\ Entry(consumers[c].topic, n).seq < Entry(consumers[c].topic, m).seq

\* Messages that share a key stay in order with each other: when a consumer
\* takes one, every earlier one of that key in the topic is in its hands, or
\* handled or skipped by its group. The earlier one is in the same log, since
\* the key decides the log, and before it there, since a log is in order of
\* publication: so the consumer has read past it, and accounts for it.
THEOREM KeysInOrder == Spec => KeyOrder
<1>1. Init => Ordered
  BY DEF Init, Ordered
<1>2. Spec => []Ordered
  BY <1>1, Inductive, NextOrdered, PTL DEF Spec
<1>3. IInv /\ Ordered /\ [Next]_vars => [KeyOrderStep]_vars
  <2> SUFFICES ASSUME IInv, Ordered, [Next]_vars, NEW c \in DOMAIN taken,
                      NEW m \in Entries(consumers[c].topic), Polled(c, m),
                      NEW n \in Entries(consumers[c].topic), Earlier(c, m, n)
               PROVE  n \in taken[c] \/ Message(c, n) \in settled
    BY DEF KeyOrderStep, Earlier
  <2> DEFINE t == consumers[c].topic
             w == topics[t].width
             logs == topics[t].logs
             position == consumers[c].position
             Messages == [key : Keys, seq : Nat]
  <2>1. Types /\ c \in 1 .. Len(consumers)
    BY DEF IInv, Types
  <2>2. /\ t \in 1 .. Len(topics) /\ w \in Nat /\ position \in Positions(w)
        /\ logs \in [Partitions(w) -> Seq(Messages)] /\ InOrder(topics[t])
    BY <2>1, ConsumerShape, TopicShape DEF Ordered
  <2>3. topics[t].published \in Nat
    BY <2>1, <2>2, TopicShape DEF TopicsOf
  <2>4. PICK p \in Unread(c) : m = <<p, position[p]>>
    BY OnlyPollTakes
  <2>5. p \in Partitions(w) /\ position[p] \in Nat /\ position[p] < Len(logs[p])
    <3>1. p \in 0 .. w - 1 /\ position[p] < Len(logs[p])
      BY UnreadIs, Zenon
    <3>2. position \in Positions(w)
      BY <2>2
    <3> QED
      BY <3>1, <3>2 DEF Partitions, Positions
  <2>6. PICK q \in Partitions(w), i \in Nat : n = <<q, i>>
    <3>3. n \in Entries(t)
      OBVIOUS
    <3> HIDE DEF t, w, position, Messages
    <3>1. PICK q \in DOMAIN logs, i \in 0 .. topics[t].published - 1 : n = <<q, i>>
      BY <3>3, EntryIs
    <3> HIDE DEF logs
    <3>2. DOMAIN logs = Partitions(w)
      BY <2>2, DomainIs, Zenon
    <3> QED
      BY <3>1, <3>2, <2>3
  <2>7. /\ i < Len(logs[q])
        /\ logs[q][i + 1].key = logs[p][position[p] + 1].key
        /\ logs[q][i + 1].seq < logs[p][position[p] + 1].seq
    <3>1. n[1] = q /\ n[2] = i /\ m[1] = p /\ m[2] = position[p]
      BY <2>4, <2>6
    <3> QED
      BY <3>1, Zenon DEF Entry, Earlier
  <2> HIDE DEF t, logs, position, Messages, w
  <2>8. logs[p] \in Seq(Messages) /\ logs[q] \in Seq(Messages) /\ Len(logs[p]) \in Nat /\ Len(logs[q]) \in Nat
    BY <2>2, <2>5
  <2>9. position[p] + 1 \in 1 .. Len(logs[p]) /\ i + 1 \in 1 .. Len(logs[q])
    BY <2>5, <2>7, <2>8
  <2>10. PartitionOf(logs[p][position[p] + 1].key, w) = p /\ PartitionOf(logs[q][i + 1].key, w) = q
    BY <2>2, <2>5, <2>9 DEF InOrder, logs, w
  <2>11. q = p
    BY <2>7, <2>10
  <2>12. \A j, k \in 1 .. Len(logs[p]) : j < k => logs[p][j].seq < logs[p][k].seq
    BY <2>2, <2>5 DEF InOrder, logs, w
  <2>13. logs[p][position[p] + 1] \in Messages /\ logs[p][i + 1] \in Messages
    BY <2>8, <2>9, <2>11
  <2>14. logs[p][position[p] + 1].seq \in Nat /\ logs[p][i + 1].seq \in Nat
    BY <2>13 DEF Messages
  <2>15. ~(position[p] + 1 < i + 1) /\ position[p] # i
    BY <2>7, <2>9, <2>11, <2>12, <2>14
  <2>16. i < position[p]
    BY <2>5, <2>6, <2>15
  <2> QED
    BY <2>1, <2>5, <2>6, <2>11, <2>16 DEF IInv, Accounted, Message, t, position, w
<1> QED
  BY <1>2, <1>3, Inductive, PTL DEF Spec, KeyOrder
=============================================================================
