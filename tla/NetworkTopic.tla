---------------------------- MODULE NetworkTopic ----------------------------
(***************************************************************************)
(* One topic behind the wrappers of wpi_compat/nt/dynamic.py: a            *)
(* DynamicPublisher and a DynamicSubscriber that are enabled and disabled  *)
(* while values are set and read.                                          *)
(*                                                                         *)
(* NetworkTables keeps the last value of a topic as long as somebody       *)
(* publishes it, hands it to a new subscriber, and stores for each         *)
(* subscriber what it has not read.                                        *)
(***************************************************************************)
EXTENDS Naturals, Sequences, FiniteSets

CONSTANTS
  Payloads,     \* values to publish
  NoValue,
  Storage,      \* how many values NetworkTables stores with sendAll
  QueueCap,     \* 256 in the code
  MaxSets       \* bound: values that are published

ASSUME TopicAssumption ==
  /\ Storage \in Nat \ {0} /\ QueueCap \in Nat /\ MaxSets \in Nat
  /\ NoValue \notin Payloads \cup (Payloads \X (1..MaxSets))

VARIABLES
  kind,         \* the kind of topic that stands for the type, or NoTopic
  options,      \* PubSubOptions
  pub,          \* DynamicPublisher: enabled, _last
  sub,          \* DynamicSubscriber: enabled, the length of _read_queue, _fresh_data
  topicValue,   \* the last value, with its time
  unread,       \* what the subscriber has not read
  sets,         \* values published so far
  asked,        \* history: what the publisher was asked for since it is enabled
  due           \* history: the newest value since the subscriber is enabled
                \*   that no get_fresh has returned

topicVars == <<kind, options, pub, sub, topicValue, unread, sets, asked, due>>

-----------------------------------------------------------------------------
(* The topic of a type *)

\* bool has no factory for lists that NetworkTables knows.
Elements   == {"bool", "scalar", "struct", "proto", "other"}
TopicTypes == [list : BOOLEAN, of : Elements]
Modes      == {"any", "scalar", "struct", "proto"}

\* A TypeError.
NoTopic == [list |-> FALSE, of |-> "other"]

ModeOf(element) == IF element = "bool" THEN "scalar" ELSE element

\* _topic_factory: a mode restricts the search; there are no lists of protobufs.
Factory(type, mode) ==
  IF type.of # "other" /\ (type.list => type.of # "proto")
       /\ mode \in {"any", ModeOf(type.of)}
  THEN type ELSE NoTopic

\* What the wrappers can be started with ...
Usable(k) == k # NoTopic /\ k # [list |-> TRUE, of |-> "bool"]
\* ... and read: the subscriber of a protobuf topic has no queue.
Readable(k) == Usable(k) /\ k.of # "proto"

NoPublisher  == [enabled |-> FALSE, last |-> NoValue]
NoSubscriber == [enabled |-> FALSE, queued |-> 0, fresh |-> NoValue]

TopicInit ==
  /\ \E type \in TopicTypes, mode \in Modes : kind = Factory(type, mode)
  /\ options \in [keepDuplicates : BOOLEAN, sendAll : BOOLEAN]
  /\ pub = NoPublisher /\ sub = NoSubscriber
  /\ topicValue = NoValue /\ unread = <<>>
  /\ sets = 0
  /\ asked = NoValue /\ due = NoValue

-----------------------------------------------------------------------------
(* NetworkTables *)

LastIn(seq) == IF seq = <<>> THEN NoValue ELSE seq[Len(seq)]

Room == IF options.sendAll THEN Storage ELSE 1

\* A value that repeats the last one is published again only if it is asked for.
Publish(v) ==
  IF ~options.keepDuplicates /\ topicValue # NoValue /\ topicValue[1] = v
  THEN UNCHANGED <<topicValue, unread, sets, due>>
  ELSE LET value  == <<v, sets + 1>>
           stored == SubSeq(unread, IF Len(unread) < Room THEN 1 ELSE 2, Len(unread))
       IN  /\ sets < MaxSets
           /\ sets' = sets + 1
           /\ topicValue' = value
           /\ unread' = IF sub.enabled THEN Append(stored, value) ELSE <<>>
           /\ due' = IF sub.enabled THEN value ELSE NoValue

-----------------------------------------------------------------------------
(* DynamicPublisher *)

StartPublisher == pub' = [pub EXCEPT !.enabled = TRUE]

\* A mutated form of StopPublisher: what was published is remembered.
StopPublisherKeepsLast == pub' = [pub EXCEPT !.enabled = FALSE]

StopPublisher == pub' = NoPublisher

\* The setter of enabled; a topic that nobody publishes has no value.
EnablePublisher(on) ==
  /\ on # pub.enabled
  /\ IF on THEN StartPublisher ELSE StopPublisher
  /\ topicValue' = IF on THEN topicValue ELSE NoValue
  /\ asked' = NoValue

Set(v) ==
  /\ pub.enabled
  /\ Publish(v)
  /\ pub' = [pub EXCEPT !.last = v]

\* set: nothing happens unless it is enabled.
SetAlways(v) ==
  /\ Set(v)
  /\ asked' = v
  /\ UNCHANGED <<kind, options, sub>>

\* set_fresh
SetFresh(v) ==
  /\ pub.enabled
  /\ IF pub.last # v THEN Set(v) ELSE UNCHANGED <<pub, topicValue, unread, sets, due>>
  /\ asked' = v
  /\ UNCHANGED <<kind, options, sub>>

-----------------------------------------------------------------------------
(* DynamicSubscriber *)

\* start: NetworkTables queues the value that the topic has.
StartSubscriber ==
  /\ sub' = [sub EXCEPT !.enabled = TRUE]
  /\ unread' = IF topicValue' = NoValue THEN <<>> ELSE <<topicValue'>>

StopSubscriber ==
  /\ sub' = NoSubscriber
  /\ unread' = <<>>

EnableSubscriber(on) ==
  /\ on # sub.enabled
  /\ IF on THEN StartSubscriber ELSE StopSubscriber
  /\ due' = IF on THEN topicValue' ELSE NoValue

\* _pull_queue: the list is cut before it is extended.
Pulled ==
  IF ~sub.enabled THEN sub
  ELSE [sub EXCEPT
         !.queued = (IF @ > QueueCap THEN QueueCap ELSE @) + Len(unread),
         !.fresh = IF unread = <<>> THEN @ ELSE LastIn(unread)]

\* readQueue returns the list that it clears.
ReadQueue ==
  /\ Readable(kind)
  /\ sub' = [Pulled EXCEPT !.queued = 0]
  /\ unread' = <<>>
  /\ UNCHANGED <<kind, options, pub, topicValue, sets, asked, due>>

\* get_fresh
GetFresh ==
  /\ Readable(kind)
  /\ sub' = [Pulled EXCEPT !.fresh = NoValue]
  /\ unread' = <<>>
  /\ due' = NoValue
  /\ UNCHANGED <<kind, options, pub, topicValue, sets, asked>>

-----------------------------------------------------------------------------

\* Comms._reset: the setters of one configuration after another; a setter
\* returns early where nothing changes.
Reset(publish, subscribe) ==
  /\ Usable(kind)
  /\ publish # pub.enabled \/ subscribe # sub.enabled
  /\ IF publish = pub.enabled THEN UNCHANGED <<pub, topicValue, asked>>
     ELSE EnablePublisher(publish)
  /\ IF subscribe = sub.enabled THEN UNCHANGED <<sub, unread, due>>
     ELSE EnableSubscriber(subscribe)
  /\ UNCHANGED <<kind, options, sets>>

TopicNext ==
  \/ \E publish, subscribe \in BOOLEAN : Reset(publish, subscribe)
  \/ \E v \in Payloads : SetAlways(v) \/ SetFresh(v)
  \/ ReadQueue \/ GetFresh

TopicSpec == TopicInit /\ [][TopicNext]_topicVars

-----------------------------------------------------------------------------
(* Properties *)

\* The topic has the value that the publisher was last asked for since it is
\* enabled, whether by set or by set_fresh, which may keep what it believes to
\* be published already; and get_fresh returns the newest value that it has not
\* returned, however many have come, whatever readQueue took meanwhile, and
\* nothing from before the subscriber was disabled.
NewestOnce ==
  /\ (IF topicValue = NoValue THEN NoValue ELSE topicValue[1]) = asked
  /\ Pulled.fresh = due
=============================================================================
