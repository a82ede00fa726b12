--------------------------- MODULE Network_proof ---------------------------
(***************************************************************************)
(* What the two ends of a topic agree on (NetworkTopic), for any values,   *)
(* any size of the storage and the queue, and any order of enabling,       *)
(* setting and reading; and what the robot publishes (NetworkLink), for    *)
(* any configurations, restarts and losses of the link.                    *)
(***************************************************************************)
EXTENDS NetworkTopic, NetworkLink, SequenceTheorems, TLAPS

Stamped == Payloads \X (1..MaxSets)
Maybe(S) == S \cup {NoValue}

TopicTypeOK ==
  /\ pub \in [enabled : BOOLEAN, last : Maybe(Payloads)]
  /\ sub \in [enabled : BOOLEAN, queued : Nat, fresh : Maybe(Stamped)]
  /\ topicValue \in Maybe(Stamped) /\ unread \in Seq(Stamped)
  /\ sets \in 0..MaxSets

\* The publisher's end: what it remembers is what it was asked for and what the topic has,
\* and nothing is left of it when it is disabled.
PublisherInStep ==
  /\ (IF topicValue = NoValue THEN NoValue ELSE topicValue[1]) = asked
  /\ pub.last = asked
  /\ ~pub.enabled => topicValue = NoValue

\* The subscriber's end: the value due is the last that is unread, or else the one that
\* was kept when the others were read.
SubscriberInStep ==
  /\ (IF unread = <<>> THEN sub.fresh ELSE LastIn(unread)) = due
  /\ ~sub.enabled => unread = <<>> /\ sub.fresh = NoValue

\* Inductive.
TopicInv == TopicTypeOK /\ PublisherInStep /\ SubscriberInStep

USE DEF Maybe

LEMMA StampedIsNone ==
  /\ NoValue \notin Payloads /\ NoValue \notin Stamped
  /\ \A x \in Stamped : x[1] \in Payloads
BY TopicAssumption DEF Stamped

LEMMA TopicInvInit == TopicInit => TopicInv
BY TopicAssumption
   DEF TopicInit, TopicInv, TopicTypeOK, PublisherInStep, SubscriberInStep, NoPublisher, NoSubscriber

\* The value that was appended is the last one.
LEMMA LastOfAppend ==
  ASSUME NEW S, NEW s \in Seq(S), NEW x \in S
  PROVE  Append(s, x) \in Seq(S) /\ Append(s, x) # <<>> /\ LastIn(Append(s, x)) = x
BY DEF LastIn

\* What NetworkTables keeps when there is no room for another value.
LEMMA StoredTyped ==
  ASSUME unread \in Seq(Stamped)
  PROVE  SubSeq(unread, IF Len(unread) < Room THEN 1 ELSE 2, Len(unread)) \in Seq(Stamped)
<1>1. Room \in Nat \ {0} BY TopicAssumption DEF Room
<1>2. Len(unread) \in Nat OBVIOUS
<1>3. (IF Len(unread) < Room THEN 1 ELSE 2) \in 1..(Len(unread) + 1)
  BY <1>1, <1>2
<1>4. Len(unread) \in 0..Len(unread) BY <1>2
<1>5. QED BY <1>3, <1>4, SubSeqProperties

\* NetworkTables takes a value, from a publisher that then remembers it (set).
LEMMA SetKeeps ==
  ASSUME TopicInv, NEW v \in Payloads, Set(v), asked' = v, UNCHANGED sub
  PROVE  TopicInv'
<1>1. pub' = [pub EXCEPT !.last = v] /\ pub.enabled /\ Publish(v)
  BY DEF Set
<1>2. /\ pub' \in [enabled : BOOLEAN, last : Maybe(Payloads)]
      /\ pub'.last = v /\ pub'.enabled
  BY <1>1 DEF TopicInv, TopicTypeOK
<1>3. CASE ~options.keepDuplicates /\ topicValue # NoValue /\ topicValue[1] = v
  <2>1. UNCHANGED <<topicValue, unread, sets, due>>
    BY <1>1, <1>3 DEF Publish
  <2>2. QED
    BY <1>2, <1>3, <2>1 DEF TopicInv, TopicTypeOK, PublisherInStep, SubscriberInStep, LastIn
<1>4. CASE ~(~options.keepDuplicates /\ topicValue # NoValue /\ topicValue[1] = v)
  <2> DEFINE value == <<v, sets + 1>>
             stored == SubSeq(unread, IF Len(unread) < Room THEN 1 ELSE 2, Len(unread))
  <2>1. /\ sets < MaxSets /\ sets' = sets + 1 /\ topicValue' = value
        /\ unread' = (IF sub.enabled THEN Append(stored, value) ELSE <<>>)
        /\ due' = (IF sub.enabled THEN value ELSE NoValue)
    BY <1>1, <1>4 DEF Publish
  <2>2. sets' \in 0..MaxSets /\ sets + 1 \in 1..MaxSets
    BY <2>1, TopicAssumption DEF TopicInv, TopicTypeOK
  <2>3. value \in Stamped /\ value # NoValue /\ value[1] = v
    BY <2>2, StampedIsNone DEF Stamped
  <2>4. stored \in Seq(Stamped)
    BY StoredTyped DEF TopicInv, TopicTypeOK
  <2> HIDE DEF value, stored
  <2>5. Append(stored, value) \in Seq(Stamped) /\ Append(stored, value) # <<>>
          /\ LastIn(Append(stored, value)) = value
    BY <2>3, <2>4, LastOfAppend
  <2>6. unread' \in Seq(Stamped)
    BY <2>1, <2>5
  <2>7. TopicTypeOK'
    BY <1>2, <2>1, <2>2, <2>3, <2>6 DEF TopicInv, TopicTypeOK
  <2>8. PublisherInStep'
    BY <1>2, <2>1, <2>3 DEF PublisherInStep
  <2>9. SubscriberInStep'
    <3>1. CASE sub.enabled
      <4>1. LastIn(unread') = value /\ unread' # <<>> /\ due' = value
        BY <2>1, <2>5, <3>1
      <4>2. LastIn(unread)' = LastIn(unread')
        BY DEF LastIn
      <4>3. QED BY <3>1, <4>1, <4>2 DEF SubscriberInStep
    <3>2. CASE ~sub.enabled
      BY <2>1, <3>2 DEF TopicInv, SubscriberInStep
    <3>3. QED BY <3>1, <3>2
  <2>10. QED BY <2>7, <2>8, <2>9 DEF TopicInv
<1>5. QED BY <1>3, <1>4

\* The publisher is enabled or disabled, or stays as it is (Reset).
LEMMA PublisherReset ==
  ASSUME TopicInv, NEW publish \in BOOLEAN,
         IF publish = pub.enabled THEN UNCHANGED <<pub, topicValue, asked>>
         ELSE EnablePublisher(publish)
  PROVE  /\ pub' \in [enabled : BOOLEAN, last : Maybe(Payloads)]
         /\ topicValue' \in Maybe(Stamped)
         /\ PublisherInStep'
<1>1. CASE publish = pub.enabled
  BY <1>1 DEF TopicInv, TopicTypeOK, PublisherInStep
<1>2. CASE publish # pub.enabled /\ publish
  BY <1>2 DEF TopicInv, TopicTypeOK, PublisherInStep, EnablePublisher, StartPublisher
<1>3. CASE publish # pub.enabled /\ ~publish
  <2>1. pub' = NoPublisher /\ topicValue' = NoValue /\ asked' = NoValue
    BY <1>3 DEF EnablePublisher, StopPublisher
  <2>2. /\ NoPublisher \in [enabled : BOOLEAN, last : Maybe(Payloads)]
        /\ NoPublisher.last = NoValue
    BY DEF NoPublisher
  <2>3. QED BY <2>1, <2>2 DEF PublisherInStep
<1>4. QED BY <1>1, <1>2, <1>3

LEMMA SubscriberReset ==
  ASSUME TopicInv, NEW subscribe \in BOOLEAN, topicValue' \in Maybe(Stamped),
         IF subscribe = sub.enabled THEN UNCHANGED <<sub, unread, due>>
         ELSE EnableSubscriber(subscribe)
  PROVE  /\ sub' \in [enabled : BOOLEAN, queued : Nat, fresh : Maybe(Stamped)]
         /\ unread' \in Seq(Stamped)
         /\ SubscriberInStep'
<1>1. CASE subscribe = sub.enabled
  BY <1>1 DEF TopicInv, TopicTypeOK, SubscriberInStep, LastIn
<1>2. CASE subscribe # sub.enabled /\ subscribe
  <2>1. /\ sub' = [sub EXCEPT !.enabled = TRUE] /\ ~sub.enabled
        /\ unread' = (IF topicValue' = NoValue THEN <<>> ELSE <<topicValue'>>)
        /\ due' = topicValue'
    BY <1>2 DEF EnableSubscriber, StartSubscriber
  <2>2. /\ sub' \in [enabled : BOOLEAN, queued : Nat, fresh : Maybe(Stamped)]
        /\ sub'.enabled /\ sub'.fresh = NoValue
    BY <2>1 DEF TopicInv, TopicTypeOK, SubscriberInStep
  <2>3. CASE topicValue' = NoValue
    BY <2>1, <2>2, <2>3 DEF SubscriberInStep
  <2>4. CASE topicValue' # NoValue
    <3>1. unread' = <<topicValue'>> /\ topicValue' \in Stamped
      BY <2>1, <2>4
    <3>2. unread' \in Seq(Stamped) /\ unread' # <<>> /\ unread'[Len(unread')] = topicValue'
      BY <3>1
    <3>3. QED BY <2>1, <2>2, <3>2 DEF SubscriberInStep, LastIn
  <2>5. QED BY <2>3, <2>4
<1>3. CASE subscribe # sub.enabled /\ ~subscribe
  <2>1. sub' = NoSubscriber /\ unread' = <<>> /\ due' = NoValue
    BY <1>3 DEF EnableSubscriber, StopSubscriber
  <2>2. /\ NoSubscriber \in [enabled : BOOLEAN, queued : Nat, fresh : Maybe(Stamped)]
        /\ NoSubscriber.fresh = NoValue
    BY DEF NoSubscriber
  <2>3. unread' \in Seq(Stamped)
    BY <2>1
  <2>4. QED BY <2>1, <2>2, <2>3 DEF SubscriberInStep
<1>4. QED BY <1>1, <1>2, <1>3

\* What a read leaves (readQueue, get_fresh).
LEMMA PulledTyped ==
  ASSUME TopicInv
  PROVE  /\ Pulled \in [enabled : BOOLEAN, queued : Nat, fresh : Maybe(Stamped)]
         /\ Pulled.fresh = due
         /\ Pulled.enabled = sub.enabled
<1>1. CASE ~sub.enabled
  BY <1>1 DEF Pulled, TopicInv, TopicTypeOK, SubscriberInStep
<1>2. CASE sub.enabled
  <2> DEFINE n == (IF sub.queued > QueueCap THEN QueueCap ELSE sub.queued) + Len(unread)
             f == IF unread = <<>> THEN sub.fresh ELSE LastIn(unread)
  <2>1. Pulled = [sub EXCEPT !.queued = n, !.fresh = f]
    BY <1>2 DEF Pulled
  <2>2. n \in Nat
    <3>1. Len(unread) \in Nat /\ sub.queued \in Nat
      BY DEF TopicInv, TopicTypeOK
    <3>2. QED BY <3>1, TopicAssumption
  <2>3. f = due BY DEF TopicInv, SubscriberInStep
  <2>4. f \in Maybe(Stamped)
    <3>1. CASE unread = <<>>
      BY <3>1 DEF TopicInv, TopicTypeOK
    <3>2. CASE unread # <<>>
      <4>1. Len(unread) \in 1..Len(unread)
        BY <3>2 DEF TopicInv, TopicTypeOK
      <4>2. QED BY <3>2, <4>1 DEF TopicInv, TopicTypeOK, LastIn
    <3>3. QED BY <3>1, <3>2
  <2> HIDE DEF n, f
  <2>5. QED BY <2>1, <2>2, <2>3, <2>4 DEF TopicInv, TopicTypeOK
<1>3. QED BY <1>1, <1>2

LEMMA TopicInvStep == TopicInv /\ [TopicNext]_topicVars => TopicInv'
<1> SUFFICES ASSUME TopicInv, [TopicNext]_topicVars PROVE TopicInv'
  OBVIOUS
<1>1. ASSUME NEW publish \in BOOLEAN, NEW subscribe \in BOOLEAN, Reset(publish, subscribe)
      PROVE  TopicInv'
  <2>1. /\ IF publish = pub.enabled THEN UNCHANGED <<pub, topicValue, asked>>
           ELSE EnablePublisher(publish)
        /\ IF subscribe = sub.enabled THEN UNCHANGED <<sub, unread, due>>
           ELSE EnableSubscriber(subscribe)
        /\ sets' = sets
    BY <1>1 DEF Reset
  <2>2. /\ pub' \in [enabled : BOOLEAN, last : Maybe(Payloads)]
        /\ topicValue' \in Maybe(Stamped)
        /\ PublisherInStep'
    BY <2>1, PublisherReset
  <2>3. /\ sub' \in [enabled : BOOLEAN, queued : Nat, fresh : Maybe(Stamped)]
        /\ unread' \in Seq(Stamped)
        /\ SubscriberInStep'
    BY <2>1, <2>2, SubscriberReset
  <2>4. QED BY <2>1, <2>2, <2>3 DEF TopicInv, TopicTypeOK
<1>2. ASSUME NEW v \in Payloads, SetAlways(v) PROVE TopicInv'
  BY <1>2, SetKeeps DEF SetAlways
<1>3. ASSUME NEW v \in Payloads, SetFresh(v) PROVE TopicInv'
  <2>1. CASE pub.last # v
    BY <1>3, <2>1, SetKeeps DEF SetFresh
  <2>2. CASE pub.last = v
    <3>1. UNCHANGED <<pub, topicValue, unread, sets, due, sub>> /\ asked' = v
      BY <1>3, <2>2 DEF SetFresh
    <3>2. asked' = asked BY <2>2, <3>1 DEF TopicInv, PublisherInStep
    <3>3. QED
      BY <3>1, <3>2 DEF TopicInv, TopicTypeOK, PublisherInStep, SubscriberInStep, LastIn
  <2>3. QED BY <2>1, <2>2
<1>4. CASE ReadQueue
  <2>1. sub' = [Pulled EXCEPT !.queued = 0] /\ unread' = <<>>
          /\ UNCHANGED <<pub, topicValue, sets, asked, due>>
    BY <1>4 DEF ReadQueue
  <2>2. /\ sub' \in [enabled : BOOLEAN, queued : Nat, fresh : Maybe(Stamped)]
        /\ sub'.fresh = due /\ sub'.enabled = sub.enabled
    BY <2>1, PulledTyped
  <2>3. ~sub.enabled => due = NoValue
    BY DEF TopicInv, SubscriberInStep
  <2>4. TopicTypeOK' /\ PublisherInStep'
    BY <2>1, <2>2 DEF TopicInv, TopicTypeOK, PublisherInStep
  <2>5. QED BY <2>1, <2>2, <2>3, <2>4 DEF TopicInv, SubscriberInStep
<1>5. CASE GetFresh
  <2>1. sub' = [Pulled EXCEPT !.fresh = NoValue] /\ unread' = <<>> /\ due' = NoValue
          /\ UNCHANGED <<pub, topicValue, sets, asked>>
    BY <1>5 DEF GetFresh
  <2>2. /\ sub' \in [enabled : BOOLEAN, queued : Nat, fresh : Maybe(Stamped)]
        /\ sub'.fresh = NoValue
    BY <2>1, PulledTyped
  <2>3. TopicTypeOK' /\ PublisherInStep'
    BY <2>1, <2>2 DEF TopicInv, TopicTypeOK, PublisherInStep
  <2>4. QED BY <2>1, <2>2, <2>3 DEF TopicInv, SubscriberInStep
<1>6. CASE UNCHANGED topicVars
  BY <1>6 DEF topicVars, TopicInv, TopicTypeOK, PublisherInStep, SubscriberInStep, LastIn
<1>7. QED
  BY <1>1, <1>2, <1>3, <1>4, <1>5, <1>6 DEF TopicNext

\* The topic has what its publisher was asked for, and get_fresh gives out what is due,
\* each value once (set, set_fresh, readQueue, get_fresh, and enabled of both).
THEOREM NewestOnceHolds == TopicSpec => []NewestOnce
<1>1. TopicInv => NewestOnce
  BY PulledTyped DEF NewestOnce, TopicInv, PublisherInStep
<1>2. QED BY <1>1, TopicInvInit, TopicInvStep, PTL DEF TopicSpec

-----------------------------------------------------------------------------
(* The robot keeps to the configuration *)

\* The configurations that MOEnet publishes, by the number of the run.
Deployed == [run : 1..MaxRuns, config : Configs]
OrNone(S) == S \cup {None}
Topics == [status : OrNone(Statuses), config : OrNone(Deployed), correction : OrNone(Nat)]

LinkTypeOK ==
  /\ runs \in 0..MaxRuns /\ drops \in Nat /\ config \in Configs
  /\ status \in Statuses /\ poses \in Nat
  /\ out \in Topics /\ seen \in Topics
  /\ cache \in [run : 0..MaxRuns, config : OrNone(Configs)]

\* c is a configuration of this run or of an earlier one, and if it is of this run it is
\* the one that MOEnet uses.
Current(c) == c.run <= runs /\ (c.run = runs => c.config = config)

\* All configurations that are under way or cached are.
ConfigsKnown ==
  /\ out.config # None => Current(out.config)
  /\ seen.config # None => Current(seen.config)
  /\ cache.run <= runs /\ (cache.config # None => Current(cache))

\* Inductive.
LinkInv == LinkTypeOK /\ ConfigsKnown

LEMMA LinkInvInit == LinkInit => LinkInv
  BY LinkAssumption
     DEF LinkInit, RobotInit, LinkInv, LinkTypeOK, ConfigsKnown, Nothing, Topics, OrNone,
         Statuses, Deployed

LEMMA NothingTyped == Nothing \in Topics /\ Nothing.config = None
  BY DEF Nothing, Topics, OrNone

\* MOEnet publishes a status or a correction, and leaves its configuration as it is.
LEMMA PublishKeeps ==
  ASSUME LinkInv, UNCHANGED <<runs, config, drops, seen, cache>>,
         status' \in Statuses, poses' \in Nat, out' \in Topics, out'.config = out.config
  PROVE  LinkInv'
  BY DEF LinkInv, LinkTypeOK, ConfigsKnown, Current

\* The statuses that the code assigns.
LEMMA StatusTyped ==
  ASSUME LinkInv
  PROVE  /\ NextStatus(status) \in Statuses /\ NextStatus("ERROR") \in Statuses
         /\ \A s \in Statuses : Published(s) \in OrNone(Statuses)
  BY DEF LinkInv, LinkTypeOK, NextStatus, Statuses, Published, Topics, OrNone

LEMMA RunKeeps ==
  ASSUME LinkInv, Built \/ BuildFails \/ RunMoe \/ Stop
  PROVE  LinkInv'
  <1>1. \A s \in Statuses : [out EXCEPT !.status = Published(s)] \in Topics
    BY StatusTyped DEF LinkInv, LinkTypeOK, Topics
  <1>2. CASE Built \/ BuildFails \/ ApplyConfig \/ Stop
    <2>1. /\ status' \in Statuses /\ out' = [out EXCEPT !.status = Published(status')]
          /\ UNCHANGED <<runs, config, drops, seen, cache, poses>>
      BY <1>2 DEF Built, BuildFails, ApplyConfig, Stop, Statuses, wireVars, seenVars, readVars
    <2>2. out' \in Topics /\ out'.config = out.config /\ poses' \in Nat
      BY <1>1, <2>1 DEF LinkInv, LinkTypeOK, Topics
    <2>3. QED
      BY <2>1, <2>2, PublishKeeps
  <1>3. ASSUME NEW correct \in BOOLEAN, Poll(correct) PROVE LinkInv'
    <2>1. /\ status' \in Statuses /\ poses' \in Nat
          /\ out' = [out EXCEPT !.status = Published(status'),
                                !.correction = IF correct THEN TxCorrection ELSE @]
          /\ UNCHANGED <<runs, config, drops, seen, cache>>
      BY <1>3, StatusTyped DEF Poll, wireVars, seenVars, readVars, LinkInv, LinkTypeOK
    <2>2. TxCorrection \in OrNone(Nat)
      BY <2>1 DEF TxCorrection, LinkInv, LinkTypeOK, Topics, OrNone
    <2>3. Published(status') \in OrNone(Statuses)
      BY <2>1, StatusTyped
    <2>4. out' \in Topics /\ out'.config = out.config
      BY <2>1, <2>2, <2>3 DEF LinkInv, LinkTypeOK, Topics
    <2>5. QED
      BY <2>1, <2>4, PublishKeeps
  <1>4. QED
    BY <1>2, <1>3 DEF RunMoe

\* A start brings a new run, so that whatever was published before is of an earlier one.
LEMMA StartKeeps ==
  ASSUME LinkInv, Start
  PROVE  LinkInv'
  <1> DEFINE new == [run |-> runs + 1, config |-> config']
  <1>1. /\ runs' = runs + 1 /\ config' \in Configs /\ status' = "NOT_READY"
        /\ out' = [Nothing EXCEPT !.status = "NOT_READY", !.config = new]
        /\ UNCHANGED <<poses, drops, seen, cache>>
    BY DEF Start, wireVars, seenVars, readVars
  <1>2. runs \in Nat /\ runs' \in 1..MaxRuns
    BY <1>1, LinkAssumption DEF Start, LinkInv, LinkTypeOK
  <1>3. new \in Deployed
    BY <1>1, <1>2 DEF Deployed
  <1>4. out' \in Topics /\ out'.config = new
    BY <1>1, <1>3 DEF Nothing, Topics, OrNone, Statuses
  <1>5. LinkTypeOK'
    BY <1>1, <1>2, <1>4 DEF LinkInv, LinkTypeOK, Statuses
  <1>6. ConfigsKnown'
    <2>1. out'.config.run = runs' /\ out'.config.config = config'
      BY <1>1, <1>4
    <2>2. seen.config # None => seen.config.run \in Nat /\ seen.config.run <= runs
      BY DEF LinkInv, LinkTypeOK, ConfigsKnown, Current, Topics, OrNone, Deployed
    <2>3. cache.run \in Nat /\ cache.run <= runs
      BY DEF LinkInv, LinkTypeOK, ConfigsKnown
    <2>4. QED
      BY <1>1, <1>2, <2>1, <2>2, <2>3 DEF ConfigsKnown, Current
  <1>7. QED
    BY <1>5, <1>6 DEF LinkInv

\* The topics carry what was published, or lose it.
LEMMA WireKeeps ==
  ASSUME LinkInv, \/ Exit \/ Crash \/ Connect \/ Disconnect \/ Unannounce
                  \/ \E topic \in DOMAIN Nothing : Arrive(topic)
  PROVE  LinkInv'
  <1> USE DEF moeVars, wireVars, seenVars, gotVars, rioVars, readVars
  <1>1. CASE Exit \/ Crash
    BY <1>1, NothingTyped
       DEF Exit, Crash, Gone, LinkInv, LinkTypeOK, ConfigsKnown, Current
  <1>2. CASE Unannounce
    BY <1>2, NothingTyped DEF Unannounce, LinkInv, LinkTypeOK, ConfigsKnown, Current
  <1>3. CASE Connect \/ Disconnect
    <2>1. drops' \in Nat /\ UNCHANGED <<runs, config, status, poses, out, seen, cache>>
      BY <1>3 DEF Connect, Disconnect, LinkInv, LinkTypeOK
    <2>2. QED
      BY <2>1 DEF LinkInv, LinkTypeOK, ConfigsKnown, Current
  <1>4. ASSUME NEW topic \in DOMAIN Nothing, Arrive(topic) PROVE LinkInv'
    <2>1. /\ topic \in {"status", "config", "correction"}
          /\ seen' = [seen EXCEPT ![topic] = out[topic]]
          /\ UNCHANGED <<runs, config, drops, status, poses, out, cache>>
      BY <1>4 DEF Nothing, Arrive
    <2>2. seen' \in Topics /\ (seen'.config = seen.config \/ seen'.config = out.config)
      BY <2>1 DEF LinkInv, LinkTypeOK, Topics
    <2>3. QED
      BY <2>1, <2>2 DEF LinkInv, LinkTypeOK, ConfigsKnown, Current
  <1>5. QED
    BY <1>1, <1>2, <1>3, <1>4

\* getConfig caches what it could parse, and the configuration that it returns is the
\* one in its cache.
LEMMA CachedFacts ==
  ASSUME LinkInv
  PROVE  /\ Cached \in [run : 0..MaxRuns, config : OrNone(Configs)]
         /\ Cached.run <= runs /\ (Cached.config # None => Current(Cached))
         /\ RobotConfig # None => RobotConfig = Cached.config
  <1>1. CASE IsNew /\ Parsable(seen.config.config)
    <2>1. seen.config \in Deployed /\ Current(seen.config) /\ Cached = seen.config
      BY <1>1 DEF IsNew, Cached, LinkInv, LinkTypeOK, ConfigsKnown, Topics, OrNone
    <2>2. seen.config \in [run : 0..MaxRuns, config : OrNone(Configs)]
      BY <2>1, LinkAssumption DEF Deployed, OrNone
    <2>3. RobotConfig = Cached.config
      BY <1>1, <2>1 DEF RobotConfig, IsNew
    <2>4. QED
      BY <2>1, <2>2, <2>3 DEF Current
  <1>2. CASE ~(IsNew /\ Parsable(seen.config.config))
    BY <1>2 DEF Cached, RobotConfig, LinkInv, LinkTypeOK, ConfigsKnown
  <1>3. QED
    BY <1>1, <1>2

LEMMA RobotKeeps ==
  ASSUME LinkInv, \/ Periodic \/ GetCorrection \/ \E t \in Transforms : Send(t)
                  \/ \E b \in BOOLEAN : SetSleeping(b)
                  \/ \E k \in {"valid", "invalid"} : SetConfig(k)
                  \/ ArrivePing \/ PingAges \/ ArriveSleep \/ ArriveConfig \/ ArriveOdom
                  \/ UNCHANGED vars
  PROVE  LinkInv'
  <1>1. /\ UNCHANGED <<runs, config, drops, status, poses, out, seen>>
        /\ cache' = cache \/ cache' = Cached
    BY DEF Periodic, GetCorrection, Send, SetSleeping, SetConfig, ArrivePing, PingAges,
           ArriveSleep, ArriveConfig, ArriveOdom, vars, moeVars, wireVars, seenVars, readVars
  <1>2. QED
    BY <1>1, CachedFacts DEF LinkInv, LinkTypeOK, ConfigsKnown, Current

LEMMA LinkInvStep == LinkInv /\ [LinkNext]_vars => LinkInv'
  BY RunKeeps, StartKeeps, WireKeeps, RobotKeeps DEF LinkNext

\* A transform that the robot begins to publish is one that the cached configuration
\* wants, and if that is of this run it is MOEnet's own.
LEMMA SendsWanted ==
  ASSUME LinkInv, [LinkNext]_vars, NEW t \in sent' \ sent
  PROVE  config.dir[t] = "sub" \/ cache'.run < runs
  <1>1. Send(t)
    <2>1. CASE \E u \in Transforms : Send(u)
      BY <2>1 DEF Send
    <2>2. CASE UNCHANGED sent
      BY <2>2
    <2>3. QED
      BY <2>1, <2>2
         DEF LinkNext, vars, Start, Built, BuildFails, RunMoe, Poll, ApplyConfig, Stop, Exit,
             Crash, Gone, Connect, Disconnect, Unannounce, Arrive, ArrivePing, PingAges,
             ArriveSleep, ArriveConfig, ArriveOdom, Periodic, GetCorrection, SetSleeping,
             SetConfig, rioVars
  <1>2. RobotConfig # None /\ RobotConfig.dir[t] = "sub" /\ cache' = Cached
    BY <1>1 DEF Send, MaySend
  <1>3. cache'.config.dir[t] = "sub" /\ cache'.config # None
    BY <1>2, CachedFacts
  <1>4. cache'.run \in Nat /\ runs \in Nat /\ cache'.run <= runs
    BY <1>2, CachedFacts DEF LinkInv, LinkTypeOK
  <1>5. cache'.run = runs => cache'.config = config
    BY <1>2, <1>3, CachedFacts DEF Current
  <1>6. QED
    BY <1>3, <1>4, <1>5

\* Whatever restarts, reconnections and late values come, the robot begins to publish
\* only what MOEnet subscribes to in the run that the robot knows of.
THEOREM OneWayHolds == LinkSpec => OneWay
  <1>1. LinkInv /\ [LinkNext]_vars
          => [\A t \in sent' \ sent : config.dir[t] = "sub" \/ cache'.run < runs]_vars
    BY SendsWanted
  <1>2. QED
    BY <1>1, LinkInvInit, LinkInvStep, PTL DEF LinkSpec, OneWay
=============================================================================
