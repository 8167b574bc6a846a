------------------------ MODULE PeerConnectionProofs ------------------------
(***************************************************************************)
(* No caller of a connection waits for a oneshot that nobody holds, and    *)
(* `Sent` means written: for any number of callers, whatever they call,    *)
(* and any capacity of the queue.                                          *)
(***************************************************************************)
EXTENDS PeerConnection, SequenceTheorems, TLAPS

(***************************************************************************)
(* The inductive invariant.                                                *)
(***************************************************************************)

\* A message that carries a oneshot is the one its caller has queued, and no
\* caller has two.
Authentic(s) ==
    \A i \in 1..Len(s) : s[i].waits =>
        /\ s[i].by \in Caller /\ s[i] = MessageOf(s[i].by)
        /\ Operation(s[i].by) \in {"ready", "close"}
Distinct(s) ==
    \A i, j \in 1..Len(s) : s[i].waits /\ s[j].waits /\ i # j => s[i].by # s[j].by

\* Only callers that wait have a oneshot under way, and only one.
Carried ==
    /\ Authentic(queue) /\ Authentic(hand) /\ Distinct(queue)
    /\ Owners(queue) \cap Owners(hand) = {}
    /\ \A c \in Owners(queue) \cup Owners(hand) : pc[c] = "await"

\* The map of requests has the callers of get_file that are not answered; a
\* Response that was read is for one of them, or for nobody.
Pending ==
    /\ \A c \in requests : c \in User /\ Op[c] = "get"
    /\ \A c \in Caller : Operation(c) = "get" /\ slot[c] = "held" => c \in requests
    /\ \A u \in replies : u = NoOne \/ u \in requests
    /\ NoOne \in replies => pc[Handler] = "start"

\* A caller's oneshot is made by its call and not used before its message is
\* queued.
Given(c) == IF Operation(c) \in {"ready", "close"} THEN "held" ELSE "none"
Fresh ==
    /\ \A c \in Caller :
          /\ pc[c] = "start" => slot[c] = "none"
          /\ pc[c] = "push" /\ Operation(c) # "get" => slot[c] = Given(c)
    /\ reader \in {"none", "hello", "loop", "body"} => pc[Reader] = "start"

\* The tasks run only in the phase "run".
Phases == phase # "run" => reader = "none" /\ writer = "none" /\ replies = {}

\* The writer has a message in hand while it writes one, and writes none before
\* the Hello and the ClusterConfig.
Greeted == /\ Len(wire) >= 2 /\ wire[1] = Own("Hello")
           /\ wire[2] = Own("ClusterConfig")
Writing ==
    /\ IF writer = "write" THEN Len(hand) = 1 ELSE hand = <<>>
    /\ writer \in {"none", "hello"} => wire = <<>>
    /\ writer = "config" => wire = <<Own("Hello")>>
    /\ writer \in {"loop", "write"} => Greeted

IInv ==
    /\ TypeOK /\ Carried /\ Pending /\ Fresh /\ Phases /\ Writing
    /\ OneshotOwned /\ SentMeansWritten
-----------------------------------------------------------------------------
(***************************************************************************)
(* Messages and the oneshots that travel with them.                        *)
(***************************************************************************)
LEMMA MessageOfItem ==
    ASSUME NEW c \in Caller
    PROVE  /\ MessageOf(c) \in Item /\ MessageOf(c).by = c
           /\ MessageOf(c).waits <=> Operation(c) \in {"ready", "close"}
           /\ MessageOf(c).kind = "Close" <=> Operation(c) = "close"
  BY DEF MessageOf, Item, Kind

LEMMA OwnItem ==
    ASSUME NEW k \in Kind
    PROVE  Own(k) \in Item /\ Own(k).waits = FALSE
  BY DEF Own, Item

LEMMA NoOwners == Owners(<<>>) = {} /\ Authentic(<<>>) /\ Distinct(<<>>)
  BY DEF Owners, Authentic, Distinct

LEMMA AppendOwn ==
    ASSUME NEW s \in Seq(Item), NEW k \in Kind, Authentic(s), Distinct(s)
    PROVE  /\ Append(s, Own(k)) \in Seq(Item) /\ Len(Append(s, Own(k))) = Len(s) + 1
           /\ Owners(Append(s, Own(k))) = Owners(s)
           /\ Authentic(Append(s, Own(k))) /\ Distinct(Append(s, Own(k)))
  <1> DEFINE x == Own(k)
             t == Append(s, x)
  <1>1. x \in Item /\ x.waits = FALSE
    BY OwnItem
  <1> HIDE DEF x
  <1>2. /\ t \in Seq(Item) /\ Len(t) = Len(s) + 1 /\ Len(s) \in Nat
        /\ \A i \in 1..Len(t) : t[i] = IF i = Len(s) + 1 THEN x ELSE s[i]
    BY <1>1, AppendProperties
  <1> HIDE DEF t
  <1>3. Owners(t) = Owners(s)
    BY <1>1, <1>2 DEF Owners
  <1>4. Authentic(t) /\ Distinct(t)
    BY <1>1, <1>2 DEF Authentic, Distinct
  <1> QED  BY <1>2, <1>3, <1>4 DEF t, x

LEMMA AppendMessage ==
    ASSUME NEW s \in Seq(Item), NEW c \in Caller, Authentic(s), Distinct(s),
           c \notin Owners(s)
    PROVE  /\ Append(s, MessageOf(c)) \in Seq(Item)
           /\ Len(Append(s, MessageOf(c))) = Len(s) + 1
           /\ Owners(Append(s, MessageOf(c))) =
                 Owners(s) \cup {d \in {c} : Operation(c) \in {"ready", "close"}}
           /\ Authentic(Append(s, MessageOf(c))) /\ Distinct(Append(s, MessageOf(c)))
  <1> DEFINE x == MessageOf(c)
             t == Append(s, x)
  <1>1. /\ x \in Item /\ x.by = c /\ x = MessageOf(c)
        /\ x.waits <=> Operation(c) \in {"ready", "close"}
    BY MessageOfItem
  <1> HIDE DEF x
  <1>2. /\ t \in Seq(Item) /\ Len(t) = Len(s) + 1 /\ Len(s) \in Nat
        /\ \A i \in 1..Len(t) : t[i] = IF i = Len(s) + 1 THEN x ELSE s[i]
    BY <1>1, AppendProperties
  <1> HIDE DEF t
  <1>3. Owners(t) = Owners(s) \cup {d \in {c} : x.waits}
    BY <1>1, <1>2 DEF Owners
  <1>4. Authentic(t)
    BY <1>1, <1>2 DEF Authentic
  <1>5. Distinct(t)
    <2> SUFFICES ASSUME NEW i \in 1..Len(t), NEW j \in 1..Len(t),
                        t[i].waits, t[j].waits, i # j
                 PROVE  t[i].by # t[j].by
      BY DEF Distinct
    <2>1. \A k \in 1..Len(s) : s[k].waits => s[k].by # c
      BY DEF Owners
    <2> QED  BY <1>1, <1>2, <2>1 DEF Distinct
  <1> QED  BY <1>1, <1>2, <1>3, <1>4, <1>5 DEF t, x

\* The writer takes the first message.
LEMMA HeadTailOwners ==
    ASSUME NEW s \in Seq(Item), s # <<>>, Authentic(s), Distinct(s)
    PROVE  /\ Tail(s) \in Seq(Item) /\ Len(Tail(s)) = Len(s) - 1
           /\ Head(s) \in Item /\ <<Head(s)>> \in Seq(Item) /\ Len(<<Head(s)>>) = 1
           /\ Owners(s) = Owners(<<Head(s)>>) \cup Owners(Tail(s))
           /\ Owners(<<Head(s)>>) \cap Owners(Tail(s)) = {}
           /\ Authentic(<<Head(s)>>) /\ Authentic(Tail(s)) /\ Distinct(Tail(s))
  <1> DEFINE t == Tail(s)
             h == <<Head(s)>>
  <1>1. /\ t \in Seq(Item) /\ Len(t) = Len(s) - 1 /\ Len(s) \in Nat \ {0}
        /\ \A i \in 1..Len(t) : t[i] = s[i + 1]
    BY EmptySeq, HeadTailProperties
  <1>2. h \in Seq(Item) /\ Len(h) = 1 /\ h[1] = s[1] /\ Head(s) \in Item
    BY <1>1
  <1> HIDE DEF t, h
  <1>3. \A j \in 2..Len(s) : j - 1 \in 1..Len(t) /\ s[j] = t[j - 1]
    BY <1>1
  <1>4. Owners(s) = Owners(h) \cup Owners(t)
    <2>1. Owners(h) \subseteq Owners(s) /\ Owners(t) \subseteq Owners(s)
      BY <1>1, <1>2 DEF Owners
    <2>2. ASSUME NEW c \in Owners(s), c \notin Owners(h) PROVE c \in Owners(t)
      <3>1. PICK j \in 1..Len(s) : s[j].by = c /\ s[j].waits
        BY DEF Owners
      <3>2. j # 1
        BY <1>2, <2>2, <3>1 DEF Owners
      <3>3. j - 1 \in 1..Len(t) /\ s[j] = t[j - 1]
        BY <1>1, <1>3, <3>2
      <3> QED  BY <3>1, <3>3 DEF Owners
    <2> QED  BY <2>1, <2>2
  <1>5. Owners(h) \cap Owners(t) = {}
    <2> SUFFICES ASSUME NEW c \in Owners(h), c \in Owners(t) PROVE FALSE
      OBVIOUS
    <2>1. s[1].by = c /\ s[1].waits
      BY <1>2 DEF Owners
    <2>2. PICK j \in 1..Len(t) : t[j].by = c /\ t[j].waits
      BY DEF Owners
    <2>3. j + 1 \in 1..Len(s) /\ 1 \in 1..Len(s) /\ j + 1 # 1 /\ s[j + 1] = t[j]
      BY <1>1
    <2> QED  BY <2>1, <2>2, <2>3 DEF Distinct
  <1>6. Authentic(h) /\ Authentic(t)
    <2>1. \A i \in 1..Len(h) : i \in 1..Len(s) /\ h[i] = s[i]
      BY <1>1, <1>2
    <2>2. \A i \in 1..Len(t) : i + 1 \in 1..Len(s) /\ t[i] = s[i + 1]
      BY <1>1
    <2>3. Authentic(h)
      BY <2>1 DEF Authentic
    <2>4. ASSUME NEW i \in 1..Len(t), t[i].waits
          PROVE  /\ t[i].by \in Caller /\ t[i] = MessageOf(t[i].by)
                 /\ Operation(t[i].by) \in {"ready", "close"}
      <3> DEFINE k == i + 1
      <3>1. k \in 1..Len(s) /\ t[i] = s[k]
        BY <2>2
      <3> HIDE DEF k
      <3> QED  BY <2>4, <3>1 DEF Authentic
    <2> QED  BY <2>3, <2>4 DEF Authentic
  <1>7. Distinct(t)
    <2> SUFFICES ASSUME NEW i \in 1..Len(t), NEW j \in 1..Len(t),
                        t[i].waits, t[j].waits, i # j
                 PROVE  t[i].by # t[j].by
      BY DEF Distinct
    <2>1. /\ i + 1 \in 1..Len(s) /\ j + 1 \in 1..Len(s) /\ i + 1 # j + 1
          /\ t[i] = s[i + 1] /\ t[j] = s[j + 1]
      BY <1>1
    <2> QED  BY <2>1 DEF Distinct
  <1> QED  BY <1>1, <1>2, <1>4, <1>5, <1>6, <1>7 DEF t, h

(***************************************************************************)
(* What stays true when nothing is done to it.                             *)
(***************************************************************************)

LEMMA OwnersUnchanged ==
    ASSUME UNCHANGED <<queue, hand>>
    PROVE  UNCHANGED <<Owners(queue), Owners(hand)>>
  BY DEF Owners

\* Messages on the wire stay there.
LEMMA WireGrows ==
    ASSUME wire \in Seq(Item), NEW x \in Item, wire' = Append(wire, x)
    PROVE  /\ wire' \in Seq(Item) /\ Len(wire') = Len(wire) + 1 /\ Len(wire) \in Nat
           /\ \A i \in 1..Len(wire) : wire'[i] = wire[i]
           /\ wire'[Len(wire) + 1] = x
           /\ Greeted => Greeted'
  <1>1. /\ wire' \in Seq(Item) /\ Len(wire') = Len(wire) + 1 /\ Len(wire) \in Nat
        /\ \A i \in 1..Len(wire) : wire'[i] = wire[i]
        /\ wire'[Len(wire) + 1] = x
    BY AppendProperties
  <1>2. Greeted => Greeted'
    BY <1>1 DEF Greeted, Own
  <1> QED  BY <1>1, <1>2

LEMMA SentStays ==
    ASSUME IInv, NEW x \in Item, wire' = wire \/ wire' = Append(wire, x),
           \A c \in Caller : slot'[c] = "Sent" => slot[c] = "Sent"
    PROVE  SentMeansWritten'
  <1> SUFFICES ASSUME NEW c \in Caller, slot'[c] = "Sent"
               PROVE  /\ Greeted'
                      /\ Operation(c) = "close" =>
                            \E i \in 3..Len(wire') : wire'[i] = MessageOf(c)
    BY DEF SentMeansWritten, Greeted, Own, MessageOf, Operation
  <1>1. /\ Greeted
        /\ Operation(c) = "close" => \E i \in 3..Len(wire) : wire[i] = MessageOf(c)
    BY DEF IInv, SentMeansWritten, Greeted
  <1>2. CASE wire' = wire
    BY <1>1, <1>2 DEF Greeted, Own
  <1>3. CASE wire' = Append(wire, x)
    <2>1. /\ Len(wire') = Len(wire) + 1 /\ Len(wire) \in Nat /\ Greeted'
          /\ \A i \in 1..Len(wire) : wire'[i] = wire[i]
      BY <1>1, <1>3, WireGrows DEF IInv, TypeOK
    <2>2. ASSUME Operation(c) = "close"
          PROVE  \E i \in 3..Len(wire') : wire'[i] = MessageOf(c)
      <3>1. PICK i \in 3..Len(wire) : wire[i] = MessageOf(c)
        BY <1>1, <2>2
      <3>2. i \in 3..Len(wire') /\ wire'[i] = wire[i]
        BY <2>1
      <3> QED  BY <3>1, <3>2
    <2> QED  BY <2>1, <2>2
  <1> QED  BY <1>2, <1>3

\* The queue, the hand of the writer, the requests and the callers stay.
LEMMA CallersStay ==
    ASSUME IInv, UNCHANGED <<queue, hand, requests, pc, slot>>
    PROVE  /\ Carried' /\ OneshotOwned'
           /\ \A c \in requests' : c \in User /\ Op[c] = "get"
           /\ \A c \in Caller : Operation(c) = "get" /\ slot'[c] = "held" => c \in requests'
           /\ \A c \in Caller :
                 /\ pc'[c] = "start" => slot'[c] = "none"
                 /\ pc'[c] = "push" /\ Operation(c) # "get" => slot'[c] = Given(c)
  <1>1. UNCHANGED <<Owners(queue), Owners(hand)>>
    BY OwnersUnchanged
  <1>2. Carried'
    BY <1>1 DEF IInv, Carried, Authentic, Distinct, MessageOf, Operation
  <1>3. OneshotOwned'
    BY <1>1 DEF IInv, OneshotOwned, Operation
  <1> QED  BY <1>2, <1>3 DEF IInv, Pending, Fresh, Given

LEMMA ReaderSteps ==
    ASSUME IInv, \/ ReadHello \/ ReadHeader \/ ReadOther \/ ReadClose
                 \/ ReaderPanics \/ ReaderClosed \/ ReaderCancelled
    PROVE  IInv'
  <1> USE DEF ReadHello, ReadHeader, ReadOther, ReadClose, ReaderPanics, ReaderClosed,
              ReaderCancelled, conn, calls
  <1>1. /\ UNCHANGED <<queue, hand, requests, pc, slot, wire, replies, phase, writer>>
        /\ reader # "none" /\ reader' \in {"loop", "body", "done", "panicked"}
        /\ reader' \in {"loop", "body"} => reader \in {"hello", "loop", "body"}
    OBVIOUS
  <1>2. TypeOK'
    BY DEF IInv, TypeOK
  <1>3. SentMeansWritten'
    BY <1>1, SentStays, OwnItem DEF Kind
  <1>4. Pending' /\ Fresh'
    BY <1>1, CallersStay DEF IInv, Pending, Fresh, Given
  <1>5. Phases'
    BY <1>1 DEF IInv, Phases
  <1>6. Writing'
    BY <1>1 DEF IInv, Writing, Greeted, Own
  <1> QED  BY <1>1, <1>2, <1>3, <1>4, <1>5, <1>6, CallersStay DEF IInv

LEMMA ReadResponseStep ==
    ASSUME IInv, NEW u \in User \cup {NoOne}, ReadResponse(u)
    PROVE  IInv'
  <1>1. /\ UNCHANGED <<queue, hand, requests, pc, slot, wire, phase, writer>>
        /\ reader = "body" /\ reader' = "loop" /\ replies' = replies \cup {u}
        /\ u \in requests \/ (u = NoOne /\ pc[Handler] = "start")
    BY DEF ReadResponse, conn, calls
  <1>2. TypeOK'
    BY <1>1 DEF IInv, TypeOK, ReadResponse, conn, calls
  <1>3. SentMeansWritten'
    BY <1>1, SentStays, OwnItem DEF Kind
  <1>4. NoOne \notin requests
    BY CallerAssumption DEF IInv, Pending, Caller
  <1>5. Pending' /\ Fresh'
    BY <1>1, <1>4, CallersStay DEF IInv, Pending, Fresh, Given
  <1>6. Phases'
    BY <1>1 DEF IInv, Phases
  <1>7. Writing'
    BY <1>1 DEF IInv, Writing, Greeted, Own
  <1> QED  BY <1>1, <1>2, <1>3, <1>5, <1>6, <1>7, CallersStay DEF IInv

\* handle_connection before and after the tasks, without the early returns.
LEMMA TaskOfConnectionSteps ==
    ASSUME IInv, Verified \/ SpawnTasks \/ StoreError
    PROVE  IInv'
  <1>0. ~TrackerDone
    BY DEF TrackerDone, TrackerClosed
  <1>1. /\ UNCHANGED <<queue, hand, requests, pc, slot, wire, replies>>
        /\ phase # "run"
    BY <1>0 DEF Verified, SpawnTasks, StoreError, Returned, calls, tasks
  <1>2. /\ reader = "none" /\ writer = "none" /\ replies = {}
        /\ \/ reader' = "none" /\ writer' = "none"
           \/ reader' = "hello" /\ writer' = "hello" /\ phase' = "run"
    BY <1>1 DEF IInv, Phases, Verified, SpawnTasks, StoreError, calls, tasks
  <1>3. TypeOK'
    BY <1>0 DEF IInv, TypeOK, Verified, SpawnTasks, StoreError, Returned, calls, tasks
  <1>4. SentMeansWritten'
    BY <1>1, SentStays, OwnItem DEF Kind
  <1>5. Pending' /\ Fresh'
    BY <1>1, <1>2, CallersStay DEF IInv, Pending, Fresh, Given
  <1>6. Phases'
    BY <1>1, <1>2 DEF Phases
  <1>7. Writing'
    BY <1>1, <1>2 DEF IInv, Writing
  <1> QED  BY <1>1, <1>3, <1>4, <1>5, <1>6, <1>7, CallersStay DEF IInv

\* The messages the writer writes on its own.
LEMMA OwnMessageSteps ==
    ASSUME IInv, WriteHello \/ WriteConfig \/ WritePing
    PROVE  IInv'
  <1>1. UNCHANGED <<queue, hand, requests, pc, slot, replies, reader, phase>>
    BY DEF WriteHello, WriteConfig, WritePing, WriteFirst, conn, calls
  <1>2. PICK k \in {"Hello", "ClusterConfig", "Ping"} : wire' = Append(wire, Own(k))
    BY DEF WriteHello, WriteConfig, WritePing, WriteFirst
  <1>3. Own(k) \in Item
    BY OwnItem DEF Kind
  <1>4. /\ wire' \in Seq(Item) /\ Len(wire') = Len(wire) + 1 /\ Len(wire) \in Nat
        /\ \A i \in 1..Len(wire) : wire'[i] = wire[i]
        /\ wire'[Len(wire) + 1] = Own(k)
        /\ Greeted => Greeted'
    BY <1>2, <1>3, WireGrows DEF IInv, TypeOK
  <1>5. writer # "none" /\ writer' \in {"config", "loop"} /\ writer # "write"
    BY DEF WriteHello, WriteConfig, WritePing, WriteFirst
  <1>6. TypeOK'
    BY <1>1, <1>4, <1>5 DEF IInv, TypeOK, WriteHello, WriteConfig, WritePing, WriteFirst, conn,
                            calls
  <1>7. SentMeansWritten'
    BY <1>1, <1>2, <1>3, SentStays
  <1>8. Pending' /\ Fresh'
    BY <1>1, CallersStay DEF IInv, Pending, Fresh, Given
  <1>9. Phases'
    BY <1>1, <1>5 DEF IInv, Phases
  <1>10. Writing'
    <2>1. hand' = <<>>
      BY <1>1, <1>5 DEF IInv, Writing
    <2>2. CASE WriteHello
      <3>1. wire = <<>> /\ wire' = Append(wire, Own("Hello")) /\ writer' = "config"
        BY <2>2 DEF IInv, Writing, WriteHello, WriteFirst
      <3>2. wire' = <<Own("Hello")>>
        BY <3>1
      <3> QED  BY <2>1, <3>1, <3>2 DEF Writing, Own
    <2>3. CASE WriteConfig
      <3>1. /\ wire = <<Own("Hello")>> /\ wire' = Append(wire, Own("ClusterConfig"))
            /\ writer' = "loop"
        BY <2>3 DEF IInv, Writing, WriteConfig, WriteFirst
      <3>2. Len(wire') = 2 /\ wire'[1] = Own("Hello") /\ wire'[2] = Own("ClusterConfig")
        BY <1>3, <3>1
      <3> QED  BY <2>1, <3>1, <3>2 DEF Writing, Greeted, Own
    <2>4. CASE WritePing
      BY <1>4, <2>1, <2>4 DEF IInv, Writing, WritePing
    <2> QED  BY <2>2, <2>3, <2>4
  <1> QED  BY <1>1, <1>6, <1>7, <1>8, <1>9, <1>10, CallersStay DEF IInv

LEMMA QueueIndexStep ==
    ASSUME IInv, QueueIndex
    PROVE  IInv'
  <1>1. /\ UNCHANGED <<hand, requests, pc, slot, replies, reader, writer, wire, phase>>
        /\ queue' = Append(queue, Own("Index")) /\ Len(queue) < Capacity
    BY DEF QueueIndex, tasks, calls
  <1>2. /\ queue' \in Seq(Item) /\ Len(queue') = Len(queue) + 1
        /\ Owners(queue)' = Owners(queue) /\ Authentic(queue)' /\ Distinct(queue)'
    <2>1. "Index" \in Kind /\ queue \in Seq(Item) /\ Authentic(queue) /\ Distinct(queue)
      BY DEF IInv, TypeOK, Carried, Kind
    <2>2. /\ queue' \in Seq(Item) /\ Len(queue') = Len(queue) + 1
          /\ Owners(queue') = Owners(queue) /\ Authentic(queue') /\ Distinct(queue')
      BY <1>1, <2>1, AppendOwn
    <2> QED  BY <2>2 DEF Owners, Authentic, Distinct, MessageOf, Operation
  <1>3. Owners(hand)' = Owners(hand) /\ (Authentic(hand) => Authentic(hand)')
    BY <1>1 DEF Owners, Authentic, MessageOf, Operation
  <1>4. TypeOK'
    <2>1. Len(queue') <= Capacity
      BY <1>1, <1>2, CapacityAssumption DEF IInv, TypeOK
    <2>2. indexed' \in 0..Indexes
      BY CapacityAssumption DEF IInv, TypeOK, QueueIndex
    <2> QED  BY <1>2, <2>1, <2>2 DEF IInv, TypeOK, QueueIndex, tasks, calls
  <1>5. Carried'
    BY <1>1, <1>2, <1>3 DEF IInv, Carried
  <1>6. OneshotOwned'
    BY <1>1, <1>2, <1>3 DEF IInv, OneshotOwned, Operation
  <1>7. SentMeansWritten'
    BY <1>1, SentStays, OwnItem DEF Kind
  <1>8. Pending' /\ Fresh' /\ Phases' /\ Writing'
    BY <1>1 DEF IInv, Pending, Fresh, Given, Phases, Writing, Greeted, Own, Operation
  <1> QED  BY <1>4, <1>5, <1>6, <1>7, <1>8 DEF IInv

(***************************************************************************)
(* What owns a oneshot: a caller in the queue or in the hand of the writer *)
(* waits, and is not in the map of requests.                               *)
(***************************************************************************)
LEMMA OwnerWaits ==
    ASSUME IInv, NEW c \in Owners(queue) \cup Owners(hand)
    PROVE  /\ c \in Caller /\ slot[c] = "held" /\ pc[c] = "await"
           /\ Operation(c) \in {"ready", "close"} /\ c \notin requests
  <1>1. c \in Caller /\ Operation(c) \in {"ready", "close"}
    BY DEF IInv, Carried, Owners, Authentic
  <1>2. slot[c] = "held" /\ pc[c] = "await"
    BY <1>1 DEF IInv, Carried, OneshotOwned
  <1>3. c \notin requests
    BY <1>1 DEF IInv, Pending, Operation
  <1> QED  BY <1>1, <1>2, <1>3

(***************************************************************************)
(* The receiver is dropped.                                                *)
(***************************************************************************)
LEMMA Dropped ==
    ASSUME IInv, NEW r \in {"Canceled", "Closed"}, DropReceiver(r),
           UNCHANGED <<pc, requests, replies, reader, wire, indexed, error, result>>
    PROVE  /\ Carried' /\ Pending' /\ Fresh' /\ OneshotOwned' /\ SentMeansWritten'
           /\ hand' = <<>> /\ queue' = <<>> /\ chan' = "dropped"
           /\ slot' \in [Caller -> {"none", "held", "Sent", "Closed", "Response", "Canceled"}]
  <1> DEFINE O == Owners(queue) \cup Owners(hand)
  <1>1. /\ queue' = <<>> /\ hand' = <<>> /\ chan' = "dropped"
        /\ \A c \in Caller : IF c \in O THEN slot'[c] \in {"Canceled", "Closed"}
                                        ELSE slot'[c] = slot[c]
    BY DEF DropReceiver
  <1>2. slot' \in [Caller -> {"none", "held", "Sent", "Closed", "Response", "Canceled"}]
    BY DEF DropReceiver, IInv, TypeOK
  <1>3. Owners(queue)' = {} /\ Owners(hand)' = {}
    BY <1>1, NoOwners DEF Owners
  <1>4. \A c \in O : /\ c \in Caller /\ slot[c] = "held" /\ pc[c] = "await"
                     /\ Operation(c) \in {"ready", "close"} /\ c \notin requests
    BY OwnerWaits
  <1> HIDE DEF O
  <1>5. Carried'
    BY <1>1, <1>3 DEF Carried, Authentic, Distinct
  <1>6. Pending'
    BY <1>1, <1>4 DEF IInv, Pending, Operation
  <1>7. Fresh'
    BY <1>1, <1>4 DEF IInv, Fresh, Given, Operation
  <1>8. OneshotOwned'
    <2> SUFFICES ASSUME NEW c \in Caller
                 PROVE  /\ (pc[c] = "await" /\ slot'[c] = "held") =>
                              Operation(c) = "get" /\ c \in requests
                        /\ slot'[c] # "held" => c \notin requests
      BY <1>3 DEF OneshotOwned, Operation
    <2> QED  BY <1>1, <1>4 DEF IInv, OneshotOwned, O
  <1>9. SentMeansWritten'
    <2>1. \A c \in Caller : slot'[c] = "Sent" => slot[c] = "Sent"
      BY <1>1
    <2> QED  BY <2>1, SentStays, OwnItem DEF Kind
  <1> QED  BY <1>1, <1>2, <1>5, <1>6, <1>7, <1>8, <1>9

LEMMA EarlyReturns ==
    ASSUME IInv, NotVerified \/ IndexFails
    PROVE  IInv'
  <1>1. /\ DropReceiver("Canceled") /\ phase \in {"verify", "index"}
        /\ phase' \in {"unverified", "noindex", "panicked"}
        /\ UNCHANGED <<pc, requests, replies, reader, writer, wire, indexed, error, result,
                       token>>
    BY DEF NotVerified, IndexFails, ReturnsEarly
  <1>2. /\ Carried' /\ Pending' /\ Fresh' /\ OneshotOwned' /\ SentMeansWritten'
        /\ hand' = <<>> /\ queue' = <<>> /\ chan' = "dropped"
        /\ slot' \in [Caller -> {"none", "held", "Sent", "Closed", "Response", "Canceled"}]
    BY <1>1, Dropped
  <1>3. TypeOK'
    BY <1>1, <1>2, CapacityAssumption DEF IInv, TypeOK
  <1>4. Phases' /\ Writing'
    BY <1>1, <1>2 DEF IInv, Phases, Writing
  <1> QED  BY <1>2, <1>3, <1>4 DEF IInv

LEMMA WriterEndSteps ==
    ASSUME IInv, WriterCancelled \/ WriteFails
    PROVE  IInv'
  <1>1. PICK r \in {"Canceled", "Closed"} : WriterEnds(r)
    BY DEF WriterCancelled, WriteFails
  <1>2. /\ DropReceiver(r) /\ writer' = "done" /\ token' = TRUE
        /\ UNCHANGED <<pc, requests, replies, reader, wire, indexed, error, result, phase>>
    BY <1>1 DEF WriterEnds, conn
  <1>3. writer # "none"
    BY DEF WriterCancelled, WriteFails
  <1>4. /\ Carried' /\ Pending' /\ Fresh' /\ OneshotOwned' /\ SentMeansWritten'
        /\ hand' = <<>> /\ queue' = <<>> /\ chan' = "dropped"
        /\ slot' \in [Caller -> {"none", "held", "Sent", "Closed", "Response", "Canceled"}]
    BY <1>2, Dropped
  <1>5. TypeOK'
    BY <1>2, <1>4, CapacityAssumption DEF IInv, TypeOK
  <1>6. Phases' /\ Writing'
    BY <1>2, <1>3, <1>4 DEF IInv, Phases, Writing
  <1> QED  BY <1>4, <1>5, <1>6 DEF IInv

LEMMA RequestWaits ==
    ASSUME IInv, NEW c \in requests
    PROVE  /\ c \in User /\ c \in Caller /\ slot[c] = "held" /\ Operation(c) = "get"
           /\ c \notin Owners(queue) \cup Owners(hand) /\ c # NoOne
           /\ c # Handler /\ c # Reader
  <1>1. c \in User /\ c \in Caller /\ Operation(c) = "get"
    BY DEF IInv, Pending, Caller, Operation
  <1>2. slot[c] = "held"
    BY <1>1 DEF IInv, OneshotOwned
  <1>3. c \notin Owners(queue) \cup Owners(hand)
    BY <1>1, OwnerWaits
  <1> QED  BY <1>1, <1>2, <1>3, CallerAssumption

LEMMA DrainRequestsStep ==
    ASSUME IInv, DrainRequests
    PROVE  IInv'
  <1>1. /\ UNCHANGED <<queue, hand, pc, replies, reader, writer, wire>>
        /\ phase = "returned" /\ phase' = "drained" /\ requests' = {}
        /\ slot' = [c \in Caller |-> IF c \in requests THEN "Closed" ELSE slot[c]]
    BY DEF DrainRequests, tasks
  <1>2. UNCHANGED <<Owners(queue), Owners(hand)>>
    BY <1>1, OwnersUnchanged
  <1>3. TypeOK'
    BY <1>1 DEF IInv, TypeOK, DrainRequests, tasks
  <1>4. Carried'
    BY <1>1, <1>2 DEF IInv, Carried, Authentic, Distinct, MessageOf, Operation
  <1>5. replies = {}
    BY <1>1 DEF IInv, Phases
  <1>6. Pending'
    BY <1>1, <1>5 DEF IInv, Pending, Operation
  <1>7. Fresh'
    <2>1. \A c \in requests : slot[c] = "held" /\ Operation(c) = "get"
      BY RequestWaits
    <2> QED  BY <1>1, <2>1 DEF IInv, Fresh, Given, Operation
  <1>8. OneshotOwned'
    <2>1. \A c \in requests : c \notin Owners(queue) \cup Owners(hand)
      BY RequestWaits
    <2> QED  BY <1>1, <1>2, <2>1 DEF IInv, OneshotOwned, Operation
  <1>9. SentMeansWritten'
    <2>1. \A c \in Caller : slot'[c] = "Sent" => slot[c] = "Sent"
      BY <1>1
    <2> QED  BY <1>1, <2>1, SentStays, OwnItem DEF Kind
  <1>10. Phases' /\ Writing'
    BY <1>1 DEF IInv, Phases, Writing
  <1> QED  BY <1>3, <1>4, <1>6, <1>7, <1>8, <1>9, <1>10 DEF IInv

LEMMA TakeMessageStep ==
    ASSUME IInv, TakeMessage
    PROVE  IInv'
  <1>1. /\ UNCHANGED <<requests, pc, slot, replies, reader, wire, phase>>
        /\ writer = "loop" /\ writer' = "write" /\ queue # <<>>
        /\ hand' = <<Head(queue)>> /\ queue' = Tail(queue) /\ hand = <<>>
    BY DEF TakeMessage, conn, calls, IInv, Writing
  <1>2. /\ queue' \in Seq(Item) /\ Len(queue') = Len(queue) - 1
        /\ hand' \in Seq(Item) /\ Len(hand') = 1
        /\ Owners(queue) = Owners(hand') \cup Owners(queue')
        /\ Owners(hand') \cap Owners(queue') = {}
        /\ Authentic(hand') /\ Authentic(queue') /\ Distinct(queue')
    BY <1>1, HeadTailOwners DEF IInv, TypeOK, Carried
  <1>3. Owners(hand) = {}
    BY <1>1, NoOwners
  <1>4. /\ Owners(queue)' = Owners(queue') /\ Owners(hand)' = Owners(hand')
        /\ Authentic(queue)' /\ Authentic(hand)' /\ Distinct(queue)'
    BY <1>2 DEF Owners, Authentic, Distinct, MessageOf, Operation
  <1>5. TypeOK'
    <2>1. Len(queue') <= Capacity
      BY <1>1, <1>2, CapacityAssumption DEF IInv, TypeOK
    <2> QED  BY <1>2, <2>1 DEF IInv, TypeOK, TakeMessage, conn, calls
  <1>6. Carried'
    BY <1>1, <1>2, <1>3, <1>4 DEF IInv, Carried
  <1>7. OneshotOwned'
    BY <1>1, <1>2, <1>3, <1>4 DEF IInv, OneshotOwned, Operation
  <1>8. SentMeansWritten'
    BY <1>1, SentStays, OwnItem DEF Kind
  <1>9. Pending' /\ Fresh' /\ Phases'
    BY <1>1 DEF IInv, Pending, Fresh, Given, Phases, Operation
  <1>10. Writing'
    BY <1>1, <1>2 DEF IInv, Writing, Greeted, Own
  <1> QED  BY <1>5, <1>6, <1>7, <1>8, <1>9, <1>10 DEF IInv

LEMMA WriteMessageStep ==
    ASSUME IInv, WriteMessage
    PROVE  IInv'
  <1>1. /\ UNCHANGED <<requests, pc, replies, reader, phase, queue>>
        /\ writer = "write" /\ writer' = "loop" /\ hand' = <<>>
        /\ wire' = IF hand[1].kind = "Nothing" THEN wire ELSE Append(wire, hand[1])
        /\ slot' = [c \in Caller |-> IF c \in Owners(hand) THEN "Sent" ELSE slot[c]]
    BY DEF WriteMessage, conn
  <1>2. /\ hand \in Seq(Item) /\ Len(hand) = 1 /\ hand[1] \in Item /\ wire \in Seq(Item)
        /\ Greeted
    <2>1. hand \in Seq(Item) /\ wire \in Seq(Item)
      BY DEF IInv, TypeOK
    <2>2. Len(hand) = 1 /\ Greeted
      BY <1>1 DEF IInv, Writing
    <2>3. 1 \in 1..Len(hand)
      BY <2>2
    <2>4. hand[1] \in Item
      BY <2>1, <2>3, ElementOfSeq
    <2> QED  BY <2>1, <2>2, <2>4
  <1>3. /\ wire' \in Seq(Item) /\ Greeted'
        /\ hand[1].kind # "Nothing" =>
              /\ Len(wire') = Len(wire) + 1 /\ Len(wire) \in Nat
              /\ wire'[Len(wire) + 1] = hand[1]
              /\ \A i \in 1..Len(wire) : wire'[i] = wire[i]
    <2>1. CASE hand[1].kind = "Nothing"
      BY <1>1, <1>2, <2>1 DEF Greeted, Own
    <2>2. CASE hand[1].kind # "Nothing"
      BY <1>1, <1>2, <2>2, WireGrows
    <2> QED  BY <2>1, <2>2
  <1>4. Owners(queue)' = Owners(queue) /\ Owners(hand)' = {}
    BY <1>1, NoOwners DEF Owners
  <1>5. TypeOK'
    BY <1>1, <1>3 DEF IInv, TypeOK, WriteMessage, conn
  <1>6. Carried'
    BY <1>1, <1>4 DEF IInv, Carried, Authentic, Distinct, MessageOf, Operation
  <1>7. \A c \in Owners(hand) :
            /\ c \in Caller /\ slot[c] = "held" /\ pc[c] = "await"
            /\ Operation(c) \in {"ready", "close"} /\ c \notin requests
            /\ c \notin Owners(queue)
    BY OwnerWaits DEF IInv, Carried
  <1>8. Pending' /\ Fresh'
    <2>1. Pending'
      BY <1>1, <1>7 DEF IInv, Pending, Operation
    <2>2. Fresh'
      BY <1>1, <1>7 DEF IInv, Fresh, Given, Operation
    <2> QED  BY <2>1, <2>2
  <1>9. OneshotOwned'
    BY <1>1, <1>4, <1>7 DEF IInv, OneshotOwned, Operation
  <1>10. Phases' /\ Writing'
    BY <1>1, <1>3 DEF IInv, Phases, Writing
  <1>11. SentMeansWritten'
    <2> SUFFICES ASSUME NEW c \in Caller, slot'[c] = "Sent", Operation(c) = "close"
                 PROVE  \E i \in 3..Len(wire') : wire'[i] = MessageOf(c)
      BY <1>3 DEF SentMeansWritten, Greeted, Own, MessageOf, Operation
    <2>1. CASE c \in Owners(hand)
      <3>1. hand[1].by = c /\ hand[1].waits
        BY <1>2, <2>1 DEF Owners
      <3>2. hand[1] = MessageOf(c)
        BY <1>2, <3>1 DEF IInv, Carried, Authentic
      <3>3. hand[1].kind # "Nothing"
        BY <3>2, MessageOfItem
      <3>4. Len(wire) + 1 \in 3..Len(wire') /\ wire'[Len(wire) + 1] = MessageOf(c)
        BY <1>2, <1>3, <3>2, <3>3 DEF Greeted
      <3> QED  BY <3>4
    <2>2. CASE c \notin Owners(hand)
      <3>1. slot[c] = "Sent"
        BY <1>1, <2>2
      <3>2. PICK i \in 3..Len(wire) : wire[i] = MessageOf(c)
        BY <3>1 DEF IInv, SentMeansWritten
      <3>3. i \in 3..Len(wire') /\ wire'[i] = wire[i]
        BY <1>1, <1>2, <1>3
      <3> QED  BY <3>2, <3>3
    <2> QED  BY <2>1, <2>2
  <1> QED  BY <1>5, <1>6, <1>8, <1>9, <1>10, <1>11 DEF IInv

(***************************************************************************)
(* The callers.                                                            *)
(***************************************************************************)

\* Steps that leave the queue, the hand of the writer and the tasks alone, and
\* change only the caller d, which has no oneshot under way before or after.
LEMMA OneCaller ==
    ASSUME IInv, NEW d \in Caller, d \notin Owners(queue) \cup Owners(hand),
           UNCHANGED <<queue, hand, wire, phase, writer>>,
           \A c \in Caller \ {d} :
              /\ pc'[c] = pc[c] /\ slot'[c] = slot[c]
              /\ (c \in requests') <=> (c \in requests),
           slot'[d] # "Sent" \/ slot[d] = "Sent",
           pc'[d] = "await" /\ slot'[d] = "held" =>
              Operation(d) = "get" /\ d \in requests',
           slot'[d] # "held" => d \notin requests'
    PROVE  Carried' /\ OneshotOwned' /\ SentMeansWritten' /\ Writing'
  <1>1. UNCHANGED <<Owners(queue), Owners(hand)>>
    BY OwnersUnchanged
  <1>2. Owners(queue) \cup Owners(hand) \subseteq Caller
    BY DEF Owners
  <1>3. Carried'
    BY <1>1, <1>2 DEF IInv, Carried, Authentic, Distinct, MessageOf, Operation
  <1>4. OneshotOwned'
    <2> SUFFICES ASSUME NEW c \in Caller
                 PROVE  /\ (pc'[c] = "await" /\ slot'[c] = "held") =>
                              \/ Operation(c) = "get" /\ c \in requests'
                              \/ /\ Operation(c) # "get"
                                 /\ c \in Owners(queue) \cup Owners(hand)
                        /\ slot'[c] # "held" =>
                              c \notin requests' \cup Owners(queue) \cup Owners(hand)
      BY <1>1 DEF OneshotOwned, Operation
    <2>1. CASE c = d
      BY <2>1
    <2>2. CASE c # d
      BY <2>2 DEF IInv, OneshotOwned
    <2> QED  BY <2>1, <2>2
  <1>5. SentMeansWritten'
    <2>1. \A c \in Caller : slot'[c] = "Sent" => slot[c] = "Sent"
      OBVIOUS
    <2> QED  BY <2>1, SentStays, OwnItem DEF Kind
  <1>6. Writing'
    BY DEF IInv, Writing, Greeted, Own
  <1> QED  BY <1>3, <1>4, <1>5, <1>6

\* A caller without a oneshot under way, by what it is doing.
LEMMA NotOwner ==
    ASSUME IInv, NEW c \in Caller, pc[c] # "await" \/ slot[c] # "held"
    PROVE  c \notin Owners(queue) \cup Owners(hand)
  BY OwnerWaits

LEMMA CallStep ==
    ASSUME IInv, NEW u \in User, Call(u)
    PROVE  IInv'
  <1>1. /\ u \in Caller /\ u # Handler /\ u # Reader /\ u # NoOne /\ Operation(u) = Op[u]
        /\ Op[u] \in {"ready", "close", "get", "send", "waitclose"}
    BY CallerAssumption DEF Caller, Operation
  <1>2. /\ UNCHANGED <<queue, hand, wire, phase, writer, reader, replies>>
        /\ pc[u] = "start"
        /\ pc' = [pc EXCEPT ![u] = IF Op[u] = "waitclose" THEN "await" ELSE "push"]
        /\ slot' = [slot EXCEPT ![u] =
                      IF Op[u] \in {"ready", "close", "get"} THEN "held" ELSE "none"]
        /\ requests' = IF Op[u] = "get" THEN requests \cup {u} ELSE requests
    BY DEF Call, conn, tasks
  <1>3. pc \in [Caller -> {"start", "push", "await", "sleep", "done"}] /\ slot[u] = "none"
        /\ slot \in [Caller -> {"none", "held", "Sent", "Closed", "Response", "Canceled"}]
    BY <1>1, <1>2 DEF IInv, TypeOK, Fresh, Given
  <1>4. u \notin requests
    BY <1>3, RequestWaits
  <1>5. TypeOK'
    BY <1>1, <1>2, <1>3 DEF IInv, TypeOK, Call, conn, tasks
  <1>6. Carried' /\ OneshotOwned' /\ SentMeansWritten' /\ Writing'
    <2>1. u \notin Owners(queue) \cup Owners(hand)
      BY <1>1, <1>2, NotOwner
    <2>2. /\ \A c \in Caller \ {u} :
                /\ pc'[c] = pc[c] /\ slot'[c] = slot[c]
                /\ (c \in requests') <=> (c \in requests)
          /\ slot'[u] # "Sent"
          /\ pc'[u] = "await" /\ slot'[u] = "held" => Operation(u) = "get" /\ u \in requests'
          /\ slot'[u] # "held" => u \notin requests'
      BY <1>1, <1>2, <1>3, <1>4
    <2> QED  BY <1>1, <1>2, <2>1, <2>2, OneCaller
  <1>7. Pending'
    BY <1>1, <1>2, <1>3 DEF IInv, Pending, Operation
  <1>8. Fresh'
    BY <1>1, <1>2, <1>3 DEF IInv, Fresh, Given, Operation
  <1>9. Phases'
    BY <1>1, <1>2, <1>3 DEF IInv, Phases
  <1> QED  BY <1>5, <1>6, <1>7, <1>8, <1>9 DEF IInv

LEMMA WakeStep ==
    ASSUME IInv, NEW c \in Caller, Wake(c)
    PROVE  IInv'
  <1>1. /\ UNCHANGED <<queue, hand, wire, phase, writer, reader, replies, slot, requests>>
        /\ pc[c] = "sleep" /\ pc' = [pc EXCEPT ![c] = "done"]
    BY DEF Wake, Finish, conn, tasks
  <1>2. pc \in [Caller -> {"start", "push", "await", "sleep", "done"}]
    BY DEF IInv, TypeOK
  <1>3. TypeOK'
    <2>1. result' \in [Caller -> {"none", "Ok", "Closed", "Timeout", "Other",
                                  "UnknownPeer", "IO"}]
      BY DEF IInv, TypeOK, Wake, Finish
    <2> QED  BY <1>1, <1>2, <2>1 DEF IInv, TypeOK, Wake, conn, tasks
  <1>4. Carried' /\ OneshotOwned' /\ SentMeansWritten' /\ Writing'
    <2>1. c \notin Owners(queue) \cup Owners(hand)
      BY <1>1, NotOwner
    <2>2. slot'[c] # "held" => c \notin requests'
      BY <1>1 DEF IInv, OneshotOwned
    <2> QED  BY <1>1, <1>2, <2>1, <2>2, OneCaller
  <1>5. Pending' /\ Fresh' /\ Phases'
    <2>1. c # Reader \/ reader \notin {"none", "hello", "loop", "body"}
      BY <1>1 DEF IInv, Fresh, Given
    <2>2. c # Handler \/ NoOne \notin replies
      BY <1>1 DEF IInv, Pending
    <2> QED  BY <1>1, <1>2, <2>1, <2>2, CallerAssumption
             DEF IInv, Pending, Fresh, Given, Phases, Operation, Caller
  <1> QED  BY <1>3, <1>4, <1>5 DEF IInv

LEMMA SlotOfPush ==
    ASSUME IInv, NEW c \in Caller, pc[c] = "push", Operation(c) # "get"
    PROVE  slot[c] = IF Operation(c) \in {"ready", "close"} THEN "held" ELSE "none"
  BY DEF IInv, Fresh, Given

LEMMA PushStep ==
    ASSUME IInv, NEW c \in Caller, Push(c)
    PROVE  IInv'
  <1>1. /\ UNCHANGED <<hand, wire, phase, writer, reader, replies, slot, requests>>
        /\ pc[c] = "push" /\ Len(queue) < Capacity
        /\ queue' = Append(queue, MessageOf(c))
        /\ pc' = [pc EXCEPT ![c] = IF Operation(c) = "send" THEN "done" ELSE "await"]
    BY DEF Push, Finish, conn, tasks
  <1>2. /\ pc \in [Caller -> {"start", "push", "await", "sleep", "done"}]
        /\ queue \in Seq(Item) /\ Authentic(queue) /\ Distinct(queue)
    BY DEF IInv, TypeOK, Carried
  <1>3. c \notin Owners(queue) \cup Owners(hand)
    BY <1>1, NotOwner
  <1> DEFINE N == {d \in {c} : Operation(c) \in {"ready", "close"}}
  <1>4. /\ queue' \in Seq(Item) /\ Len(queue') = Len(queue) + 1
        /\ Owners(queue') = Owners(queue) \cup N
        /\ Authentic(queue') /\ Distinct(queue')
    BY <1>1, <1>2, <1>3, AppendMessage
  <1>5. /\ Owners(queue)' = Owners(queue') /\ Owners(hand)' = Owners(hand)
        /\ Authentic(queue)' /\ Distinct(queue)' /\ (Authentic(hand) => Authentic(hand)')
    <2>1. Owners(queue)' = Owners(queue') /\ Owners(hand)' = Owners(hand)
      BY <1>1 DEF Owners
    <2>2. Authentic(queue)'
      BY <1>4 DEF Authentic, MessageOf, Operation
    <2>3. Authentic(hand) => Authentic(hand)'
      BY <1>1 DEF Authentic, MessageOf, Operation
    <2>4. Distinct(queue)'
      BY <1>4 DEF Distinct
    <2> QED  BY <2>1, <2>2, <2>3, <2>4
  <1>6. TypeOK'
    <2>1. Len(queue') <= Capacity
      BY <1>1, <1>2, <1>4, CapacityAssumption
    <2>2. result' \in [Caller -> {"none", "Ok", "Closed", "Timeout", "Other",
                                  "UnknownPeer", "IO"}]
      BY DEF IInv, TypeOK, Push, Finish
    <2> QED  BY <1>1, <1>2, <1>4, <2>1, <2>2 DEF IInv, TypeOK, Push, conn, tasks
  <1>7. Carried'
    <2>1. Owners(queue) \cup Owners(hand) \subseteq Caller
      BY DEF Owners
    <2>2. Owners(queue)' \cap Owners(hand)' = {}
      BY <1>3, <1>4, <1>5 DEF IInv, Carried
    <2>3. \A d \in Owners(queue)' \cup Owners(hand)' : pc'[d] = "await"
      BY <1>1, <1>2, <1>3, <1>4, <1>5, <2>1 DEF IInv, Carried
    <2> QED  BY <1>5, <2>2, <2>3 DEF IInv, Carried
  <1>8. OneshotOwned'
    <2> SUFFICES ASSUME NEW d \in Caller
                 PROVE  /\ (pc'[d] = "await" /\ slot[d] = "held") =>
                              \/ Operation(d) = "get" /\ d \in requests
                              \/ /\ Operation(d) # "get"
                                 /\ d \in Owners(queue') \cup Owners(hand)
                        /\ slot[d] # "held" =>
                              d \notin requests \cup Owners(queue') \cup Owners(hand)
      BY <1>1, <1>5 DEF OneshotOwned, Operation
    <2>1. CASE d # c
      BY <1>1, <1>2, <1>4, <2>1 DEF IInv, OneshotOwned
    <2>2. CASE d = c
      <3>1. CASE Operation(c) = "get"
        BY <1>3, <1>4, <2>2, <3>1 DEF IInv, OneshotOwned, Pending
      <3>2. CASE Operation(c) \in {"ready", "close"}
        <4>1. slot[c] = "held"
          BY <1>1, <3>2, SlotOfPush
        <4> QED  BY <1>4, <2>2, <3>2, <4>1
      <3>3. CASE Operation(c) \notin {"get", "ready", "close"}
        <4>1. slot[c] # "held" /\ c \notin requests
          BY <1>1, <3>3, SlotOfPush, RequestWaits
        <4> QED  BY <1>3, <1>4, <2>2, <3>3, <4>1
      <3> QED  BY <3>1, <3>2, <3>3
    <2> QED  BY <2>1, <2>2
  <1>9. SentMeansWritten'
    BY <1>1, SentStays, OwnItem DEF Kind
  <1>10. Pending' /\ Fresh' /\ Phases'
    <2>1. c # Reader \/ reader \notin {"none", "hello", "loop", "body"}
      BY <1>1 DEF IInv, Fresh, Given
    <2>2. c # Handler \/ NoOne \notin replies
      BY <1>1 DEF IInv, Pending
    <2> QED  BY <1>1, <1>2, <2>1, <2>2, CallerAssumption
             DEF IInv, Pending, Fresh, Given, Phases, Operation, Caller
  <1>11. Writing'
    BY <1>1 DEF IInv, Writing, Greeted, Own
  <1> QED  BY <1>6, <1>7, <1>8, <1>9, <1>10, <1>11 DEF IInv

LEMMA PushRefusedStep ==
    ASSUME IInv, NEW c \in Caller, PushRefused(c)
    PROVE  IInv'
  <1>1. /\ UNCHANGED <<queue, hand, wire, phase, writer, reader, replies, requests>>
        /\ pc[c] = "push"
        /\ slot' = [slot EXCEPT ![c] = IF Operation(c) = "get" THEN slot[c] ELSE "Canceled"]
        /\ pc' = [pc EXCEPT ![c] = IF Operation(c) \in {"ready", "send"} THEN "done"
                                   ELSE "await"]
    BY DEF PushRefused, Finish, conn, tasks
  <1>2. /\ pc \in [Caller -> {"start", "push", "await", "sleep", "done"}]
        /\ slot \in [Caller -> {"none", "held", "Sent", "Closed", "Response", "Canceled"}]
    BY DEF IInv, TypeOK
  <1>3. TypeOK'
    <2>1. result' \in [Caller -> {"none", "Ok", "Closed", "Timeout", "Other",
                                  "UnknownPeer", "IO"}]
      BY DEF IInv, TypeOK, PushRefused, Finish
    <2> QED  BY <1>1, <1>2, <2>1 DEF IInv, TypeOK, PushRefused, conn, tasks
  <1>4. Carried' /\ OneshotOwned' /\ SentMeansWritten' /\ Writing'
    <2>1. c \notin Owners(queue) \cup Owners(hand)
      BY <1>1, NotOwner
    <2>2. Operation(c) # "get" => c \notin requests
      BY RequestWaits
    <2>3. /\ slot'[c] # "held" => c \notin requests'
          /\ slot'[c] = "held" => Operation(c) = "get" /\ c \in requests'
      BY <1>1, <1>2, <2>2 DEF IInv, OneshotOwned, Pending
    <2>4. slot'[c] # "Sent" \/ slot[c] = "Sent"
      BY <1>1, <1>2
    <2> QED  BY <1>1, <1>2, <2>1, <2>3, <2>4, OneCaller
  <1>5. Pending' /\ Fresh' /\ Phases'
    <2>1. c # Reader \/ reader \notin {"none", "hello", "loop", "body"}
      BY <1>1 DEF IInv, Fresh
    <2>2. c # Handler \/ NoOne \notin replies
      BY <1>1 DEF IInv, Pending
    <2>3. Pending'
      BY <1>1, <1>2, <2>2, CallerAssumption DEF IInv, Pending, Operation, Caller
    <2>4. Fresh'
      BY <1>1, <1>2, <2>1, CallerAssumption DEF IInv, Fresh, Given, Operation, Caller
    <2> QED  BY <1>1, <2>3, <2>4 DEF IInv, Phases
  <1> QED  BY <1>3, <1>4, <1>5 DEF IInv

LEMMA ReturnStep ==
    ASSUME IInv, NEW c \in Caller, Return(c)
    PROVE  IInv'
  <1>1. /\ UNCHANGED <<queue, hand, wire, phase, writer, reader, replies, requests, slot>>
        /\ pc[c] = "await" /\ slot[c] \notin {"none", "held"}
        /\ token' \in BOOLEAN
        /\ \E p \in {"sleep", "done"} : pc' = [pc EXCEPT ![c] = p]
    BY DEF Return, AwaitOver, TrackerDone, TrackerClosed, Finish, conn, tasks
  <1>2. pc \in [Caller -> {"start", "push", "await", "sleep", "done"}]
    BY DEF IInv, TypeOK
  <1>3. TypeOK'
    <2>1. result' \in [Caller -> {"none", "Ok", "Closed", "Timeout", "Other",
                                  "UnknownPeer", "IO"}]
      BY DEF IInv, TypeOK, Return, Finish
    <2> QED  BY <1>1, <1>2, <2>1 DEF IInv, TypeOK, Return, conn, tasks
  <1>4. pc'[c] \in {"sleep", "done"} /\ \A d \in Caller \ {c} : pc'[d] = pc[d]
    BY <1>1, <1>2
  <1>5. Carried' /\ OneshotOwned' /\ SentMeansWritten' /\ Writing'
    <2>1. c \notin Owners(queue) \cup Owners(hand)
      BY <1>1, NotOwner
    <2>2. slot'[c] # "held" => c \notin requests'
      BY <1>1 DEF IInv, OneshotOwned
    <2> QED  BY <1>1, <1>4, <2>1, <2>2, OneCaller
  <1>6. Pending' /\ Fresh' /\ Phases'
    <2>1. c # Reader \/ reader \notin {"none", "hello", "loop", "body"}
      BY <1>1 DEF IInv, Fresh
    <2>2. c # Handler \/ NoOne \notin replies
      BY <1>1 DEF IInv, Pending
    <2>3. Pending'
      BY <1>1, <1>4, <2>2, CallerAssumption DEF IInv, Pending, Operation, Caller
    <2>4. Fresh'
      BY <1>1, <1>4, <2>1, CallerAssumption DEF IInv, Fresh, Given, Operation, Caller
    <2> QED  BY <1>1, <2>3, <2>4 DEF IInv, Phases
  <1> QED  BY <1>3, <1>5, <1>6 DEF IInv

\* The reader after an error, and the handler of a Response nobody waits for,
\* become callers of close.
LEMMA CloserStarts ==
    ASSUME IInv, NEW d \in {Reader, Handler}, pc[d] = "start",
           UNCHANGED <<queue, hand, wire, phase, writer, requests>>,
           pc' = [pc EXCEPT ![d] = "push"], slot' = [slot EXCEPT ![d] = "held"]
    PROVE  /\ Carried' /\ OneshotOwned' /\ SentMeansWritten' /\ Writing'
           /\ pc' \in [Caller -> {"start", "push", "await", "sleep", "done"}]
           /\ slot' \in [Caller -> {"none", "held", "Sent", "Closed", "Response", "Canceled"}]
           /\ \A c \in Caller :
                 /\ pc'[c] = "start" => slot'[c] = "none"
                 /\ pc'[c] = "push" /\ Operation(c) # "get" => slot'[c] = Given(c)
           /\ \A c \in requests : c \in User /\ Op[c] = "get"
           /\ \A c \in Caller : Operation(c) = "get" /\ slot'[c] = "held" => c \in requests
  <1>1. d \in Caller /\ Operation(d) = "close"
    BY CallerAssumption DEF Caller, Operation
  <1>2. /\ pc \in [Caller -> {"start", "push", "await", "sleep", "done"}]
        /\ slot \in [Caller -> {"none", "held", "Sent", "Closed", "Response", "Canceled"}]
    BY DEF IInv, TypeOK
  <1>3. d \notin Owners(queue) \cup Owners(hand)
    BY <1>1, NotOwner
  <1>4. slot[d] = "none"
    BY <1>1 DEF IInv, Fresh
  <1>5. /\ pc'[d] = "push" /\ slot'[d] = "held"
        /\ \A c \in Caller \ {d} : pc'[c] = pc[c] /\ slot'[c] = slot[c]
        /\ pc' \in [Caller -> {"start", "push", "await", "sleep", "done"}]
        /\ slot' \in [Caller -> {"none", "held", "Sent", "Closed", "Response", "Canceled"}]
    BY <1>1, <1>2
  <1>6. Carried' /\ OneshotOwned' /\ SentMeansWritten' /\ Writing'
    BY <1>1, <1>3, <1>5, OneCaller
  <1>7. \A c \in Caller :
           /\ pc'[c] = "start" => slot'[c] = "none"
           /\ pc'[c] = "push" /\ Operation(c) # "get" => slot'[c] = Given(c)
    BY <1>1, <1>5 DEF IInv, Fresh, Given
  <1>8. /\ \A c \in requests : c \in User /\ Op[c] = "get"
        /\ \A c \in Caller : Operation(c) = "get" /\ slot'[c] = "held" => c \in requests
    BY <1>1, <1>5 DEF IInv, Pending
  <1> QED  BY <1>5, <1>6, <1>7, <1>8

LEMMA ReaderFailsStep ==
    ASSUME IInv, ReaderFails
    PROVE  IInv'
  <1>1. /\ UNCHANGED <<queue, hand, wire, phase, writer, replies, requests>>
        /\ reader \in {"hello", "loop", "body"} /\ reader' = "error"
        /\ pc' = [pc EXCEPT ![Reader] = "push"]
        /\ slot' = [slot EXCEPT ![Reader] = "held"]
    BY DEF ReaderFails, conn
  <1>2. pc[Reader] = "start"
    BY <1>1 DEF IInv, Fresh
  <1>3. /\ Carried' /\ OneshotOwned' /\ SentMeansWritten' /\ Writing'
        /\ pc' \in [Caller -> {"start", "push", "await", "sleep", "done"}]
        /\ slot' \in [Caller -> {"none", "held", "Sent", "Closed", "Response", "Canceled"}]
        /\ \A c \in Caller :
              /\ pc'[c] = "start" => slot'[c] = "none"
              /\ pc'[c] = "push" /\ Operation(c) # "get" => slot'[c] = Given(c)
        /\ \A c \in requests : c \in User /\ Op[c] = "get"
        /\ \A c \in Caller : Operation(c) = "get" /\ slot'[c] = "held" => c \in requests
    BY <1>1, <1>2, CloserStarts
  <1>4. TypeOK'
    BY <1>1, <1>3 DEF IInv, TypeOK, ReaderFails, conn
  <1>5. Fresh'
    BY <1>1, <1>3 DEF Fresh, Given, Operation
  <1>6. pc'[Handler] = pc[Handler]
    BY <1>1, CallerAssumption
  <1>7. Pending'
    BY <1>1, <1>3, <1>6 DEF IInv, Pending, Operation
  <1>8. Phases'
    BY <1>1 DEF IInv, Phases
  <1> QED  BY <1>3, <1>4, <1>5, <1>7, <1>8 DEF IInv

LEMMA HandleResponseStep ==
    ASSUME IInv, NEW u \in User \cup {NoOne}, HandleResponse(u)
    PROVE  IInv'
  <1>1. /\ UNCHANGED <<queue, hand, wire, phase, writer, reader, result, chan, token,
                       indexed, error>>
        /\ u \in replies /\ replies' = replies \ {u} /\ requests' = requests \ {u}
        /\ IF u \in requests
           THEN slot' = [slot EXCEPT ![u] = "Response"] /\ pc' = pc
           ELSE /\ slot' = [slot EXCEPT ![Handler] = "held"]
                /\ pc' = [pc EXCEPT ![Handler] = "push"]
    BY DEF HandleResponse, conn
  <1>2. Phases'
    BY <1>1 DEF IInv, Phases
  <1>3. CASE u \in requests
    <2>1. /\ slot' = [slot EXCEPT ![u] = "Response"] /\ pc' = pc
          /\ u \in Caller /\ u \in User /\ slot[u] = "held" /\ Operation(u) = "get"
          /\ u \notin Owners(queue) \cup Owners(hand) /\ u # NoOne
      BY <1>1, <1>3, RequestWaits
    <2>2. slot \in [Caller -> {"none", "held", "Sent", "Closed", "Response", "Canceled"}]
      BY DEF IInv, TypeOK
    <2>3. slot'[u] = "Response" /\ \A c \in Caller \ {u} : slot'[c] = slot[c]
      BY <2>1, <2>2
    <2>4. TypeOK'
      BY <1>1, <2>1, <2>2 DEF IInv, TypeOK
    <2>5. Carried' /\ OneshotOwned' /\ SentMeansWritten' /\ Writing'
      BY <1>1, <2>1, <2>3, OneCaller
    <2>6. Pending'
      BY <1>1, <2>1, <2>3 DEF IInv, Pending, Operation
    <2>7. Fresh'
      BY <1>1, <2>1, <2>3 DEF IInv, Fresh, Given, Operation
    <2> QED  BY <1>2, <2>4, <2>5, <2>6, <2>7 DEF IInv
  <1>4. CASE u \notin requests
    <2>1. u = NoOne /\ pc[Handler] = "start" /\ requests' = requests
      BY <1>1, <1>4 DEF IInv, Pending
    <2>2. /\ Carried' /\ OneshotOwned' /\ SentMeansWritten' /\ Writing'
          /\ pc' \in [Caller -> {"start", "push", "await", "sleep", "done"}]
          /\ slot' \in [Caller -> {"none", "held", "Sent", "Closed", "Response", "Canceled"}]
          /\ \A c \in Caller :
                /\ pc'[c] = "start" => slot'[c] = "none"
                /\ pc'[c] = "push" /\ Operation(c) # "get" => slot'[c] = Given(c)
          /\ \A c \in requests : c \in User /\ Op[c] = "get"
          /\ \A c \in Caller : Operation(c) = "get" /\ slot'[c] = "held" => c \in requests
      BY <1>1, <1>4, <2>1, CloserStarts
    <2>3. TypeOK'
      BY <1>1, <2>1, <2>2 DEF IInv, TypeOK
    <2>4. pc'[Reader] = pc[Reader]
      <3>1. pc' = [pc EXCEPT ![Handler] = "push"]
        BY <1>1, <1>4
      <3>2. pc \in [Caller -> {"start", "push", "await", "sleep", "done"}]
        BY DEF IInv, TypeOK
      <3> QED  BY <3>1, <3>2, CallerAssumption DEF Caller
    <2>5. Fresh'
      BY <1>1, <2>2, <2>4 DEF IInv, Fresh, Given, Operation
    <2>6. Pending'
      BY <1>1, <2>1, <2>2 DEF IInv, Pending, Operation
    <2> QED  BY <1>2, <2>2, <2>3, <2>5, <2>6 DEF IInv
  <1> QED  BY <1>3, <1>4
-----------------------------------------------------------------------------
LEMMA InitIInv == Init => IInv
  <1> SUFFICES ASSUME Init PROVE IInv
    OBVIOUS
  <1>1. Owners(queue) = {} /\ Owners(hand) = {}
    BY NoOwners DEF Init
  <1>2. TypeOK
    <2>1. /\ pc \in [Caller -> {"start", "push", "await", "sleep", "done"}]
          /\ slot \in [Caller -> {"none", "held", "Sent", "Closed", "Response", "Canceled"}]
          /\ result \in [Caller -> {"none", "Ok", "Closed", "Timeout", "Other",
                                    "UnknownPeer", "IO"}]
      BY DEF Init
    <2>2. /\ indexed \in 0..Indexes
          /\ queue \in Seq(Item) /\ Len(queue) <= Capacity
          /\ hand \in Seq(Item) /\ Len(hand) <= 1 /\ wire \in Seq(Item)
      BY CapacityAssumption DEF Init
    <2> QED  BY <2>1, <2>2 DEF Init, TypeOK
  <1>3. Carried
    BY <1>1 DEF Init, Carried, Authentic, Distinct
  <1>4. Pending /\ Fresh /\ Phases /\ Writing
    BY CallerAssumption DEF Init, Pending, Fresh, Given, Phases, Writing, Caller
  <1>5. OneshotOwned /\ SentMeansWritten
    BY <1>1 DEF Init, OneshotOwned, SentMeansWritten
  <1> QED  BY <1>2, <1>3, <1>4, <1>5 DEF IInv

LEMMA StutterIInv ==
    ASSUME IInv, UNCHANGED vars
    PROVE  IInv'
  <1>1. /\ UNCHANGED <<queue, hand, requests, pc, slot, wire, replies, phase, writer, reader,
                       indexed, error, result, chan, token>>
    BY DEF vars, conn, tasks, calls
  <1>2. TypeOK'
    BY <1>1 DEF IInv, TypeOK
  <1>3. SentMeansWritten'
    BY <1>1, SentStays, OwnItem DEF Kind
  <1>4. Pending' /\ Fresh' /\ Phases' /\ Writing'
    BY <1>1, CallersStay DEF IInv, Pending, Fresh, Given, Phases, Writing, Greeted, Own
  <1> QED  BY <1>1, <1>2, <1>3, <1>4, CallersStay DEF IInv

LEMMA NextIInv ==
    ASSUME IInv, [Next]_vars
    PROVE  IInv'
  <1>1. CASE ConnectionStep
    BY <1>1, TaskOfConnectionSteps, EarlyReturns, QueueIndexStep, DrainRequestsStep
       DEF ConnectionStep
  <1>2. CASE PeerStep
    BY <1>2, ReaderSteps, ReaderFailsStep, ReadResponseStep DEF PeerStep
  <1>3. CASE ReaderStep
    BY <1>3, ReaderSteps DEF ReaderStep
  <1>4. CASE WriterStep
    BY <1>4, OwnMessageSteps, TakeMessageStep, WriteMessageStep, WriterEndSteps DEF WriterStep
  <1>5. CASE IndexFails \/ WritePing \/ WriteFails
    BY <1>5, EarlyReturns, OwnMessageSteps, WriterEndSteps
  <1>6. ASSUME NEW c \in Caller, CallerStep(c) PROVE IInv'
    BY <1>6, PushStep, PushRefusedStep, ReturnStep, WakeStep DEF CallerStep
  <1>7. ASSUME NEW u \in User, Call(u) PROVE IInv'
    BY <1>7, CallStep
  <1>8. ASSUME NEW u \in User \cup {NoOne}, HandleResponse(u) PROVE IInv'
    BY <1>8, HandleResponseStep
  <1>9. CASE UNCHANGED vars
    BY <1>9, StutterIInv
  <1> QED  BY <1>1, <1>2, <1>3, <1>4, <1>5, <1>6, <1>7, <1>8, <1>9 DEF Next

LEMMA SpecIInv == Spec => []IInv
  <1>1. Init => IInv
    BY InitIInv
  <1>2. IInv /\ [Next]_vars => IInv'
    BY NextIInv
  <1> QED  BY <1>1, <1>2, PTL DEF Spec

(***************************************************************************)
(* Type correctness of the connection; that the queue holds at most its    *)
(* capacity, and the writer at most one message, is part of it.            *)
(***************************************************************************)
THEOREM ConnectionTypeCorrect == Spec => []TypeOK
  <1>1. IInv => TypeOK
    BY DEF IInv
  <1> QED  BY <1>1, SpecIInv, PTL

(***************************************************************************)
(* No caller waits for a oneshot whose sending half is gone, however the   *)
(* end of the writer, close_receiver and the callers interleave.           *)
(***************************************************************************)
THEOREM EveryOneshotOwned == Spec => []OneshotOwned
  <1>1. IInv => OneshotOwned
    BY DEF IInv
  <1> QED  BY <1>1, SpecIInv, PTL

(***************************************************************************)
(* A close or a wait_for_ready that is told `Sent` follows the Hello and   *)
(* the ClusterConfig on the wire, and so does the Close.                   *)
(***************************************************************************)
THEOREM SentIsWritten == Spec => []SentMeansWritten
  <1>1. IInv => SentMeansWritten
    BY DEF IInv
  <1> QED  BY <1>1, SpecIInv, PTL
=============================================================================
