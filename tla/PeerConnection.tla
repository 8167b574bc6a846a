--------------------------- MODULE PeerConnection ---------------------------
(***************************************************************************)
(* One end of a connection (peer_connection/mod.rs and handlers.rs): the   *)
(* task of the connection, the reader, the writer, and the callers, which  *)
(* give messages to the writer through a bounded queue and wait for an     *)
(* answer on a oneshot channel.                                            *)
(*                                                                         *)
(* The sending half of a caller's oneshot is always in one place: with the *)
(* message in the queue, in the hands of the writer, or, when the caller   *)
(* waits for a Response, in the map `requests`.  Whoever drops it without  *)
(* an answer wakes the caller with Canceled.                               *)
(***************************************************************************)
EXTENDS Naturals, Sequences, FiniteSets

CONSTANTS
    User,       \* the tasks that use the connection
    Op,         \* Op[u]: "ready", "close", "get", "send" or "waitclose"
    Reader,     \* the reader, when it closes the connection after an error
    Handler,    \* a handler of an unsolicited Response, which closes it too
    NoOne,      \* the owner of a message nobody waits for
    Capacity,   \* of the queue: channel(100) in the code
    Indexes,    \* Index messages of the first send_index, one per folder
    MaxPings    \* bounds the Pings of an idle writer

Caller == User \cup {Reader, Handler}

ASSUME CallerAssumption ==
    /\ Reader \notin User /\ Handler \notin User /\ Reader # Handler
    /\ NoOne \notin Caller
    /\ Op \in [User -> {"ready", "close", "get", "send", "waitclose"}]
ASSUME CapacityAssumption ==
    Capacity \in Nat \ {0} /\ Indexes \in Nat /\ MaxPings \in Nat

VARIABLES
    phase,      \* the task of the connection
    indexed,    \* Index messages that send_index has queued so far
    queue,      \* the messages given to the writer
    chan,       \* the receiving half of the queue
    requests,   \* callers with a listener in the map of pending requests
    token,      \* the cancellation token
    error,      \* what is stored as the fatal error of the connection
    reader,     \* the reader task
    writer,     \* the writer task
    hand,       \* the message the writer is working on: none or one
    wire,       \* what the writer has written, in order
    replies,    \* Responses that were read and whose handler has not run
    pc, slot,   \* a caller's progress, and its oneshot
    result      \* what a caller's operation returned

conn  == <<phase, indexed, error>>
tasks == <<reader, writer, hand, wire, replies>>
calls == <<pc, slot, result>>
vars  == <<conn, tasks, calls, queue, chan, requests, token>>

\* A message, who has queued it, and whether the oneshot travels along.
Kind == {"Nothing", "Index", "Close", "Request", "Message",
         "Hello", "ClusterConfig", "Ping"}
Item == [by : Caller \cup {NoOne}, kind : Kind, waits : BOOLEAN]

Own(kind) == [by |-> NoOne, kind |-> kind, waits |-> FALSE]

Operation(c) == IF c \in User THEN Op[c] ELSE "close"

TypeOK ==
    /\ phase \in {"verify", "index", "run", "unverified", "noindex", "returned",
                  "drained", "panicked"}
    /\ indexed \in 0..Indexes
    /\ queue \in Seq(Item) /\ Len(queue) <= Capacity
    /\ chan \in {"open", "dropped"}
    /\ requests \subseteq Caller
    /\ token \in BOOLEAN
    /\ error \in {"none", "UnknownPeer", "IO"}
    /\ reader \in {"none", "hello", "loop", "body", "error", "done", "panicked"}
    /\ writer \in {"none", "hello", "config", "loop", "write", "done"}
    /\ hand \in Seq(Item) /\ Len(hand) <= 1
    /\ wire \in Seq(Item)
    /\ replies \subseteq User \cup {NoOne}
    /\ pc \in [Caller -> {"start", "push", "await", "sleep", "done"}]
    /\ slot \in [Caller -> {"none", "held", "Sent", "Closed", "Response",
                            "Canceled"}]
    /\ result \in [Caller -> {"none", "Ok", "Closed", "Timeout", "Other",
                              "UnknownPeer", "IO"}]

Init ==
    /\ phase = "verify" /\ indexed = 0 /\ error = "none"
    /\ queue = <<>> /\ chan = "open" /\ requests = {} /\ token = FALSE
    /\ reader = "none" /\ writer = "none" /\ hand = <<>>
    /\ wire = <<>> /\ replies = {}
    /\ pc = [c \in Caller |-> "start"]
    /\ slot = [c \in Caller |-> "none"]
    /\ result = [c \in Caller |-> "none"]
-----------------------------------------------------------------------------
\* The callers whose oneshot travels with the messages in s.
Owners(s) == {c \in Caller : \E i \in 1..Len(s) : s[i].by = c /\ s[i].waits}

\* Faulty variant: the receiver is closed and put aside, neither drained nor
\* dropped; what it holds is out of reach, and its callers are forgotten.
DropReceiverSilently(r) ==
    chan' = "dropped" /\ queue' = <<>> /\ hand' = <<>> /\ slot' = slot

\* The receiving half of the queue is dropped.  What is still queued was
\* answered with `r` before (close_receiver), or is dropped with it; the message
\* the writer is working on is dropped.
DropReceiver(r) ==
    /\ chan' = "dropped"
    /\ queue' = <<>>
    /\ hand' = <<>>
    /\ slot' = [c \in Caller |-> CASE c \in Owners(hand)  -> "Canceled"
                                   [] c \in Owners(queue) -> r
                                   [] OTHER               -> slot[c]]
-----------------------------------------------------------------------------
(***************************************************************************)
(* PeerConnection::new and handle_connection.                              *)
(***************************************************************************)

\* verify_connection, which ends after four seconds at the latest.
Verified ==
    /\ phase = "verify" /\ phase' = "index"
    /\ UNCHANGED <<indexed, error, tasks, calls, queue, chan, requests, token>>

\* handle_connection returns early: its receiver is dropped on the way.
ReturnsEarly(p) ==
    /\ phase' = p
    /\ DropReceiver("Canceled")
    /\ UNCHANGED <<indexed, error, reader, writer, wire, replies, pc, result,
                   requests, token>>

NotVerified == phase = "verify" /\ ReturnsEarly("unverified")

\* Faulty variant: the queue has no bound.
QueueIndexUnbounded ==
    /\ phase = "index" /\ indexed < Indexes
    /\ queue' = Append(queue, Own("Index"))
    /\ indexed' = indexed + 1
    /\ UNCHANGED <<phase, error, tasks, calls, chan, requests, token>>

\* send_index comes before the writer is started: when the queue is full, it
\* waits for a place that nobody makes.
QueueIndex ==
    /\ phase = "index" /\ indexed < Indexes /\ Len(queue) < Capacity
    /\ queue' = Append(queue, Own("Index"))
    /\ indexed' = indexed + 1
    /\ UNCHANGED <<phase, error, tasks, calls, chan, requests, token>>

\* A file of the next folder cannot be read; or send_index panics (an empty file
\* in gen_blocks, an incomplete row in get_sync_files), and the task of the
\* connection ends with it: no error is stored.
IndexFails ==
    /\ phase = "index" /\ indexed < Indexes
    /\ \E p \in {"noindex", "panicked"} : ReturnsEarly(p)

SpawnTasks ==
    /\ phase = "index" /\ indexed = Indexes
    /\ phase' = "run" /\ reader' = "hello" /\ writer' = "hello"
    /\ UNCHANGED <<indexed, error, hand, wire, replies, calls, queue, chan,
                   requests, token>>

\* TaskTracker::wait returns when the tracker is closed and empty.  Nothing in
\* the code closes it.
TrackerClosed == FALSE
TrackerDone   == TrackerClosed /\ reader \in {"done", "panicked"} /\ writer = "done"

\* handle_connection has returned; an error is stored only now.
Returned == \/ phase \in {"unverified", "noindex"}
            \/ phase = "run" /\ TrackerDone
StoreError ==
    /\ Returned
    /\ phase' = "returned"
    /\ error' = CASE phase = "unverified" -> "UnknownPeer"
                  [] phase = "noindex"    -> "IO"
                  [] OTHER                -> error
    /\ UNCHANGED <<indexed, tasks, calls, queue, chan, requests, token>>

DrainRequests ==
    /\ phase = "returned" /\ phase' = "drained"
    /\ slot' = [c \in Caller |-> IF c \in requests THEN "Closed" ELSE slot[c]]
    /\ requests' = {}
    /\ UNCHANGED <<indexed, error, tasks, pc, result, queue, chan, token>>
-----------------------------------------------------------------------------
(***************************************************************************)
(* The callers: wait_for_ready, close, get_file's request, submit_message  *)
(* and wait_for_close; submit_request and its oneshot.                     *)
(***************************************************************************)

\* A listener is in the map before the request is in the queue.
Call(u) ==
    /\ pc[u] = "start"
    /\ pc' = [pc EXCEPT ![u] = IF Op[u] = "waitclose" THEN "await" ELSE "push"]
    /\ slot' = [slot EXCEPT ![u] =
                  IF Op[u] \in {"ready", "close", "get"} THEN "held" ELSE "none"]
    /\ requests' = IF Op[u] = "get" THEN requests \cup {u} ELSE requests
    /\ UNCHANGED <<conn, tasks, result, queue, chan, token>>

\* What is queued for an operation, and whether it carries the oneshot.
MessageOf(c) ==
    CASE Operation(c) = "ready" -> [by |-> c, kind |-> "Nothing", waits |-> TRUE]
      [] Operation(c) = "close" -> [by |-> c, kind |-> "Close",   waits |-> TRUE]
      [] Operation(c) = "get"   -> [by |-> c, kind |-> "Request", waits |-> FALSE]
      [] OTHER                  -> [by |-> c, kind |-> "Message", waits |-> FALSE]

\* The return of an operation of c.
Finish(c, r) ==
    /\ pc' = [pc EXCEPT ![c] = "done"]
    /\ result' = [result EXCEPT ![c] = r]

\* tx.send: it waits while the queue is full.
Push(c) ==
    /\ pc[c] = "push" /\ chan = "open" /\ Len(queue) < Capacity
    /\ queue' = Append(queue, MessageOf(c))
    /\ IF Operation(c) = "send"
       THEN Finish(c, "Ok")
       ELSE pc' = [pc EXCEPT ![c] = "await"] /\ result' = result
    /\ UNCHANGED <<conn, tasks, slot, chan, requests, token>>

\* tx.send fails.  Except in wait_for_ready that is only logged, and the caller
\* waits all the same: for an oneshot dropped with the message, or for a
\* listener that stays in the map.
PushRefused(c) ==
    /\ pc[c] = "push" /\ chan = "dropped"
    /\ slot' = [slot EXCEPT ![c] = IF Operation(c) = "get" THEN @ ELSE "Canceled"]
    /\ CASE Operation(c) = "ready" ->
                Finish(c, IF error = "none" THEN "Timeout" ELSE error)
         [] Operation(c) = "send" -> Finish(c, "Ok")
         [] OTHER -> pc' = [pc EXCEPT ![c] = "await"] /\ result' = result
    /\ UNCHANGED <<conn, tasks, queue, chan, requests, token>>

\* rx.await has an answer (wait_for_close: the tracker is done).
AwaitOver(c) == IF Operation(c) = "waitclose" THEN TrackerDone
                ELSE slot[c] \notin {"none", "held"}

Return(c) ==
    /\ pc[c] = "await" /\ AwaitOver(c)
    /\ CASE Operation(c) = "ready" /\ slot[c] = "Canceled" ->
                pc' = [pc EXCEPT ![c] = "sleep"] /\ result' = result
         [] Operation(c) = "get" /\ slot[c] = "Closed"     -> Finish(c, "Closed")
         [] c \notin User /\ slot[c] = "Canceled"          -> Finish(c, "Closed")
         [] Operation(c) = "waitclose" /\ error # "none"   -> Finish(c, error)
         [] OTHER                                          -> Finish(c, "Ok")
    /\ token' = (token \/ (Operation(c) = "close" /\ slot[c] # "Canceled"))
    /\ UNCHANGED <<conn, tasks, slot, queue, chan, requests>>

\* wait_for_ready sleeps for 100 ms, in which an error is stored, if any is.
Wake(u) ==
    /\ pc[u] = "sleep" /\ phase \notin {"unverified", "noindex"}
    /\ Finish(u, IF error = "none" THEN "Other" ELSE error)
    /\ UNCHANGED <<conn, tasks, slot, queue, chan, requests, token>>
-----------------------------------------------------------------------------
(***************************************************************************)
(* handle_reading and the end of the reader task.  Only the wait for the   *)
(* header of the next message ends when the token is cancelled.  A reader  *)
(* that returns cancels the token; one that panics does not get there.     *)
(***************************************************************************)
ReadHello ==
    /\ reader = "hello" /\ reader' = "loop"
    /\ UNCHANGED <<conn, writer, hand, wire, replies, calls, queue, chan,
                   requests, token>>

ReadHeader ==
    /\ reader = "loop" /\ reader' = "body"
    /\ UNCHANGED <<conn, writer, hand, wire, replies, calls, queue, chan,
                   requests, token>>

\* A message whose handler, if any, does not touch the state of this module; a
\* handler that panics in the reader is ReaderPanics, one that ends with an error
\* in a task of its own does as Handler does.
ReadOther ==
    /\ reader = "body" /\ reader' = "loop"
    /\ UNCHANGED <<conn, writer, hand, wire, replies, calls, queue, chan,
                   requests, token>>

\* The Response to a request that was written, or one nobody asked for; a task
\* of its own handles it.
ReadResponse(u) ==
    /\ reader = "body" /\ reader' = "loop"
    /\ \/ /\ u = NoOne /\ pc[Handler] = "start"
       \/ /\ u \in requests
          /\ \E i \in 1..Len(wire) : wire[i].kind = "Request" /\ wire[i].by = u
    /\ u \notin replies /\ replies' = replies \cup {u}
    /\ UNCHANGED <<conn, writer, hand, wire, calls, queue, chan, requests,
                   token>>

\* handle_response: the listener is answered, or the connection is closed.
HandleResponse(u) ==
    /\ u \in replies /\ replies' = replies \ {u}
    /\ requests' = requests \ {u}
    /\ IF u \in requests
       THEN slot' = [slot EXCEPT ![u] = "Response"] /\ pc' = pc
       ELSE /\ slot' = [slot EXCEPT ![Handler] = "held"]
            /\ pc' = [pc EXCEPT ![Handler] = "push"]
    /\ UNCHANGED <<conn, reader, writer, hand, wire, result, queue, chan, token>>

\* Faulty variant: the token is not cancelled.
ReadCloseOnly ==
    /\ reader = "body" /\ reader' = "done"
    /\ UNCHANGED <<conn, writer, hand, wire, replies, calls, queue, chan,
                   requests, token>>

\* The peer asks to close: the reader ends and cancels the token.
ReadClose ==
    /\ reader = "body" /\ reader' = "done"
    /\ token' = TRUE
    /\ UNCHANGED <<conn, writer, hand, wire, replies, calls, queue, chan,
                   requests>>

\* I/O error, timeout, or bytes that cannot be decoded: the reader calls
\* close_err, waits for its end and cancels the token.
ReaderFails ==
    /\ reader \in {"hello", "loop", "body"} /\ reader' = "error"
    /\ pc' = [pc EXCEPT ![Reader] = "push"]
    /\ slot' = [slot EXCEPT ![Reader] = "held"]
    /\ UNCHANGED <<conn, writer, hand, wire, replies, result, queue, chan,
                   requests, token>>

\* A body that cannot be decompressed (the unwrap in receive_message), or the
\* handler of a ClusterConfig (the insert of a folder that is there by now, the
\* assertion of sync_directory_with_peer): the task ends, and that is all.
ReaderPanics ==
    /\ reader = "body" /\ reader' = "panicked"
    /\ UNCHANGED <<conn, writer, hand, wire, replies, calls, queue, chan,
                   requests, token>>

ReaderClosed ==
    /\ reader = "error" /\ pc[Reader] = "done" /\ reader' = "done"
    /\ token' = TRUE
    /\ UNCHANGED <<conn, writer, hand, wire, replies, calls, queue, chan,
                   requests>>

ReaderCancelled ==
    /\ reader = "loop" /\ token /\ reader' = "done"
    /\ UNCHANGED <<conn, writer, hand, wire, replies, calls, queue, chan,
                   requests, token>>
-----------------------------------------------------------------------------
(***************************************************************************)
(* handle_writing, write_message, close_receiver and the end of the writer *)
(* task.                                                                   *)
(***************************************************************************)
WriteFirst(at, kind, next) ==
    /\ writer = at /\ writer' = next
    /\ wire' = Append(wire, Own(kind))
    /\ UNCHANGED <<conn, reader, hand, replies, calls, queue, chan, requests,
                   token>>

\* Faulty variant: the ClusterConfig is left out.
WriteHelloOnly == WriteFirst("hello", "Hello", "loop")

WriteHello  == WriteFirst("hello", "Hello", "config")
WriteConfig == WriteFirst("config", "ClusterConfig", "loop")

\* When both a message and the cancellation are there, either may win.
TakeMessage ==
    /\ writer = "loop" /\ queue # <<>> /\ writer' = "write"
    /\ hand' = <<Head(queue)>> /\ queue' = Tail(queue)
    /\ UNCHANGED <<conn, reader, wire, replies, calls, chan, requests, token>>

WriteMessage ==
    /\ writer = "write" /\ writer' = "loop"
    /\ wire' = IF hand[1].kind = "Nothing" THEN wire ELSE Append(wire, hand[1])
    /\ slot' = [c \in Caller |-> IF c \in Owners(hand) THEN "Sent" ELSE slot[c]]
    /\ hand' = <<>>
    /\ UNCHANGED <<conn, reader, replies, pc, result, queue, chan, requests,
                   token>>

Pings == {i \in 1..Len(wire) : wire[i].kind = "Ping"}

\* Nothing to send for 90 seconds.
WritePing ==
    /\ writer = "loop" /\ queue = <<>>
    /\ Cardinality(Pings) < MaxPings
    /\ wire' = Append(wire, Own("Ping"))
    /\ UNCHANGED <<conn, reader, writer, hand, replies, calls, queue, chan,
                   requests, token>>

\* The writer ends, cancels the token and drops the receiver.
WriterEnds(r) ==
    /\ writer' = "done" /\ token' = TRUE
    /\ DropReceiver(r)
    /\ UNCHANGED <<conn, reader, wire, replies, pc, result, requests>>

WriterCancelled == writer = "loop" /\ token /\ WriterEnds("Closed")

\* A write that fails answers what is queued with Closed; a flush that fails,
\* and the Hello, just drop it.
WriteFails ==
    \/ writer = "hello" /\ WriterEnds("Canceled")
    \/ /\ writer \in {"config", "loop", "write"}
       /\ writer = "write" => hand[1].kind # "Nothing"
       /\ \E r \in {"Closed", "Canceled"} : WriterEnds(r)
-----------------------------------------------------------------------------
ConnectionStep ==
    \/ Verified \/ NotVerified \/ QueueIndex \/ SpawnTasks
    \/ StoreError \/ DrainRequests
CallerStep(c) == Push(c) \/ PushRefused(c) \/ Return(c) \/ Wake(c)
PeerStep ==
    \/ ReadHello \/ ReadHeader \/ ReadOther \/ ReadClose \/ ReaderFails
    \/ ReaderPanics
    \/ \E u \in User \cup {NoOne} : ReadResponse(u)
ReaderStep == ReaderClosed \/ ReaderCancelled
WriterStep == WriteHello \/ WriteConfig \/ TakeMessage \/ WriteMessage
              \/ WriterCancelled

Next ==
    \/ ConnectionStep \/ PeerStep \/ ReaderStep \/ WriterStep
    \/ IndexFails \/ WritePing \/ WriteFails
    \/ \E c \in Caller : CallerStep(c)
    \/ \E u \in User : Call(u)
    \/ \E u \in User \cup {NoOne} : HandleResponse(u)

SystemStep ==
    \/ ConnectionStep \/ ReaderStep \/ WriterStep
    \/ \E c \in Caller : CallerStep(c)
    \/ \E u \in User \cup {NoOne} : HandleResponse(u)

\* The runtime does not rest while a task can run.  And writing ends, with or
\* without success: that is an assumption about the socket and the peer, since
\* write_all has no timeout and is not given up when the token is cancelled.
\* Nothing else is owed by the peer, and nothing by the users.  The runtime
\* promises more, but whatever the peer does, there are only so many such steps.
Fairness == WF_vars(SystemStep)

Spec == Init /\ [][Next]_vars
FairSpec == Spec /\ Fairness
-----------------------------------------------------------------------------
(***************************************************************************)
(* Properties.                                                             *)
(***************************************************************************)
\* The users with a call of this kind.
Callers(op) == {u \in User : Op[u] = op}

\* No caller waits for a oneshot that nobody holds: while it waits unanswered,
\* the sending half is with its message in the queue or with the writer, or in
\* the map of requests; once it is answered, it is in none of these.  This is
\* what keeps close, close_err and wait_for_ready from waiting for ever when the
\* queue is closed, drained or dropped while they are about to use it.
OneshotOwned ==
    \A c \in Caller :
        /\ (pc[c] = "await" /\ slot[c] = "held") =>
              \/ Operation(c) = "get" /\ c \in requests
              \/ Operation(c) # "get" /\ c \in Owners(queue) \cup Owners(hand)
        /\ slot[c] # "held" =>
              c \notin requests \cup Owners(queue) \cup Owners(hand)

\* Whoever is told `Sent` can rely on it: the message is on the wire, and with
\* it, before it, the Hello and the ClusterConfig.
SentMeansWritten ==
    \A c \in Caller : slot[c] = "Sent" =>
        /\ Len(wire) >= 2 /\ wire[1] = Own("Hello")
        /\ wire[2] = Own("ClusterConfig")
        /\ Operation(c) = "close" =>
              \E i \in 3..Len(wire) : wire[i] = MessageOf(c)

\* close returns, whatever state the connection is in or gets into, as long as
\* the queue has room for what is given to it before the writer runs, and as a
\* write that has begun ends (Fairness): a peer that stops reading can hold the
\* writer in write_all, and close with it.
CloseReturns ==
    \A u \in Callers("close") : pc[u] = "push" ~> pc[u] = "done"

\* When the reader returns, or the token is cancelled by anyone else, the writer
\* ends and the queue is gone: nothing more is accepted that would never be sent.
\* A reader that panics is no such end, since it cancels nothing: the writer goes
\* on until somebody closes the connection or a write fails.  A write that has
\* begun is assumed to end (Fairness).
WriterFollows == (reader = "done" \/ token) ~> (writer = "done" /\ chan = "dropped")

\* A request is answered once the connection is gone: the map of requests is
\* there "to empty it when the channel closes".
RequestsAnswered ==
    \A u \in Callers("get") :
        (pc[u] = "await" /\ reader \in {"done", "panicked"} /\ writer = "done")
            ~> pc[u] = "done"

\* wait_for_ready returns as well, when the initial messages have been sent or
\* the connection is gone: the server accepts the next connection only then.  It
\* waits for writes as close does.
ReadyReturns ==
    \A u \in Callers("ready") : pc[u] = "push" ~> pc[u] = "done"
=============================================================================
