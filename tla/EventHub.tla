------------------------------ MODULE EventHub ------------------------------
(***************************************************************************)
(* The live event stream (internal/api/events.go) from the start of a       *)
(* server to its graceful stop (api/server.go, ListenAndServe).  Requests   *)
(* that change something publish an event before they are answered; each    *)
(* viewer's request subscribes and copies events to its client until the    *)
(* client leaves or the hub is closed.  The hub's lock guards the set of    *)
(* subscribers, not their channels.                                         *)
(***************************************************************************)
EXTENDS Naturals, Sequences, FiniteSets, SequencesExt

CONSTANTS
  Request, \* the requests that change something
  Stream,  \* the requests for /v1/events; a viewer that reconnects is another
  Buffer   \* how many events a subscriber's channel holds

ASSUME RequestAssumption == IsFiniteSet(Request)
ASSUME BufferAssumption == Buffer \in Nat \ {0}

VARIABLES
  server,    \* "serving", "closing" (told to stop), "closed" (the hub is),
             \* "draining" (Shutdown waits), "stopped" or "overdue"
  hub,       \* closed, the last sequence number, and the subscribers
  stream,    \* each stream: its handler's step, its channel, and history: what
             \* was sent, the sequence number it began at, whether it was late
  request,   \* each request: its step, its event, and the subscribers to send to
  published, \* history: by event, those whose publish was over when it began
  raced      \* history: the requests a channel was closed under

hubVars == <<server, hub, stream, request, published, raced>>

Event == 1 .. Cardinality(Request)
Accepting == server \in {"serving", "closing", "closed"}
Running(r) == request[r].pc \in {"publish", "send"}
Open(s) == stream[s].pc \notin {"new", "done"}

-----------------------------------------------------------------------------
(* Publishing *)

\* A request has done its writes; one that wrote nothing publishes nothing.
SendEvent(r) ==
  /\ Accepting /\ request[r].pc = "new"
  /\ \E pc \in {"publish", "answered"} : request' = [request EXCEPT ![r].pc = pc]
  /\ UNCHANGED <<server, hub, stream, published, raced>>

Over(e) == \A r \in Request : request[r].event = e => ~Running(r)

\* BUG (a mutant of Publish): the sequence number is not advanced.
PublishSameNumber(r) ==
  /\ request[r].pc = "publish"
  /\ IF hub.closed THEN request' = [request EXCEPT ![r].pc = "answered"]
     ELSE request' = [request EXCEPT ![r] =
            [pc |-> "send", event |-> hub.seq + 1, pending |-> hub.subs]]
  /\ UNCHANGED <<server, hub, stream, published, raced>>

\* The first half of publish: number the event and collect the subscribers, under
\* the lock.
Publish(r) ==
  LET e == hub.seq + 1
  IN  /\ request[r].pc = "publish"
      /\ IF hub.closed
         THEN /\ request' = [request EXCEPT ![r].pc = "answered"]
              /\ UNCHANGED <<hub, published>>
         ELSE /\ hub' = [hub EXCEPT !.seq = e]
              /\ request' = [request EXCEPT ![r] =
                   [pc |-> "send", event |-> e, pending |-> hub.subs]]
              /\ published' = [published EXCEPT ![e] = {d \in 1 .. hub.seq : Over(d)}]
      /\ UNCHANGED <<server, stream, raced>>

Full(s) == Len(stream[s].chan) >= Buffer
Sent(r, s) == request' = [request EXCEPT ![r].pending = @ \ {s}]

\* BUG (a mutant of Send): a full channel is waited for.
SendBlocking(r, s) ==
  /\ request[r].pc = "send" /\ s \in request[r].pending
  /\ \/ /\ stream[s].shut
        /\ request' = [request EXCEPT ![r].pc = "failed"]
        /\ UNCHANGED stream
     \/ /\ ~stream[s].shut /\ ~Full(s) /\ Sent(r, s)
        /\ stream' = [stream EXCEPT ![s].chan = Append(@, request[r].event),
                                    ![s].log = Append(@, request[r].event)]
  /\ UNCHANGED <<server, hub, published, raced>>

\* The second half, without the lock and in any order.  A full channel is skipped;
\* a send on a closed one panics, full or not, and withRecovery answers 500.
Send(r, s) ==
  /\ request[r].pc = "send" /\ s \in request[r].pending
  /\ \/ /\ stream[s].shut
        /\ request' = [request EXCEPT ![r].pc = "failed"]
        /\ UNCHANGED stream
     \/ /\ ~stream[s].shut /\ Full(s) /\ Sent(r, s)
        /\ UNCHANGED stream
     \/ /\ ~stream[s].shut /\ ~Full(s) /\ Sent(r, s)
        /\ stream' = [stream EXCEPT ![s].chan = Append(@, request[r].event),
                                    ![s].log = Append(@, request[r].event)]
  /\ UNCHANGED <<server, hub, published, raced>>

Answer(r) ==
  /\ request[r].pc = "send" /\ request[r].pending = {}
  /\ request' = [request EXCEPT ![r].pc = "answered"]
  /\ UNCHANGED <<server, hub, stream, published, raced>>

-----------------------------------------------------------------------------
(* Streaming: handleEvents *)

\* A viewer's request is accepted, and authenticated against the database.
Connect(s) ==
  /\ Accepting /\ stream[s].pc = "new"
  /\ stream' = [stream EXCEPT ![s].pc = "subscribe"]
  /\ UNCHANGED <<server, hub, request, published, raced>>

\* A closed hub does not take the subscriber, and nobody will close its channel.
\* Then the greeting is written.
Subscribe(s) ==
  /\ stream[s].pc = "subscribe"
  /\ hub' = IF hub.closed THEN hub ELSE [hub EXCEPT !.subs = @ \cup {s}]
  /\ stream' = [stream EXCEPT ![s].pc = "write", ![s].since = hub.seq, ![s].late = hub.closed]
  /\ UNCHANGED <<server, request, published, raced>>

\* The select of the handler's loop: an event, the end of a closed channel, or the
\* keep-alive.
Take(s) ==
  /\ stream[s].pc = "wait"
  /\ \/ /\ stream[s].chan # <<>>
        /\ stream' = [stream EXCEPT ![s].chan = Tail(@), ![s].pc = "write"]
     \/ /\ stream[s].chan = <<>> /\ stream[s].shut
        /\ stream' = [stream EXCEPT ![s].pc = "leave"]
  /\ UNCHANGED <<server, hub, request, published, raced>>

KeepAlive(s) ==
  /\ stream[s].pc = "wait"
  /\ stream' = [stream EXCEPT ![s].pc = "write"]
  /\ UNCHANGED <<server, hub, request, published, raced>>

\* The client takes what is written; no deadline is set on it.
Written(s) ==
  /\ stream[s].pc = "write"
  /\ stream' = [stream EXCEPT ![s].pc = "wait"]
  /\ UNCHANGED <<server, hub, request, published, raced>>

ClientGone(s) ==
  /\ stream[s].pc \in {"wait", "write"}
  /\ stream' = [stream EXCEPT ![s].pc = "leave"]
  /\ UNCHANGED <<server, hub, request, published, raced>>

RacedWith(gone) == raced \cup {r \in Request : request[r].pc = "send" /\ request[r].pending \cap gone # {}}

\* BUG (a mutant of Unsubscribe): the subscriber stays registered.
UnsubscribeKept(s) ==
  /\ stream[s].pc = "leave"
  /\ stream' = [stream EXCEPT ![s].pc = "done", ![s].shut = TRUE]
  /\ raced' = RacedWith({s})
  /\ UNCHANGED <<server, hub, request, published>>

\* The deferred unsubscribe: the channel is closed unless close has done so.
Unsubscribe(s) ==
  LET known == s \in hub.subs
  IN  /\ stream[s].pc = "leave"
      /\ stream' = [stream EXCEPT ![s].pc = "done", ![s].shut = @ \/ known]
      /\ hub' = [hub EXCEPT !.subs = @ \ {s}]
      /\ raced' = IF known THEN RacedWith({s}) ELSE raced
      /\ UNCHANGED <<server, request, published>>

-----------------------------------------------------------------------------
(* Stopping: ListenAndServe, once its context is cancelled *)

Signal ==
  /\ server = "serving" /\ server' = "closing"
  /\ UNCHANGED <<hub, stream, request, published, raced>>

\* BUG (a mutant of Close): the subscribers are forgotten with channels open.
CloseForgetting ==
  /\ server = "closing" /\ server' = "closed"
  /\ hub' = [hub EXCEPT !.closed = TRUE, !.subs = {}]
  /\ UNCHANGED <<stream, request, published, raced>>

\* s.Close(): the hub is closed with the channels of its subscribers.
Close ==
  /\ server = "closing" /\ server' = "closed"
  /\ hub' = [hub EXCEPT !.closed = TRUE, !.subs = {}]
  /\ stream' = [s \in Stream |-> [stream[s] EXCEPT !.shut = @ \/ s \in hub.subs]]
  /\ raced' = RacedWith(hub.subs)
  /\ UNCHANGED <<request, published>>

\* srv.Shutdown stops accepting.
Shutdown ==
  /\ server = "closed" /\ server' = "draining"
  /\ UNCHANGED <<hub, stream, request, published, raced>>

Drained ==
  /\ server = "draining" /\ server' = "stopped"
  /\ \A s \in Stream : ~Open(s)
  /\ \A r \in Request : ~Running(r)
  /\ UNCHANGED <<hub, stream, request, published, raced>>

\* What is left waits for a client: shutdown_grace is long enough for all that a
\* handler does by itself.
Stuck(s) ==
  stream[s].pc = "write" \/ (stream[s].pc = "wait" /\ stream[s].chan = <<>> /\ ~stream[s].shut)
Overdue ==
  /\ server = "draining" /\ server' = "overdue"
  /\ \A r \in Request : ~Running(r)
  /\ \E s \in Stream : Open(s)
  /\ \A s \in Stream : Open(s) => Stuck(s)
  /\ UNCHANGED <<hub, stream, request, published, raced>>

HubInit ==
  /\ server = "serving"
  /\ hub = [closed |-> FALSE, seq |-> 0, subs |-> {}]
  /\ stream = [s \in Stream |-> [pc |-> "new", chan |-> <<>>, shut |-> FALSE,
                                 log |-> <<>>, since |-> 0, late |-> FALSE]]
  /\ request = [r \in Request |-> [pc |-> "new", event |-> 0, pending |-> {}]]
  /\ published = [e \in Event |-> {}]
  /\ raced = {}

Handle(r) == Publish(r) \/ Answer(r) \/ \E s \in Stream : Send(r, s)

\* The process ends with ListenAndServe, and its goroutines with it.
HubNext ==
  /\ server \notin {"stopped", "overdue"}
  /\ \/ \E r \in Request : SendEvent(r) \/ Handle(r)
     \/ \E s \in Stream :
          \/ Connect(s) \/ Subscribe(s) \/ Take(s) \/ KeepAlive(s)
          \/ Written(s) \/ ClientGone(s) \/ Unsubscribe(s)
     \/ Signal \/ Close \/ Shutdown \/ Drained \/ Overdue

HubSpec == HubInit /\ [][HubNext]_hubVars

\* A handler's goroutine gets on; clients need not read, nor viewers leave.
HubFairSpec == HubSpec /\ \A r \in Request : WF_hubVars(Handle(r))

-----------------------------------------------------------------------------
(* What the stream promises *)

\* A request whose writes are done is not answered 500 for its event, unless a
\* viewer left or the hub was closed between its collecting the subscribers and
\* sending to them.
FailsOnlyByRace == \A r \in Request : request[r].pc = "failed" => r \in raced

\* A viewer gets an event at most once, none that was published before it came, and
\* two events in their order unless their requests published side by side.
InOrder ==
  \A s \in Stream :
    LET log == stream[s].log
    IN  /\ IsInjective(log)
        /\ \A i \in DOMAIN log :
             /\ log[i] > stream[s].since
             /\ \A j \in 1 .. i - 1 : log[i] \notin published[log[j]]

\* "A viewer left open on a laptop that went to sleep must not be able to stall
\* the request that created a memory": it is answered, whatever the clients do.
NeverStalled == \A r \in Request : Running(r) ~> request[r].pc \in {"answered", "failed"}

\* The grace runs out only on a client that does not read, or on a stream that
\* subscribed after the hub was closed: every other stream is ended by close.
OverdueOnlyIfStuck ==
  server = "overdue" => \E s \in Stream : Open(s) /\ (stream[s].pc = "write" \/ stream[s].late)

\* What the stream promises in a state: events once and in order, requests
\* undisturbed by viewers, and a stop that waits for clients only.
StreamSound == InOrder /\ FailsOnlyByRace /\ OverdueOnlyIfStuck
=============================================================================
