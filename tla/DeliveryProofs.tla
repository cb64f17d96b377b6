---------------------------- MODULE DeliveryProofs ----------------------------
(***************************************************************************)
(* Machine-checked proofs about how what was stored reaches those who look *)
(* at it: the event stream of a viewer, and the pull of a team's memories  *)
(* into the mirror of a machine.  The parts share no state; each has its   *)
(* inductive invariant and its theorems.                                   *)
(***************************************************************************)
EXTENDS EventHub, MirrorPull, FiniteSetTheorems, WellFoundedInduction, TLAPS

-----------------------------------------------------------------------------
(***************************************************************************)
(* EventHub: any finite set of requests, any viewers, any size of channel  *)
(***************************************************************************)

-----------------------------------------------------------------------------
(* Types *)

StreamState ==
  [pc : {"new", "subscribe", "write", "wait", "leave", "done"}, chan : Seq(Nat),
   shut : BOOLEAN, log : Seq(Nat), since : Nat, late : BOOLEAN]
RequestState ==
  [pc : {"new", "publish", "send", "answered", "failed"}, event : Nat, pending : SUBSET Stream]

HubTypeOK ==
  /\ server \in {"serving", "closing", "closed", "draining", "stopped", "overdue"}
  /\ hub \in [closed : BOOLEAN, seq : Nat, subs : SUBSET Stream]
  /\ stream \in [Stream -> StreamState]
  /\ request \in [Request -> RequestState]
  /\ published \in [Event -> SUBSET Nat]
  /\ raced \subseteq Request

-----------------------------------------------------------------------------
(* The invariant *)

\* Sequence numbers: one to each request that published, none skipped.
Numbered == {r \in Request : request[r].event # 0}
Numbering ==
  /\ hub.seq = Cardinality(Numbered)
  /\ \A r \in Request :
       /\ request[r].event <= hub.seq
       /\ request[r].pc \in {"new", "publish"} => request[r].event = 0
       /\ request[r].pc = "send" => request[r].event # 0
  /\ \A q, r \in Numbered : request[q].event = request[r].event => q = r
  /\ \A e \in Event : published[e] \subseteq 1 .. hub.seq

\* A channel is open while its subscriber is registered, and only a stream that
\* came after close is neither registered nor shut.
Registered(s) ==
  LET st == stream[s]
  IN  /\ st.pc \in {"new", "subscribe"} => st.log = <<>> /\ ~st.shut /\ s \notin hub.subs
      /\ st.since <= hub.seq
      /\ s \in hub.subs => ~st.shut /\ st.pc \in {"write", "wait", "leave"}
      /\ st.pc \in {"write", "wait", "leave"} /\ ~st.late => s \in hub.subs \/ st.shut
      /\ \A i \in DOMAIN st.log : st.log[i] \in 1 .. hub.seq

Closing ==
  /\ hub.closed => hub.subs = {}
  /\ server \notin {"serving", "closing"} => hub.closed

\* What a request has still to send came after its viewers and is new to them, and
\* was over when no other event began.
Sending(r) ==
  LET e == request[r].event
  IN  request[r].pc = "send" =>
        /\ \A d \in Event : e \notin published[d]
        /\ \A s \in request[r].pending :
             /\ stream[s].pc \notin {"new", "subscribe"}
             /\ e > stream[s].since
             /\ \A i \in DOMAIN stream[s].log : stream[s].log[i] # e
             /\ stream[s].shut => r \in raced

HubInv ==
  /\ HubTypeOK /\ Numbering /\ Closing
  /\ \A s \in Stream : Registered(s)
  /\ \A r \in Request : Sending(r)
  /\ StreamSound

-----------------------------------------------------------------------------
(* What each step touches *)

\* The request that numbers an event.
Publishes(r) ==
  /\ request[r].pc = "publish"
  /\ hub' = [hub EXCEPT !.seq = hub.seq + 1]
  /\ request' = [request EXCEPT ![r] =
       [pc |-> "send", event |-> hub.seq + 1, pending |-> hub.subs]]
  /\ published' = [published EXCEPT ![hub.seq + 1] = {d \in 1 .. hub.seq : Over(d)}]
  /\ UNCHANGED <<server, stream, raced>>

\* A step of the requests and the server that numbers nothing.
Numberless ==
  /\ hub'.seq = hub.seq /\ published' = published
  /\ \A r \in Request :
       /\ request'[r].event = request[r].event /\ request'[r].pending \subseteq request[r].pending
       /\ request'[r].pc \in {"new", "publish"} => request[r].pc \in {"new", "publish"}
       /\ request'[r].pc = "send" => request[r].pc = "send"

\* What a handler does on its own stream: it goes on to one of its steps.
Goes(s) ==
  /\ \/ stream[s].pc = "new" /\ stream'[s].pc = "subscribe"
     \/ stream[s].pc \in {"write", "wait", "leave"} /\ stream'[s].pc \in {"write", "wait", "leave"}
  /\ stream'[s].shut = stream[s].shut /\ stream'[s].log = stream[s].log
  /\ stream'[s].since = stream[s].since /\ stream'[s].late = stream[s].late
  /\ \A t \in Stream \ {s} : stream'[t] = stream[t]
  /\ UNCHANGED <<server, hub, request, published, raced>>

Delivers(r, s) ==
  /\ request[r].pc = "send" /\ s \in request[r].pending
  /\ stream'[s].log = Append(stream[s].log, request[r].event)
  /\ stream'[s].pc = stream[s].pc /\ stream'[s].shut = stream[s].shut
  /\ stream'[s].since = stream[s].since /\ stream'[s].late = stream[s].late
  /\ \A t \in Stream \ {s} : stream'[t] = stream[t]
  /\ Sent(r, s)
  /\ UNCHANGED <<server, hub, published, raced>>

LEMMA HubSteps ==
  ASSUME HubTypeOK, [HubNext]_hubVars
  PROVE  \/ UNCHANGED <<hub, stream, published, raced>> /\ Numberless
         \/ \E r \in Request : Publishes(r)
         \/ \E r \in Request, s \in Stream : Delivers(r, s)
         \/ \E s \in Stream : Goes(s) \/ Subscribe(s) \/ Unsubscribe(s)
         \/ Close
<1> USE DEF HubTypeOK
<1>1. ASSUME NEW r \in Request, SendEvent(r) \/ Answer(r)
      PROVE  UNCHANGED <<hub, stream, published, raced>> /\ Numberless
  BY <1>1 DEF SendEvent, Answer, Numberless, RequestState
<1>2. ASSUME NEW r \in Request, Publish(r)
      PROVE  Publishes(r) \/ (UNCHANGED <<hub, stream, published, raced>> /\ Numberless)
  BY <1>2 DEF Publish, Publishes, Numberless, RequestState
<1>3. ASSUME NEW r \in Request, NEW s \in Stream, Send(r, s)
      PROVE  Delivers(r, s) \/ (UNCHANGED <<hub, stream, published, raced>> /\ Numberless)
  <2>1. CASE UNCHANGED stream
    <3>1. ASSUME request' = [request EXCEPT ![r].pc = "failed"], UNCHANGED <<hub, published>>
          PROVE  Numberless
      BY <3>1 DEF Numberless, RequestState
    <3>2. ASSUME Sent(r, s), UNCHANGED <<hub, published>> PROVE Numberless
      BY <3>2 DEF Numberless, RequestState, Sent
    <3>3. QED
      BY <1>3, <2>1, <3>1, <3>2 DEF Send
  <2>2. CASE stream' = [stream EXCEPT ![s].chan = Append(@, request[r].event),
                                      ![s].log = Append(@, request[r].event)] /\ Sent(r, s)
    BY <1>3, <2>2 DEF Send, Delivers, StreamState
  <2>3. QED
    BY <1>3, <2>1, <2>2 DEF Send
<1>4. ASSUME NEW s \in Stream, Connect(s) PROVE Goes(s)
  BY <1>4 DEF Connect, Goes, StreamState
<1>5. ASSUME NEW s \in Stream, Take(s) PROVE Goes(s)
  BY <1>5 DEF Take, Goes, StreamState
<1>6. ASSUME NEW s \in Stream, KeepAlive(s) \/ Written(s) \/ ClientGone(s) PROVE Goes(s)
  BY <1>6 DEF KeepAlive, Written, ClientGone, Goes, StreamState
<1>7. CASE Signal \/ Shutdown \/ Drained \/ Overdue \/ UNCHANGED hubVars
  BY <1>7 DEF Signal, Shutdown, Drained, Overdue, hubVars, Numberless
<1>8. QED
  BY <1>1, <1>2, <1>3, <1>4, <1>5, <1>6, <1>7 DEF HubNext, Handle

LEMMA HubNextTypeOK ==
  ASSUME HubTypeOK, [HubNext]_hubVars
  PROVE  HubTypeOK'
<1> USE DEF HubTypeOK
<1>1. ASSUME NEW r \in Request, SendEvent(r) \/ Answer(r) PROVE HubTypeOK'
  BY <1>1 DEF SendEvent, Answer, RequestState
<1>a. ASSUME NEW s \in Stream, NEW pc \in {"subscribe", "write", "wait", "leave"},
             stream' = [stream EXCEPT ![s].pc = pc]
      PROVE  stream' \in [Stream -> StreamState]
  <2>1. [stream[s] EXCEPT !.pc = pc] \in StreamState
    BY DEF StreamState
  <2>2. QED
    BY <1>a, <2>1
<1>2. ASSUME NEW r \in Request, Publish(r) PROVE HubTypeOK'
  <2>1. CASE hub.closed
    BY <1>2, <2>1 DEF Publish, RequestState
  <2>2. CASE ~hub.closed
    <3> DEFINE e == hub.seq + 1
               over == {d \in 1 .. hub.seq : Over(d)}
    <3>1. e \in Nat /\ over \in SUBSET Nat /\ hub.subs \in SUBSET Stream
      OBVIOUS
    <3>2. hub' = [hub EXCEPT !.seq = e] /\ published' = [published EXCEPT ![e] = over]
          /\ request' = [request EXCEPT ![r] =
               [pc |-> "send", event |-> e, pending |-> hub.subs]]
          /\ UNCHANGED <<server, stream, raced>>
      BY <1>2, <2>2 DEF Publish
    <3> HIDE DEF e, over
    <3>3. [pc |-> "send", event |-> e, pending |-> hub.subs] \in RequestState
      BY <3>1 DEF RequestState
    <3>4. QED
      BY <3>1, <3>2, <3>3
  <2>3. QED
    BY <2>1, <2>2
<1>3. ASSUME NEW r \in Request, NEW s \in Stream, Send(r, s) PROVE HubTypeOK'
  <2>1. request' \in [Request -> RequestState]
    BY <1>3 DEF Send, Sent, RequestState
  <2>2. CASE UNCHANGED stream
    BY <1>3, <2>1, <2>2 DEF Send
  <2>3. CASE stream' = [stream EXCEPT ![s].chan = Append(@, request[r].event),
                                      ![s].log = Append(@, request[r].event)]
    <3>1. /\ Append(stream[s].chan, request[r].event) \in Seq(Nat)
          /\ Append(stream[s].log, request[r].event) \in Seq(Nat)
      BY DEF StreamState, RequestState
    <3> DEFINE with == [stream[s] EXCEPT !.chan = Append(@, request[r].event),
                                         !.log = Append(@, request[r].event)]
    <3>2. with \in StreamState /\ stream' = [stream EXCEPT ![s] = with]
      BY <2>3, <3>1 DEF StreamState
    <3> HIDE DEF with
    <3>3. stream' \in [Stream -> StreamState]
      BY <3>2
    <3>4. QED
      BY <1>3, <2>1, <3>3 DEF Send
  <2>4. QED
    BY <1>3, <2>2, <2>3 DEF Send
<1>4. ASSUME NEW s \in Stream, Connect(s) \/ KeepAlive(s) \/ Written(s) \/ ClientGone(s)
      PROVE  HubTypeOK'
  BY <1>a, <1>4 DEF Connect, KeepAlive, Written, ClientGone
<1>5. ASSUME NEW s \in Stream, Take(s) PROVE HubTypeOK'
  <2>1. stream[s].chan # <<>> => Tail(stream[s].chan) \in Seq(Nat)
    BY DEF StreamState
  <2>2. ASSUME NEW rest \in Seq(Nat),
               stream' = [stream EXCEPT ![s].chan = rest, ![s].pc = "write"]
        PROVE  stream' \in [Stream -> StreamState]
    <3>1. [stream[s] EXCEPT !.chan = rest, !.pc = "write"] \in StreamState
      BY DEF StreamState
    <3>2. stream' = [stream EXCEPT ![s] = [stream[s] EXCEPT !.chan = rest, !.pc = "write"]]
      BY <2>2 DEF StreamState
    <3>3. QED
      BY <3>1, <3>2
  <2>3. QED
    BY <1>a, <1>5, <2>1, <2>2 DEF Take
<1>6. ASSUME NEW s \in Stream, Subscribe(s) PROVE HubTypeOK'
  <2>1. ASSUME NEW n \in Nat, NEW b \in BOOLEAN,
               stream' = [stream EXCEPT ![s].pc = "write", ![s].since = n, ![s].late = b]
        PROVE  stream' \in [Stream -> StreamState]
    <3>1. [stream[s] EXCEPT !.pc = "write", !.since = n, !.late = b] \in StreamState
      BY DEF StreamState
    <3>2. stream' = [stream EXCEPT ![s] =
                       [stream[s] EXCEPT !.pc = "write", !.since = n, !.late = b]]
      BY <2>1 DEF StreamState
    <3>3. QED
      BY <3>1, <3>2
  <2>2. stream' \in [Stream -> StreamState]
    BY <1>6, <2>1 DEF Subscribe
  <2>3. hub' \in [closed : BOOLEAN, seq : Nat, subs : SUBSET Stream]
    BY <1>6 DEF Subscribe
  <2>4. QED
    BY <1>6, <2>2, <2>3 DEF Subscribe
<1>7. ASSUME NEW s \in Stream, Unsubscribe(s) PROVE HubTypeOK'
  <2>1. ASSUME NEW b \in BOOLEAN,
               stream' = [stream EXCEPT ![s].pc = "done", ![s].shut = b]
        PROVE  stream' \in [Stream -> StreamState]
    <3>1. [stream[s] EXCEPT !.pc = "done", !.shut = b] \in StreamState
      BY DEF StreamState
    <3>2. stream' = [stream EXCEPT ![s] = [stream[s] EXCEPT !.pc = "done", !.shut = b]]
      BY <2>1 DEF StreamState
    <3>3. QED
      BY <3>1, <3>2
  <2>2. stream' \in [Stream -> StreamState]
    <3>1. (stream[s].shut \/ s \in hub.subs) \in BOOLEAN
      OBVIOUS
    <3>2. QED
      BY <1>7, <2>1, <3>1 DEF Unsubscribe
  <2>3. hub' \in [closed : BOOLEAN, seq : Nat, subs : SUBSET Stream]
    BY <1>7 DEF Unsubscribe
  <2>4. QED
    BY <1>7, <2>2, <2>3 DEF Unsubscribe, RacedWith
<1>8. CASE Close
  <2>1. \A s \in Stream :
          [stream[s] EXCEPT !.shut = stream[s].shut \/ s \in hub.subs] \in StreamState
    BY DEF StreamState
  <2>2. stream' \in [Stream -> StreamState]
    BY <1>8, <2>1 DEF Close
  <2>3. hub' \in [closed : BOOLEAN, seq : Nat, subs : SUBSET Stream]
    BY <1>8 DEF Close
  <2>4. raced' \subseteq Request
    BY <1>8 DEF Close, RacedWith
  <2>5. QED
    BY <1>8, <2>2, <2>3, <2>4 DEF Close
<1>9. CASE Signal \/ Shutdown \/ Drained \/ Overdue \/ UNCHANGED hubVars
  BY <1>9 DEF Signal, Shutdown, Drained, Overdue, hubVars
<1>10. QED
  BY <1>1, <1>2, <1>3, <1>4, <1>5, <1>6, <1>7, <1>8, <1>9 DEF HubNext, Handle

LEMMA NumberingSteps ==
  ASSUME HubTypeOK, [HubNext]_hubVars
  PROVE  Numberless \/ \E r \in Request : Publishes(r)
<1> USE DEF HubTypeOK
<1>1. ASSUME NEW r \in Request, NEW s \in Stream, Delivers(r, s) PROVE Numberless
  BY <1>1 DEF Delivers, Sent, Numberless, RequestState
<1>2. ASSUME NEW s \in Stream, Goes(s) \/ Subscribe(s) \/ Unsubscribe(s) PROVE Numberless
  BY <1>2 DEF Goes, Subscribe, Unsubscribe, Numberless
<1>3. CASE Close
  BY <1>3 DEF Close, Numberless
<1>4. QED
  BY <1>1, <1>2, <1>3, HubSteps

-----------------------------------------------------------------------------
(* Numbers *)

\* No more events than requests, so that every number is one of an event.
LEMMA NumbersSuffice ==
  ASSUME HubTypeOK, Numbering
  PROVE  /\ Cardinality(Request) \in Nat /\ IsFiniteSet(Numbered)
         /\ 1 .. hub.seq \subseteq Event
         /\ \A r \in Request : request[r].event = 0 => hub.seq + 1 \in Event
<1>1. IsFiniteSet(Request) /\ Cardinality(Request) \in Nat
  BY RequestAssumption, FS_CardinalityType
<1>2. Numbered \subseteq Request
  BY DEF Numbered
<1>3. IsFiniteSet(Numbered) /\ Cardinality(Numbered) <= Cardinality(Request)
  BY <1>1, <1>2, FS_Subset
<1>4. ASSUME NEW r \in Request, request[r].event = 0 PROVE hub.seq + 1 <= Cardinality(Request)
  <2>1. r \notin Numbered
    BY <1>4 DEF Numbered
  <2>2. Cardinality(Numbered) # Cardinality(Request)
    BY <1>1, <1>2, <2>1, FS_Subset
  <2>3. QED
    BY <1>1, <1>3, <2>2 DEF Numbering, HubTypeOK
<1>5. QED
  BY <1>1, <1>3, <1>4 DEF Event, Numbering, HubTypeOK

LEMMA NextNumbering ==
  ASSUME HubTypeOK, Numbering, [HubNext]_hubVars
  PROVE  Numbering'
<1> USE DEF HubTypeOK
<1>1. CASE Numberless
  <2>1. Numbered' = Numbered
    BY <1>1 DEF Numbered, Numberless
  <2>2. QED
    BY <1>1, <2>1 DEF Numbering, Numberless, Numbered
<1>2. ASSUME NEW r \in Request, Publishes(r) PROVE Numbering'
  <2> DEFINE e == hub.seq + 1
  <2>1. e \in Nat /\ e # 0 /\ hub.seq \in Nat /\ request[r].event = 0
    BY <1>2 DEF Publishes, Numbering
  <2>2. hub'.seq = e /\ request'[r].pc = "send" /\ request'[r].event = e
        /\ \A q \in Request \ {r} : request'[q] = request[q]
    BY <1>2 DEF Publishes
  <2>3. Numbered' = Numbered \cup {r} /\ r \notin Numbered
    BY <2>1, <2>2 DEF Numbered
  <2>4. Cardinality(Numbered') = e
    <3>1. IsFiniteSet(Numbered)
      BY NumbersSuffice
    <3>2. Cardinality(Numbered \cup {r}) = Cardinality(Numbered) + 1
      BY <2>3, <3>1, FS_AddElement
    <3>3. QED
      BY <2>1, <2>3, <3>2 DEF Numbering
  <2>5. \A q \in Request : request'[q].event <= e
    BY <2>1, <2>2 DEF Numbering, RequestState
  <2>6. ASSUME NEW q \in Numbered', NEW p \in Numbered', request'[q].event = request'[p].event
        PROVE  q = p
    <3>1. \A o \in Numbered : o # r /\ o \in Request /\ request'[o].event <= hub.seq
      BY <2>2, <2>3 DEF Numbering, Numbered
    <3>2. \A o \in Numbered : request'[o].event # e
      BY <2>1, <2>2, <3>1 DEF RequestState
    <3>3. QED
      BY <2>2, <2>3, <2>6, <3>1, <3>2 DEF Numbering
  <2>7. ASSUME NEW d \in Event PROVE published'[d] \subseteq 1 .. e
    <3>1. 1 .. hub.seq \subseteq 1 .. e
      BY <2>1
    <3>2. published'[d] \subseteq 1 .. hub.seq
      BY <1>2 DEF Publishes, Numbering
    <3>3. QED
      BY <3>1, <3>2
  <2>8. \A q \in Request : /\ request'[q].pc \in {"new", "publish"} => request'[q].event = 0
                           /\ request'[q].pc = "send" => request'[q].event # 0
    BY <2>1, <2>2 DEF Numbering
  <2>9. QED
    BY <2>2, <2>4, <2>5, <2>6, <2>7, <2>8 DEF Numbering
<1>3. QED
  BY <1>1, <1>2, NumberingSteps

-----------------------------------------------------------------------------
(* Subscribers *)

LEMMA NextClosing ==
  ASSUME HubTypeOK, Closing, [HubNext]_hubVars
  PROVE  Closing'
<1> USE DEF HubTypeOK, Closing
<1>1. ASSUME NEW r \in Request, SendEvent(r) \/ Publish(r) \/ Answer(r) PROVE Closing'
  BY <1>1 DEF SendEvent, Publish, Answer
<1>2. ASSUME NEW r \in Request, NEW s \in Stream, Send(r, s) PROVE Closing'
  BY <1>2 DEF Send
<1>3. ASSUME NEW s \in Stream, Connect(s) \/ Take(s) \/ KeepAlive(s) \/ Written(s) \/ ClientGone(s)
      PROVE  Closing'
  BY <1>3 DEF Connect, Take, KeepAlive, Written, ClientGone
<1>4. ASSUME NEW s \in Stream, Subscribe(s) PROVE Closing'
  BY <1>4 DEF Subscribe
<1>5. ASSUME NEW s \in Stream, Unsubscribe(s) PROVE Closing'
  BY <1>5 DEF Unsubscribe
<1>6. CASE Close
  BY <1>6 DEF Close
<1>7. CASE Signal \/ Shutdown \/ Drained \/ Overdue \/ UNCHANGED hubVars
  BY <1>7 DEF Signal, Shutdown, Drained, Overdue, hubVars
<1>8. QED
  BY <1>1, <1>2, <1>3, <1>4, <1>5, <1>6, <1>7 DEF HubNext, Handle

\* The log of a stream that is sent an event.
LEMMA Longer ==
  ASSUME NEW log \in Seq(Nat), NEW e \in Nat
  PROVE  /\ DOMAIN log = 1 .. Len(log) /\ Len(log) \in Nat
         /\ DOMAIN Append(log, e) = 1 .. Len(log) + 1
         /\ Append(log, e)[Len(log) + 1] = e
         /\ \A i \in DOMAIN log : Append(log, e)[i] = log[i] /\ i \in DOMAIN Append(log, e)
         /\ \A i \in DOMAIN Append(log, e) : i \in DOMAIN log \/ i = Len(log) + 1
  OBVIOUS

LEMMA NextRegistered ==
  ASSUME HubTypeOK, HubTypeOK', Numbering, Closing, [HubNext]_hubVars,
         NEW s \in Stream, Registered(s), \A r \in Request : Sending(r)
  PROVE  Registered(s)'
<1> USE DEF HubTypeOK
<1> DEFINE log == stream[s].log
<1>0. hub.seq \in Nat /\ \A i \in DOMAIN log : log[i] \in 1 .. hub.seq
  BY DEF Registered
<1>1. CASE stream'[s] = stream[s] /\ hub'.seq = hub.seq /\ (s \in hub'.subs <=> s \in hub.subs)
  BY <1>1 DEF Registered
<1>2. ASSUME NEW r \in Request, Publishes(r) PROVE Registered(s)'
  <2>1. stream' = stream /\ hub'.seq = hub.seq + 1 /\ hub'.subs = hub.subs
    BY <1>2 DEF Publishes
  <2>2. 1 .. hub.seq \subseteq 1 .. hub.seq + 1
    BY <1>0
  <2>3. stream[s].since <= hub.seq + 1
    BY <1>0 DEF Registered, StreamState
  <2>4. QED
    BY <1>0, <2>1, <2>2, <2>3 DEF Registered
<1>3. ASSUME NEW r \in Request, Delivers(r, s) PROVE Registered(s)'
  <2> DEFINE e == request[r].event
  <2>1. e \in 1 .. hub.seq /\ e \in Nat /\ log \in Seq(Nat)
    BY <1>3 DEF Delivers, Numbering, RequestState, StreamState
  <2>2. \A i \in DOMAIN Append(log, e) : Append(log, e)[i] \in 1 .. hub.seq
    BY <1>0, <2>1, Longer
  <2>3. stream[s].pc \notin {"new", "subscribe"}
    BY <1>3 DEF Delivers, Sending
  <2>4. /\ stream'[s].log = Append(log, e) /\ stream'[s].pc = stream[s].pc
        /\ stream'[s].shut = stream[s].shut /\ stream'[s].since = stream[s].since
        /\ stream'[s].late = stream[s].late /\ hub' = hub
    BY <1>3 DEF Delivers
  <2>5. QED
    BY <2>2, <2>3, <2>4 DEF Registered
<1>4. CASE Goes(s)
  BY <1>4 DEF Goes, Registered
<1>5. CASE Subscribe(s)
  <2>1. /\ stream'[s].pc = "write" /\ stream'[s].shut = stream[s].shut /\ stream'[s].log = <<>>
        /\ stream'[s].since = hub.seq /\ stream'[s].late = hub.closed
    BY <1>5 DEF Subscribe, Registered, StreamState
  <2>2. hub'.seq = hub.seq /\ hub'.subs = IF hub.closed THEN hub.subs ELSE hub.subs \cup {s}
    BY <1>5 DEF Subscribe
  <2>3. ~stream[s].shut /\ s \notin hub.subs
    BY <1>5 DEF Subscribe, Registered
  <2>4. QED
    BY <1>0, <2>1, <2>2, <2>3 DEF Registered
<1>6. CASE Unsubscribe(s)
  <2>1. stream'[s].pc = "done" /\ stream'[s].log = log /\ stream'[s].since = stream[s].since
    BY <1>6 DEF Unsubscribe, StreamState
  <2>2. hub'.seq = hub.seq /\ s \notin hub'.subs
    BY <1>6 DEF Unsubscribe
  <2>3. QED
    BY <2>1, <2>2 DEF Registered
<1>7. ASSUME NEW t \in Stream \ {s}, Goes(t) \/ Subscribe(t) \/ Unsubscribe(t) PROVE Registered(s)'
  BY <1>1, <1>7 DEF Goes, Subscribe, Unsubscribe
<1>8. ASSUME NEW r \in Request, NEW t \in Stream \ {s}, Delivers(r, t) PROVE Registered(s)'
  BY <1>1, <1>8 DEF Delivers
<1>9. CASE Close
  <2>1. /\ stream'[s].pc = stream[s].pc /\ stream'[s].log = log
        /\ stream'[s].since = stream[s].since /\ stream'[s].late = stream[s].late
        /\ stream'[s].shut = (stream[s].shut \/ s \in hub.subs)
    BY <1>9 DEF Close, StreamState
  <2>2. hub'.seq = hub.seq /\ hub'.subs = {}
    BY <1>9 DEF Close
  <2>3. QED
    BY <2>1, <2>2 DEF Registered
<1>10. QED
  BY <1>1, <1>2, <1>3, <1>4, <1>5, <1>6, <1>7, <1>8, <1>9, HubSteps

-----------------------------------------------------------------------------
(* Requests *)

\* A channel closed under a request that has still to send to it is noted.
LEMMA Raced ==
  ASSUME NEW gone, NEW r \in Request, NEW s \in gone, request[r].pc = "send",
         s \in request[r].pending
  PROVE  r \in RacedWith(gone)
  BY DEF RacedWith

LEMMA NextSending ==
  ASSUME HubTypeOK, HubTypeOK', Numbering, [HubNext]_hubVars, NEW r \in Request,
         \A q \in Request : Sending(q), \A s \in Stream : Registered(s)
  PROVE  Sending(r)'
<1> USE DEF HubTypeOK
<1> DEFINE e == request[r].event
<1>1. ASSUME UNCHANGED <<hub, stream, published, raced>>, Numberless PROVE Sending(r)'
  BY <1>1 DEF Sending, Numberless
<1>2. CASE Publishes(r)
  <2> DEFINE n == hub.seq + 1
  <2>1. /\ request'[r].pc = "send" /\ request'[r].event = n /\ request'[r].pending = hub.subs
        /\ stream' = stream /\ n \in Nat /\ hub.seq \in Nat
    BY <1>2 DEF Publishes
  <2>2. ASSUME NEW d \in Event PROVE n \notin published'[d]
    <3>1. published'[d] \subseteq 1 .. hub.seq
      BY <1>2 DEF Publishes, Numbering
    <3>2. QED
      BY <2>1, <3>1
  <2>3. ASSUME NEW s \in hub.subs
        PROVE  /\ stream[s].pc \notin {"new", "subscribe"} /\ n > stream[s].since /\ ~stream[s].shut
               /\ \A i \in DOMAIN stream[s].log : stream[s].log[i] # n
    <3>1. Registered(s) /\ stream[s] \in StreamState
      OBVIOUS
    <3>2. stream[s].since \in Nat
      BY <3>1 DEF StreamState
    <3>3. QED
      BY <2>1, <2>3, <3>1, <3>2 DEF Registered
  <2> HIDE DEF n
  <2>4. QED
    BY <2>1, <2>2, <2>3 DEF Sending
<1>3. ASSUME NEW q \in Request \ {r}, Publishes(q) PROVE Sending(r)'
  <2>1. request'[r] = request[r] /\ stream' = stream /\ raced' = raced
    BY <1>3 DEF Publishes
  <2>2. ASSUME request[r].pc = "send", NEW d \in Event PROVE e \notin published'[d]
    <3>1. ~Over(e)
      BY <2>2 DEF Over, Running
    <3>2. QED
      BY <1>3, <2>2, <3>1 DEF Publishes, Sending
  <2>3. QED
    BY <2>1, <2>2 DEF Sending
<1>4. ASSUME NEW s \in Stream, Delivers(r, s) PROVE Sending(r)'
  <2>1. /\ request'[r].event = e /\ request'[r].pending = request[r].pending \ {s}
        /\ request[r].pc = "send" /\ published' = published /\ raced' = raced
        /\ \A t \in Stream \ {s} : stream'[t] = stream[t]
    BY <1>4 DEF Delivers, Sent, RequestState
  <2>2. QED
    BY <2>1 DEF Sending, RequestState
<1>5. ASSUME NEW q \in Request \ {r}, NEW s \in Stream, Delivers(q, s) PROVE Sending(r)'
  <2> DEFINE d == request[q].event
             log == stream[s].log
  <2>1. /\ request'[r] = request[r] /\ published' = published /\ raced' = raced
        /\ \A t \in Stream \ {s} : stream'[t] = stream[t]
        /\ stream'[s].log = Append(log, d)
        /\ stream'[s].pc = stream[s].pc /\ stream'[s].shut = stream[s].shut
        /\ stream'[s].since = stream[s].since
    BY <1>5 DEF Delivers, Sent
  <2>2. ASSUME request[r].pc = "send" PROVE e # d
    <3>1. q \in Numbered /\ r \in Numbered
      BY <1>5, <2>2 DEF Delivers, Numbering, Numbered
    <3>2. QED
      BY <3>1 DEF Numbering
  <2>3. log \in Seq(Nat) /\ d \in Nat
    BY DEF StreamState, RequestState
  <2>4. ASSUME request[r].pc = "send", s \in request[r].pending,
               NEW i \in DOMAIN Append(log, d)
        PROVE  Append(log, d)[i] # e
    <3>1. \A k \in DOMAIN log : log[k] # e
      BY <2>4 DEF Sending
    <3>2. QED
      BY <2>2, <2>3, <2>4, <3>1, Longer
  <2>5. ASSUME request[r].pc = "send", NEW t \in request[r].pending
        PROVE  /\ stream'[t].pc \notin {"new", "subscribe"} /\ e > stream'[t].since
               /\ \A i \in DOMAIN stream'[t].log : stream'[t].log[i] # e
               /\ stream'[t].shut => r \in raced
    <3>1. CASE t = s
      BY <2>1, <2>4, <2>5, <3>1 DEF Sending
    <3>2. CASE t # s
      <4>1. t \in Stream
        BY <2>5 DEF RequestState
      <4>2. QED
        BY <2>1, <2>5, <3>2, <4>1 DEF Sending
    <3>3. QED
      BY <3>1, <3>2
  <2>6. QED
    BY <2>1, <2>5 DEF Sending
<1>6. ASSUME request' = request, published' = published,
             request[r].pc = "send" => \A t \in request[r].pending :
               /\ stream'[t].pc \notin {"new", "subscribe"} /\ stream'[t].since = stream[t].since
               /\ stream'[t].log = stream[t].log
               /\ stream'[t].shut => r \in raced'
      PROVE  Sending(r)'
  BY <1>6 DEF Sending
<1>7. ASSUME NEW s \in Stream, Goes(s) PROVE Sending(r)'
  <2>1. \A t \in request[r].pending : t \in Stream
    BY DEF RequestState
  <2>2. QED
    BY <1>6, <1>7, <2>1 DEF Goes, Sending
<1>8. ASSUME NEW s \in Stream, Subscribe(s) PROVE Sending(r)'
  <2>1. request[r].pc = "send" => s \notin request[r].pending
    BY <1>8 DEF Subscribe, Sending
  <2>2. \A t \in Stream \ {s} : stream'[t] = stream[t]
    BY <1>8 DEF Subscribe
  <2>3. \A t \in request[r].pending : t \in Stream
    BY DEF RequestState
  <2>4. /\ request' = request /\ published' = published
        /\ request[r].pc = "send" => \A t \in request[r].pending :
             /\ stream'[t].pc \notin {"new", "subscribe"} /\ stream'[t].since = stream[t].since
             /\ stream'[t].log = stream[t].log
             /\ stream'[t].shut => r \in raced'
    BY <1>8, <2>1, <2>2, <2>3 DEF Subscribe, Sending
  <2>5. QED
    BY <1>6, <2>4
<1>9. ASSUME NEW s \in Stream, Unsubscribe(s) PROVE Sending(r)'
  <2>1. /\ stream'[s].pc = "done" /\ stream'[s].since = stream[s].since
        /\ stream'[s].log = stream[s].log /\ stream'[s].shut = (stream[s].shut \/ s \in hub.subs)
        /\ \A t \in Stream \ {s} : stream'[t] = stream[t]
    BY <1>9 DEF Unsubscribe, StreamState
  <2>2. raced \subseteq raced'
    BY <1>9 DEF Unsubscribe, RacedWith
  <2>3. ASSUME request[r].pc = "send", s \in request[r].pending, s \in hub.subs PROVE r \in raced'
    BY <1>9, <2>3, Raced DEF Unsubscribe
  <2>4. \A t \in request[r].pending : t \in Stream
    BY DEF RequestState
  <2>5. /\ request' = request /\ published' = published
        /\ request[r].pc = "send" => \A t \in request[r].pending :
             /\ stream'[t].pc \notin {"new", "subscribe"} /\ stream'[t].since = stream[t].since
             /\ stream'[t].log = stream[t].log
             /\ stream'[t].shut => r \in raced'
    BY <1>9, <2>1, <2>2, <2>3, <2>4 DEF Unsubscribe, Sending
  <2>6. QED
    BY <1>6, <2>5
<1>10. CASE Close
  <2>1. \A t \in Stream :
          /\ stream'[t].pc = stream[t].pc /\ stream'[t].since = stream[t].since
          /\ stream'[t].log = stream[t].log
          /\ stream'[t].shut = (stream[t].shut \/ t \in hub.subs)
    BY <1>10 DEF Close, StreamState
  <2>2. raced' = RacedWith(hub.subs) /\ raced \subseteq raced'
    BY <1>10 DEF Close, RacedWith
  <2>3. ASSUME request[r].pc = "send", NEW t \in request[r].pending, t \in hub.subs
        PROVE  r \in raced'
    BY <2>2, <2>3, Raced
  <2>4. \A t \in request[r].pending : t \in Stream
    BY DEF RequestState
  <2>5. /\ request' = request /\ published' = published
        /\ request[r].pc = "send" => \A t \in request[r].pending :
             /\ stream'[t].pc \notin {"new", "subscribe"} /\ stream'[t].since = stream[t].since
             /\ stream'[t].log = stream[t].log
             /\ stream'[t].shut => r \in raced'
    BY <1>10, <2>1, <2>2, <2>3, <2>4 DEF Close, Sending
  <2>6. QED
    BY <1>6, <2>5
<1>11. QED
  BY <1>1, <1>2, <1>3, <1>4, <1>5, <1>7, <1>8, <1>9, <1>10, HubSteps

LEMMA NextFails ==
  ASSUME HubTypeOK, FailsOnlyByRace, [HubNext]_hubVars, \A r \in Request : Sending(r)
  PROVE  FailsOnlyByRace'
<1> SUFFICES ASSUME NEW r \in Request, request'[r].pc = "failed" PROVE r \in raced'
  BY DEF FailsOnlyByRace
<1> USE DEF HubTypeOK
<1>1. raced \subseteq raced'
  <2>1. CASE Close
    BY <2>1 DEF Close, RacedWith
  <2>2. ASSUME NEW s \in Stream, Unsubscribe(s) PROVE raced \subseteq raced'
    BY <2>2 DEF Unsubscribe, RacedWith
  <2>3. QED
    BY <2>1, <2>2, HubSteps DEF Publishes, Delivers, Goes, Subscribe
<1>2. CASE request[r].pc = "failed"
  BY <1>1, <1>2 DEF FailsOnlyByRace
<1>3. CASE request[r].pc # "failed"
  <2>1. ASSUME NEW q \in Request, NEW s \in Stream, Send(q, s) PROVE r \in raced'
    <3>1. q = r /\ stream[s].shut
      BY <1>3, <2>1 DEF Send, Sent, RequestState
    <3>2. QED
      BY <1>1, <2>1, <3>1 DEF Send, Sending
  <2>2. ASSUME NEW q \in Request, SendEvent(q) \/ Answer(q) PROVE FALSE
    BY <1>3, <2>2 DEF SendEvent, Answer, RequestState
  <2>3. ASSUME NEW q \in Request, Publish(q) PROVE FALSE
    BY <1>3, <2>3 DEF Publish, RequestState
  <2>4. CASE UNCHANGED request
    BY <1>3, <2>4
  <2>5. QED
    BY <2>1, <2>2, <2>3, <2>4
       DEF HubNext, hubVars, Handle, Connect, Subscribe, Take, KeepAlive, Written, ClientGone,
           Unsubscribe, Signal, Close, Shutdown, Drained, Overdue
<1>4. QED
  BY <1>2, <1>3

-----------------------------------------------------------------------------
(* Order, and the end *)

\* What InOrder says of one stream.
Ordered(s) ==
  LET log == stream[s].log
  IN  /\ IsInjective(log)
      /\ \A i \in DOMAIN log :
           /\ log[i] > stream[s].since
           /\ \A j \in 1 .. i - 1 : log[i] \notin published[log[j]]

LEMMA NextOrdered ==
  ASSUME HubTypeOK, HubTypeOK', Numbering, [HubNext]_hubVars, NEW s \in Stream, Ordered(s),
         \A r \in Request : Sending(r), \A t \in Stream : Registered(t)
  PROVE  Ordered(s)'
<1> USE DEF HubTypeOK
<1> DEFINE log == stream[s].log
<1>0. log \in Seq(Nat) /\ stream[s].since \in Nat
  BY DEF StreamState
<1>1. ASSUME stream'[s].log = log, stream'[s].since = stream[s].since, published' = published
      PROVE  Ordered(s)'
  BY <1>1 DEF Ordered
<1>2. ASSUME NEW r \in Request, Publishes(r) PROVE Ordered(s)'
  <2>1. stream' = stream
    BY <1>2 DEF Publishes
  <2>2. ASSUME NEW j \in DOMAIN log PROVE published'[log[j]] = published[log[j]]
    <3>1. log[j] \in 1 .. hub.seq /\ hub.seq \in Nat
      BY DEF Registered
    <3>2. log[j] \in Event /\ log[j] # hub.seq + 1
      BY <3>1, NumbersSuffice
    <3>3. QED
      BY <1>2, <3>2 DEF Publishes
  <2>3. \A i \in DOMAIN log : \A j \in 1 .. i - 1 : j \in DOMAIN log
    BY <1>0
  <2>4. QED
    BY <2>1, <2>2, <2>3 DEF Ordered
<1>3. ASSUME NEW r \in Request, Delivers(r, s) PROVE Ordered(s)'
  <2> DEFINE e == request[r].event
             longer == Append(log, e)
             n == Len(log)
  <2>1. /\ stream'[s].log = longer /\ stream'[s].since = stream[s].since /\ published' = published
        /\ e \in Nat
    BY <1>3 DEF Delivers, RequestState
  <2>2. /\ e > stream[s].since /\ \A i \in DOMAIN log : log[i] # e
        /\ \A d \in Event : e \notin published[d]
    BY <1>3 DEF Delivers, Sending
  <2>3. /\ DOMAIN log = 1 .. n /\ n \in Nat /\ DOMAIN longer = 1 .. n + 1
        /\ longer[n + 1] = e /\ \A i \in DOMAIN log : longer[i] = log[i] /\ i \in DOMAIN longer
    BY <1>0, <2>1, Longer
  <2>4. \A i \in DOMAIN longer : i \in DOMAIN log \/ i = n + 1
    BY <1>0, <2>1, Longer
  <2> HIDE DEF longer, n
  <2>5. IsInjective(longer)
    BY <2>2, <2>3, <2>4 DEF Ordered, IsInjective
  <2>6. ASSUME NEW i \in DOMAIN longer PROVE longer[i] > stream[s].since
    BY <2>2, <2>3, <2>4 DEF Ordered
  <2>7. ASSUME NEW i \in DOMAIN longer, NEW j \in 1 .. i - 1
        PROVE  longer[i] \notin published[longer[j]]
    <3>1. j \in DOMAIN log
      BY <2>3, <2>7
    <3>2. longer[j] = log[j] /\ log[j] \in Event
      BY <2>3, <3>1, NumbersSuffice DEF Registered
    <3>3. CASE i = n + 1
      BY <2>2, <2>3, <3>2, <3>3
    <3>4. CASE i \in DOMAIN log
      BY <2>3, <2>7, <3>2, <3>4 DEF Ordered
    <3>5. QED
      BY <2>4, <3>3, <3>4
  <2>8. QED
    BY <2>1, <2>5, <2>6, <2>7 DEF Ordered
<1>4. ASSUME NEW r \in Request, NEW t \in Stream \ {s}, Delivers(r, t) PROVE Ordered(s)'
  BY <1>1, <1>4 DEF Delivers
<1>5. CASE Subscribe(s)
  <2>1. stream'[s].log = <<>>
    BY <1>5 DEF Subscribe, Registered, StreamState
  <2>2. QED
    BY <2>1 DEF Ordered, IsInjective
<1>6. CASE Unsubscribe(s)
  <2>1. stream'[s].log = log /\ stream'[s].since = stream[s].since
    BY <1>6 DEF Unsubscribe, StreamState
  <2>2. QED
    BY <1>1, <1>6, <2>1 DEF Unsubscribe
<1>7. ASSUME NEW t \in Stream, Goes(t) \/ (t # s /\ (Subscribe(t) \/ Unsubscribe(t)))
      PROVE  Ordered(s)'
  BY <1>1, <1>7 DEF Goes, Subscribe, Unsubscribe
<1>8. CASE Close
  <2>1. stream'[s].log = log /\ stream'[s].since = stream[s].since
    BY <1>8 DEF Close, StreamState
  <2>2. QED
    BY <1>1, <1>8, <2>1 DEF Close
<1>9. QED
  BY <1>1, <1>2, <1>3, <1>4, <1>5, <1>6, <1>7, <1>8, HubSteps

LEMMA NextOverdue ==
  ASSUME HubTypeOK, Closing, OverdueOnlyIfStuck, [HubNext]_hubVars, \A s \in Stream : Registered(s)
  PROVE  OverdueOnlyIfStuck'
<1> USE DEF HubTypeOK
<1>1. CASE Overdue
  <2>1. stream' = stream /\ hub.subs = {}
    BY <1>1 DEF Overdue, Closing
  <2>2. PICK s \in Stream : Open(s) /\ Stuck(s)
    BY <1>1 DEF Overdue
  <2>3. stream[s].pc = "write" \/ stream[s].late
    BY <2>1, <2>2 DEF Stuck, Registered
  <2>4. QED
    BY <2>1, <2>2, <2>3 DEF OverdueOnlyIfStuck, Open
<1>2. CASE UNCHANGED hubVars
  BY <1>2 DEF hubVars, OverdueOnlyIfStuck, Open
<1>3. CASE server' # "overdue"
  BY <1>3 DEF OverdueOnlyIfStuck
<1>4. QED
  BY <1>1, <1>2, <1>3 DEF HubNext, Handle, SendEvent, Publish, Answer, Send, Connect, Subscribe, Take,
     KeepAlive, Written, ClientGone, Unsubscribe, Signal, Close, Shutdown, Drained

-----------------------------------------------------------------------------
(* The results *)

LEMMA HubInductive ==
  /\ HubInit => HubInv
  /\ HubInv /\ [HubNext]_hubVars => HubInv'
<1>1. HubInit => HubInv
  <2> SUFFICES ASSUME HubInit PROVE HubInv
    OBVIOUS
  <2>1. HubTypeOK
    BY DEF HubInit, HubTypeOK, StreamState, RequestState
  <2>2. Numbered = {} /\ Cardinality({}) = 0
    BY FS_EmptySet DEF HubInit, Numbered
  <2>3. Numbering
    BY <2>2 DEF HubInit, Numbering
  <2>4. (\A s \in Stream : Registered(s)) /\ (\A r \in Request : Sending(r)) /\ Closing
    BY DEF HubInit, Registered, Sending, Closing
  <2>5. StreamSound
    BY DEF HubInit, StreamSound, InOrder, FailsOnlyByRace, OverdueOnlyIfStuck, IsInjective
  <2>6. QED
    BY <2>1, <2>3, <2>4, <2>5 DEF HubInv
<1>2. InOrder <=> \A s \in Stream : Ordered(s)
  BY DEF InOrder, Ordered
<1>3. InOrder' <=> \A s \in Stream : Ordered(s)'
  BY DEF InOrder, Ordered
<1>4. HubInv /\ [HubNext]_hubVars => HubInv'
  <2> SUFFICES ASSUME HubInv, [HubNext]_hubVars PROVE HubInv'
    OBVIOUS
  <2>1. HubTypeOK' /\ Numbering' /\ Closing'
    BY HubNextTypeOK, NextNumbering, NextClosing DEF HubInv
  <2>2. (\A s \in Stream : Registered(s)') /\ (\A r \in Request : Sending(r)')
    BY <2>1, NextRegistered, NextSending DEF HubInv
  <2>3. InOrder'
    BY <1>2, <1>3, <2>1, NextOrdered DEF HubInv, StreamSound
  <2>4. FailsOnlyByRace' /\ OverdueOnlyIfStuck'
    BY NextFails, NextOverdue DEF HubInv, StreamSound
  <2>5. QED
    BY <2>1, <2>2, <2>3, <2>4 DEF HubInv, StreamSound
<1>5. QED
  BY <1>1, <1>4

\* Every state of the hub, its requests and its streams has its type.
THEOREM HubTypeCorrect == HubSpec => []HubTypeOK
<1>1. HubInv => HubTypeOK
  BY DEF HubInv
<1>2. QED
  BY <1>1, HubInductive, PTL DEF HubSpec

\* Viewers get each event once, none from before they came, and none out of the
\* order of their requests; a request fails only when its channel is closed under
\* it; and a stop overruns its grace only for a client that does not read or a
\* stream that came after close.
THEOREM StreamSoundCorrect == HubSpec => []StreamSound
<1>1. HubInv => StreamSound
  BY DEF HubInv
<1>2. QED
  BY <1>1, HubInductive, PTL DEF HubSpec

-----------------------------------------------------------------------------
(***************************************************************************)
(* MirrorPull: any finite set of rows, statements, page size, cut-off pulls*)
(***************************************************************************)

\* What the code leaves to whoever runs it: no statement is still open when a
\* page is read, and dkm pull is run in one terminal at a time.  The run
\* MirrorPullLate shows why the first is needed.
Alone == Serial /\ \A p, q \in Puller : p = q

-----------------------------------------------------------------------------
(* Types *)

Place == Nat \X Nat
AnyRow == [by : Write \cup {Absent}, stamp : Nat, kind : Kind]
Change == [id : MemoryId, row : AnyRow]
Mirror == [MemoryId -> Write \cup {Absent}]
PullPc == {"idle", "ask", "read", "write", "move"}
PullState ==
  [pc : PullPc, from : Place, page : SUBSET Change, next : Place, merged : Mirror \cup {<<>>}]

PullTypeOK ==
  /\ rows \in [MemoryId -> AnyRow] /\ open \subseteq Change
  /\ written \subseteq Write /\ clock \in Nat /\ pullTrouble \in Nat
  /\ mirror \in Mirror /\ cursor \in Place
  /\ pull \in [Puller -> PullState]
  /\ \A p \in Puller : pull[p].pc = "write" => pull[p].merged \in Mirror

\* A page has a row once.
PageOnce == \A p \in Puller : \A a, b \in pull[p].page : a.id = b.id => a = b

-----------------------------------------------------------------------------
(* The clock and the cursor *)

Stamped ==
  /\ \A m \in MemoryId : rows[m].stamp <= clock
  /\ \A s \in open : s.row.stamp <= clock

\* Whatever is committed from now on comes after c.
Behind(c) == c[1] < clock /\ \A s \in open : c[1] < s.row.stamp

HasPage(p) == pull[p].pc \in {"read", "write"}
HasNext(p) == pull[p].pc \in {"read", "write", "move"}

Passed ==
  /\ Behind(cursor)
  /\ \A p \in Puller : HasNext(p) => Behind(pull[p].next)
  /\ \A p \in Puller : pull[p].pc # "idle" => pull[p].from = cursor

\* A page in hand holds every row in sight between its two cursors, as the row
\* is now, and no row from before.
PageCovers ==
  \A p \in Puller : HasPage(p) =>
    /\ \A ch \in pull[p].page : After(Position(ch.id), pull[p].from)
    /\ \A m \in MemoryId :
         InSight(m) /\ After(Position(m), pull[p].from) /\ ~After(Position(m), pull[p].next)
           => [id |-> m, row |-> rows[m]] \in pull[p].page

MergedPage == \A p \in Puller : pull[p].pc = "write" => pull[p].merged = Merge(pull[p].page)

\* The mirror file has every row in sight up to c.
Covered(c) ==
  \A m \in MemoryId : InSight(m) /\ ~After(Position(m), c) => mirror[m] = Image(rows[m])

WrittenPage == \A p \in Puller : pull[p].pc = "move" => Covered(pull[p].next)

PullRest ==
  /\ PageOnce /\ Stamped /\ Passed
  /\ PageCovers /\ MergedPage /\ WrittenPage /\ CursorCovers

PullInv == PullTypeOK /\ PullRest

-----------------------------------------------------------------------------
(* The order of the cursor *)

\* After is a strict total order, read as ORDER BY updated_at, id.
LEMMA AfterOrder ==
  ASSUME NEW a \in Place, NEW b \in Place, NEW c \in Place
  PROVE  /\ ~After(a, a)
         /\ After(a, b) /\ After(b, c) => After(a, c)
         /\ After(a, c) /\ ~After(a, b) => After(b, c)
BY DEF After, Place

LEMMA PositionType == PullTypeOK => \A m \in MemoryId : Position(m) \in Place
BY IdAssumption DEF PullTypeOK, Position, Place, AnyRow

\* A page that is not empty has a last row.
LEMMA LastOfPage ==
  ASSUME PullTypeOK, NEW c, Page(c) # {}
  PROVE  \E m \in Page(c) : \A n \in Page(c) : ~After(Position(n), Position(m))
<1> DEFINE page == Page(c)
           Newer(m) == {n \in page : After(Position(n), Position(m))}
           Strict == StrictSubsetOrdering(MemoryId)
           All == {Newer(m) : m \in page}
<1>1. page \subseteq MemoryId
  BY DEF Page, Later
<1>2. IsWellFoundedOn(Strict, SUBSET MemoryId)
  BY IdAssumption, FS_FiniteSubsetsOfFinite, FS_StrictSubsetOrderingWellFounded
<1>3. All \subseteq SUBSET MemoryId /\ All # {}
  BY <1>1
<1>4. PICK least \in All : \A other \in All : <<other, least>> \notin Strict
  <2> HIDE DEF Strict, All
  <2> QED BY <1>2, <1>3, WFMin, Zenon
<1>5. PICK m \in page : least = Newer(m)
  OBVIOUS
<1>6. ASSUME NEW n \in page, After(Position(n), Position(m)) PROVE FALSE
  <2>1. \A k \in page : Position(k) \in Place
    BY <1>1, PositionType
  <2>2. Newer(n) \subseteq Newer(m)
    BY <2>1, <1>6, AfterOrder
  <2>3. n \in Newer(m) /\ n \notin Newer(n)
    BY <2>1, <1>6, AfterOrder
  <2>4. Newer(n) \in SUBSET MemoryId /\ Newer(m) \in SUBSET MemoryId
    BY <1>1
  <2>5. <<Newer(n), Newer(m)>> \in Strict
    <3> HIDE DEF Newer
    <3> QED BY <2>2, <2>3, <2>4 DEF StrictSubsetOrdering
  <2> QED BY <2>5, <1>4, <1>5
<1> QED BY <1>6

\* What comes before a row of the page is on the page.
LEMMA PageDown ==
  ASSUME PullTypeOK, NEW c, NEW n \in Page(c), NEW m \in Later(c),
         ~After(Position(m), Position(n))
  PROVE  m \in Page(c)
<1> DEFINE Older(k) == {o \in Later(c) : After(Position(k), Position(o))}
<1>1. Later(c) \subseteq MemoryId /\ n \in Later(c)
  BY DEF Later, Page
<1>2. \A k \in Later(c) : Position(k) \in Place
  BY <1>1, PositionType
<1>3. Older(m) \subseteq Older(n)
  BY <1>1, <1>2, AfterOrder
<1>4. IsFiniteSet(Older(n)) /\ Older(n) \subseteq MemoryId
  BY <1>1, IdAssumption, FS_Subset
<1>5. IsFiniteSet(Older(m)) /\ Cardinality(Older(m)) <= Cardinality(Older(n))
  BY <1>3, <1>4, FS_Subset
<1>6. Cardinality(Older(n)) < PageSize
  BY DEF Page
<1>7. Cardinality(Older(m)) < PageSize
  <2>1. Cardinality(Older(m)) \in Nat /\ Cardinality(Older(n)) \in Nat
    BY <1>4, <1>5, FS_CardinalityType
  <2> HIDE DEF Older
  <2> QED BY <2>1, <1>5, <1>6, ParameterAssumption
<1> QED BY <1>7 DEF Page

\* Merging a page gives a row on the page its image, and leaves the others.
LEMMA MergeFact ==
  ASSUME NEW page, \A a, b \in page : a.id = b.id => a = b
  PROVE  \A m \in MemoryId :
           /\ \A ch \in page : ch.id = m => Merge(page)[m] = Image(ch.row)
           /\ (\A ch \in page : ch.id # m) => Merge(page)[m] = mirror[m]
BY DEF Merge

LEMMA MergeType ==
  ASSUME PullTypeOK, NEW page \in SUBSET Change, \A a, b \in page : a.id = b.id => a = b
  PROVE  Merge(page) \in Mirror
<1>1. \A ch \in page : Image(ch.row) \in Write \cup {Absent}
  BY DEF Image, Change, AnyRow
<1>2. \A m \in MemoryId : Merge(page)[m] \in Write \cup {Absent}
  BY <1>1, MergeFact DEF PullTypeOK, Mirror
<1>3. Merge(page) = [m \in MemoryId |-> Merge(page)[m]]
  BY DEF Merge
<1> QED BY <1>2, <1>3 DEF Mirror

-----------------------------------------------------------------------------
(* Types are kept *)

LEMMA PullTypeInit == PullInit => PullTypeOK
BY ParameterAssumption
DEF PullInit, PullTypeOK, PullState, PullIdle, Pulling, Start, Place, AnyRow, NoWrite, Kind,
    Mirror, PullPc

\* What a pull holds between its steps.
LEMMA PullingState ==
  \A pc \in PullPc \ {"write"}, c \in Place :
    Pulling(pc, c) \in PullState /\ Pulling(pc, c).pc # "write"
BY DEF Pulling, PullState, PullPc, Start, Place

\* The outcomes of a request for a page: no page, or one with a last row.
OnPage(p) == {[id |-> m, row |-> rows[m]] : m \in Page(pull[p].from)}
Got(p, last) ==
  [pull[p] EXCEPT !.pc = "read", !.next = Position(last), !.page = OnPage(p)]

LEMMA GotState ==
  ASSUME PullTypeOK, NEW p \in Puller, NEW last \in Page(pull[p].from)
  PROVE  /\ Got(p, last) \in PullState
         /\ Got(p, last).pc = "read" /\ Got(p, last).from = pull[p].from
         /\ Got(p, last).next = Position(last) /\ Got(p, last).page = OnPage(p)
<1>1. Page(pull[p].from) \subseteq MemoryId
  BY DEF Page, Later
<1>2. Position(last) \in Place /\ OnPage(p) \in SUBSET Change
  BY <1>1, PositionType DEF Change, OnPage, PullTypeOK
<1>3. pull[p] \in PullState
  BY DEF PullTypeOK
<1> QED BY <1>2, <1>3 DEF Got, PullState, PullPc

LEMMA AskClock ==
  ASSUME PullTypeOK, NEW p \in Puller, PullAsk(p)
  PROVE  /\ Serial => open = {}
         /\ UNCHANGED <<rows, open, written, mirror, cursor, pullTrouble>>
         /\ pull[p].pc = "ask" /\ clock' \in Nat /\ clock <= clock'
         /\ \A m \in MemoryId : rows[m].stamp <= clock => rows[m].stamp < clock'
<1>1. /\ pull[p].pc = "ask" /\ (Serial => open = {})
      /\ UNCHANGED <<rows, open, written, mirror, cursor, pullTrouble>>
      /\ clock' = IF \E m \in MemoryId : rows[m].stamp = clock THEN clock + 1 ELSE clock
  BY Zenon DEF PullAsk
<1>2. clock \in Nat /\ \A m \in MemoryId : rows[m].stamp \in Nat
  BY DEF PullTypeOK, AnyRow
<1> QED BY <1>1, <1>2

LEMMA AskNothing ==
  ASSUME NEW p \in Puller, PullAsk(p), Page(pull[p].from) = {}
  PROVE  pull' = [pull EXCEPT ![p] = PullIdle]
BY Zenon DEF PullAsk, PullGoto

LEMMA AskSomething ==
  ASSUME PullTypeOK, NEW p \in Puller, PullAsk(p), Page(pull[p].from) # {}
  PROVE  \E last \in Page(pull[p].from) :
           /\ pull' = [pull EXCEPT ![p] = Got(p, last)]
           /\ \A n \in Page(pull[p].from) : ~After(Position(n), Position(last))
<1> DEFINE page == Page(pull[p].from)
           last == CHOOSE m \in page : \A n \in page : ~After(Position(n), Position(m))
<1>1. last \in page /\ \A n \in page : ~After(Position(n), Position(last))
  BY LastOfPage
<1>2. pull' = [pull EXCEPT ![p].pc = "read", ![p].next = Position(last), ![p].page = OnPage(p)]
  BY Zenon DEF PullAsk, OnPage
<1> HIDE DEF last, page
<1>3. pull' = [pull EXCEPT ![p] = Got(p, last)]
  <2>1. pull \in [Puller -> PullState]
    BY DEF PullTypeOK
  <2> QED BY <1>2, <2>1 DEF PullState, Got
<1> QED BY <1>1, <1>3 DEF page

LEMMA PullTypeStep ==
  ASSUME PullTypeOK, PageOnce, MergedPage, [PullNext]_pullVars
  PROVE  PullTypeOK'
<1> USE DEF PullTypeOK
<1>1. CASE \E w \in Write, m \in MemoryId, kind \in Kind : Begin(w, m, kind)
  BY <1>1 DEF Begin, Change, AnyRow
<1>2. CASE \E s \in open : Commit(s)
  BY <1>2 DEF Commit, Change
<1>a. Start \in Place
  BY DEF Start, Place
<1>3. CASE \E p \in Puller : PullStart(p) \/ PullFails(p)
  BY <1>3, <1>a, PullingState DEF PullStart, PullFails, PullGoto, PullIdle, PullPc
<1>4. ASSUME NEW p \in Puller, PullAsk(p) PROVE PullTypeOK'
  <2>1. clock' \in Nat /\ UNCHANGED <<rows, open, written, mirror, cursor, pullTrouble>>
    BY <1>4, AskClock
  <2>2. CASE Page(pull[p].from) = {}
    BY <1>4, <1>a, <2>1, <2>2, PullingState, AskNothing DEF PullIdle, PullPc
  <2>3. CASE Page(pull[p].from) # {}
    <3>1. PICK last \in Page(pull[p].from) : pull' = [pull EXCEPT ![p] = Got(p, last)]
      BY <1>4, <2>3, AskSomething
    <3>2. Got(p, last) \in PullState /\ Got(p, last).pc = "read"
      BY GotState
    <3> QED BY <2>1, <3>1, <3>2
  <2> QED BY <2>2, <2>3
<1>5. ASSUME NEW p \in Puller, ApplyRead(p) PROVE PullTypeOK'
  <2> DEFINE got == [pull[p] EXCEPT !.pc = "write", !.merged = Merge(pull[p].page)]
  <2>1. Merge(pull[p].page) \in Mirror
    BY MergeType DEF PageOnce, PullState
  <2>2. /\ pull' = [pull EXCEPT ![p] = got]
        /\ UNCHANGED <<rows, open, written, clock, mirror, cursor, pullTrouble>>
    BY <1>5 DEF ApplyRead, PullState
  <2>3. got \in PullState /\ got.merged \in Mirror
    BY <2>1 DEF PullState, PullPc
  <2> HIDE DEF got
  <2> QED BY <2>2, <2>3
<1>6. ASSUME NEW p \in Puller, ApplyWrite(p) PROVE PullTypeOK'
  <2> DEFINE got == [pull[p] EXCEPT !.pc = "move", !.merged = <<>>]
  <2>1. /\ pull' = [pull EXCEPT ![p] = got] /\ mirror' = pull[p].merged
        /\ UNCHANGED <<rows, open, written, clock, cursor, pullTrouble>>
    BY <1>6 DEF ApplyWrite, PullState
  <2>2. got \in PullState /\ got.pc = "move"
    BY DEF PullState, PullPc
  <2>3. pull[p].merged \in Mirror
    BY <1>6 DEF ApplyWrite
  <2> HIDE DEF got
  <2> QED BY <2>1, <2>2, <2>3
<1>7. ASSUME NEW p \in Puller, SetCursor(p) PROVE PullTypeOK'
  <2>1. pull[p].next \in Place
    BY DEF PullState
  <2> QED BY <1>7, <1>a, <2>1, PullingState DEF SetCursor, PullGoto, PullIdle, PullPc
<1>8. CASE UNCHANGED pullVars
  BY <1>8 DEF pullVars
<1> QED BY <1>1, <1>2, <1>3, <1>4, <1>5, <1>6, <1>7, <1>8 DEF PullNext, PullStep

-----------------------------------------------------------------------------
(* The server's steps: a row moves only past every cursor *)

LEMMA BeginKeeps ==
  ASSUME Alone, PullInv, NEW w \in Write, NEW m \in MemoryId, NEW kind \in Kind, Begin(w, m, kind)
  PROVE  PullRest'
<1> USE DEF PullRest
<1> USE DEF PullInv
<1>1. /\ open = {} /\ UNCHANGED <<rows, mirror, cursor, pull>>
      /\ clock' \in {clock, clock + 1}
      /\ open' = {[id |-> m, row |-> [by |-> w, stamp |-> clock', kind |-> kind]]}
  BY DEF Begin, Alone
<1>2. clock \in Nat /\ \A k \in MemoryId : rows[k].stamp \in Nat
  BY DEF PullTypeOK, AnyRow
<1>3. clock <= clock' /\ clock' \in Nat
  BY <1>1, <1>2
<1>4. ASSUME NEW c \in Place, Behind(c) PROVE Behind(c)'
  BY <1>1, <1>2, <1>3, <1>4 DEF Behind, Place
<1>5. cursor \in Place /\ \A p \in Puller : pull[p].next \in Place
  BY DEF PullTypeOK, PullState
<1>6. Passed'
  <2>1. \A c \in Place :
          Behind(c) => c[1] < clock' /\ \A t \in open' : c[1] < t.row.stamp
    BY <1>4 DEF Behind
  <2> QED BY <1>1, <1>5, <2>1 DEF Passed, HasNext, Behind
<1>7. Stamped'
  BY <1>1, <1>2, <1>3 DEF Stamped
<1>8. PageOnce' /\ PageCovers' /\ MergedPage' /\ WrittenPage' /\ CursorCovers'
  BY <1>1 DEF PageOnce, PageCovers, MergedPage, WrittenPage, CursorCovers, Covered, HasPage,
              InSight, Position, Merge
<1> QED BY <1>6, <1>7, <1>8

LEMMA CommitKeeps ==
  ASSUME PullInv, NEW s \in open, Commit(s)
  PROVE  PullRest'
<1> USE DEF PullRest
<1> USE DEF PullInv
<1>1. UNCHANGED <<clock, mirror, cursor, pull>> /\ open' = open \ {s}
  BY DEF Commit
<1>2. /\ s \in Change /\ clock \in Nat /\ cursor \in Place
      /\ \A p \in Puller : pull[p].next \in Place /\ pull[p].from \in Place
      /\ \A m \in MemoryId : rows[m] \in AnyRow
  BY DEF PullTypeOK, PullState
<1>3. \A m \in MemoryId : rows'[m] = rows[m] \/ (m = s.id /\ rows'[m] = s.row)
  BY <1>2 DEF Commit, PullTypeOK
<1>4. ASSUME NEW c \in Place, Behind(c), NEW m \in MemoryId
      PROVE  rows'[m] = rows[m] \/ After(Position(m), c)'
  BY <1>2, <1>3, <1>4 DEF Behind, After, Position, Place, Change, AnyRow
<1>5. ASSUME NEW c \in Place, Behind(c) PROVE Behind(c)'
  BY <1>1, <1>5 DEF Behind
<1>6. Stamped'
  BY <1>1, <1>2, <1>3 DEF Stamped
<1>7. Passed'
  <2>1. \A c \in Place :
          Behind(c) => c[1] < clock' /\ \A t \in open' : c[1] < t.row.stamp
    BY <1>5 DEF Behind
  <2> QED BY <1>1, <1>2, <2>1 DEF Passed, HasNext, Behind
<1>8. PageOnce' /\ MergedPage'
  BY <1>1 DEF PageOnce, MergedPage, Merge
<1>9. ASSUME NEW c \in Place, Behind(c), Covered(c) PROVE Covered(c)'
  BY <1>1, <1>4, <1>9 DEF Covered, InSight, Position
<1>10. CursorCovers'
  BY <1>1, <1>2, <1>9 DEF CursorCovers, Covered, Passed
<1>11. WrittenPage'
  <2>1. ASSUME NEW p \in Puller, pull'[p].pc = "move" PROVE Covered(pull[p].next)'
    <3>1. pull[p].next \in Place /\ Behind(pull[p].next) /\ Covered(pull[p].next)
      BY <1>1, <1>2, <2>1 DEF WrittenPage, Passed, HasNext
    <3> QED BY <1>1, <1>9, <3>1 DEF Covered
  <2> QED BY <2>1 DEF WrittenPage
<1>12. PageCovers'
  <2>1. SUFFICES ASSUME NEW p \in Puller, HasPage(p)
                 PROVE  /\ \A ch \in pull[p].page : After(Position(ch.id), pull[p].from)'
                        /\ \A m \in MemoryId :
                             (InSight(m) /\ After(Position(m), pull[p].from)
                                /\ ~After(Position(m), pull[p].next))'
                               => [id |-> m, row |-> rows'[m]] \in pull[p].page
    BY <1>1 DEF PageCovers, HasPage
  <2>2. pull[p].from = cursor /\ Behind(pull[p].from) /\ Behind(pull[p].next)
    BY <2>1 DEF Passed, HasPage, HasNext
  <2>3. ASSUME NEW ch \in pull[p].page PROVE After(Position(ch.id), pull[p].from)'
    <3>1. ch.id \in MemoryId /\ After(Position(ch.id), pull[p].from)
      BY <2>1 DEF PageCovers, PullTypeOK, PullState, Change
    <3> QED BY <1>1, <1>2, <1>4, <2>2, <3>1 DEF Position, After
  <2>4. ASSUME NEW m \in MemoryId,
               (InSight(m) /\ After(Position(m), pull[p].from)
                  /\ ~After(Position(m), pull[p].next))'
        PROVE  [id |-> m, row |-> rows'[m]] \in pull[p].page
    <3>1. rows'[m] = rows[m]
      BY <1>1, <1>2, <1>4, <2>2, <2>4 DEF After
    <3> QED BY <1>1, <2>1, <2>4, <3>1 DEF PageCovers, InSight, Position, After
  <2> QED BY <2>3, <2>4
<1> QED BY <1>6, <1>7, <1>8, <1>10, <1>11, <1>12

-----------------------------------------------------------------------------
(* The pull's own steps *)

\* A pull that is idle or asks has nothing in hand.
LEMMA NothingInHand ==
  ASSUME Alone, PullInv, NEW p \in Puller,
         \/ pull' = [pull EXCEPT ![p] = PullIdle]
         \/ pull' = [pull EXCEPT ![p] = Pulling("ask", cursor')],
         UNCHANGED <<rows, open, mirror>>, Stamped', Behind(cursor)', Covered(cursor)'
  PROVE  PullRest'
<1> USE DEF PullRest
<1>1. /\ pull'[p].pc \in {"idle", "ask"} /\ pull'[p].page = {}
      /\ pull'[p].pc = "ask" => pull'[p].from = cursor'
  BY DEF PullInv, PullTypeOK, PullIdle, Pulling
<1>2. \A q \in Puller : q = p
  BY DEF Alone
<1>3. PageOnce' /\ PageCovers' /\ MergedPage' /\ WrittenPage'
  BY <1>1, <1>2 DEF PageOnce, PageCovers, MergedPage, WrittenPage, HasPage
<1>4. Passed'
  BY <1>1, <1>2 DEF Passed, HasNext
<1>5. CursorCovers'
  BY DEF CursorCovers, Covered
<1> QED BY <1>3, <1>4, <1>5

LEMMA StartKeeps ==
  ASSUME Alone, PullInv, NEW p \in Puller, PullStart(p) \/ PullFails(p)
  PROVE  PullRest'
<1> USE DEF PullRest
<1>1. UNCHANGED <<rows, open, clock, mirror, cursor>>
  BY DEF PullStart, PullFails
<1>2. \/ pull' = [pull EXCEPT ![p] = PullIdle]
      \/ pull' = [pull EXCEPT ![p] = Pulling("ask", cursor')]
  BY <1>1 DEF PullStart, PullFails, PullGoto
<1>3. Stamped' /\ Behind(cursor)' /\ Covered(cursor)'
  BY <1>1 DEF PullInv, Stamped, Passed, Behind, CursorCovers, Covered, InSight, Position
<1> QED BY <1>1, <1>2, <1>3, NothingInHand

LEMMA AskKeeps ==
  ASSUME Alone, PullInv, NEW p \in Puller, PullAsk(p)
  PROVE  PullRest'
<1> USE DEF PullRest
<1> USE DEF PullInv
<1>1. /\ open = {} /\ UNCHANGED <<rows, open, mirror, cursor>>
      /\ pull[p].pc = "ask" /\ clock' \in Nat /\ clock <= clock'
      /\ \A m \in MemoryId : rows[m].stamp < clock'
  BY AskClock DEF Alone, Stamped
<1>2. clock \in Nat /\ cursor \in Place /\ \A m \in MemoryId : rows[m].stamp \in Nat
  BY DEF PullTypeOK, AnyRow
<1>3. Stamped' /\ Behind(cursor)' /\ Covered(cursor)'
  <2>1. Stamped'
    BY <1>1, <1>2 DEF Stamped
  <2>2. Behind(cursor)'
    BY <1>1, <1>2 DEF Passed, Behind, Place
  <2>3. Covered(cursor)'
    BY <1>1 DEF CursorCovers, Covered, InSight, Position
  <2> QED BY <2>1, <2>2, <2>3
<1>4. CASE Page(pull[p].from) = {}
  BY <1>1, <1>3, <1>4, AskNothing, NothingInHand
<1>5. CASE Page(pull[p].from) # {}
  <2> DEFINE page == Page(pull[p].from)
  <2>1. PICK last \in page :
          /\ pull' = [pull EXCEPT ![p] = Got(p, last)]
          /\ \A n \in page : ~After(Position(n), Position(last))
    BY <1>5, AskSomething
  <2>2. /\ pull'[p].pc = "read" /\ pull'[p].from = cursor
        /\ pull'[p].next = Position(last) /\ pull'[p].page = OnPage(p)
    BY <1>1, <2>1, GotState DEF PullTypeOK, Passed
  <2>3. \A q \in Puller : q = p
    BY DEF Alone
  <2>4. page \subseteq Later(cursor) /\ Later(cursor) \subseteq MemoryId
    BY <1>1 DEF Page, Later, Passed
  <2>5. PageOnce'
    BY <2>2, <2>3 DEF PageOnce, OnPage
  <2>6. Passed'
    <3>1. Position(last)[1] < clock'
      BY <1>1, <2>4 DEF Position
    <3>2. Behind(pull[p].next)'
      BY <1>1, <2>2, <3>1 DEF Behind
    <3> QED BY <1>1, <1>3, <2>2, <2>3, <3>2 DEF Passed
  <2>7. PageCovers'
    <3>1. ASSUME NEW ch \in OnPage(p) PROVE After(Position(ch.id), cursor)
      BY <2>4 DEF OnPage, Later
    <3>2. ASSUME NEW m \in MemoryId, InSight(m), After(Position(m), cursor),
                 ~After(Position(m), Position(last))
          PROVE  [id |-> m, row |-> rows[m]] \in OnPage(p)
      <4>1. m \in Later(pull[p].from)
        BY <1>1, <3>2 DEF Later, Passed
      <4>2. m \in page
        BY <3>2, <4>1, PageDown
      <4> QED BY <4>2 DEF OnPage
    <3> HIDE DEF page
    <3> QED BY <1>1, <2>2, <2>3, <3>1, <3>2 DEF PageCovers, InSight, Position, After
  <2>8. MergedPage' /\ WrittenPage'
    BY <2>2, <2>3 DEF MergedPage, WrittenPage
  <2>9. CursorCovers'
    BY <1>3 DEF CursorCovers, Covered
  <2> QED BY <1>3, <2>5, <2>6, <2>7, <2>8, <2>9
<1> QED BY <1>4, <1>5

LEMMA ApplyReadKeeps ==
  ASSUME Alone, PullInv, NEW p \in Puller, ApplyRead(p)
  PROVE  PullRest'
<1> USE DEF PullRest
<1> USE DEF PullInv
<1>1. UNCHANGED <<rows, open, clock, mirror, cursor>> /\ pull[p].pc = "read"
  BY DEF ApplyRead
<1>2. /\ pull'[p].pc = "write" /\ pull'[p].from = pull[p].from /\ pull'[p].next = pull[p].next
      /\ pull'[p].page = pull[p].page /\ pull'[p].merged = Merge(pull[p].page)
  BY DEF ApplyRead, PullTypeOK, PullState
<1>3. \A q \in Puller : q = p
  BY DEF Alone
<1>4. PageOnce' /\ Stamped' /\ WrittenPage'
  BY <1>1, <1>2, <1>3 DEF PageOnce, Stamped, WrittenPage
<1>5. Passed'
  BY <1>1, <1>2, <1>3 DEF Passed, HasNext, Behind
<1>6. PageCovers'
  BY <1>1, <1>2, <1>3 DEF PageCovers, HasPage, InSight, Position, After
<1>7. MergedPage'
  BY <1>1, <1>2, <1>3 DEF MergedPage, Merge
<1>8. CursorCovers'
  BY <1>1 DEF CursorCovers, InSight, Position, After
<1> QED BY <1>4, <1>5, <1>6, <1>7, <1>8

\* The page is written: the mirror now has what lies up to the next cursor, and
\* still has what lies up to the old one.
LEMMA ApplyWriteKeeps ==
  ASSUME Alone, PullInv, NEW p \in Puller, ApplyWrite(p)
  PROVE  PullRest'
<1> USE DEF PullRest
<1> USE DEF PullInv
<1>1. /\ UNCHANGED <<rows, open, clock, cursor>> /\ pull[p].pc = "write"
      /\ mirror' = Merge(pull[p].page)
  BY DEF ApplyWrite, MergedPage
<1>2. /\ pull'[p].pc = "move" /\ pull'[p].from = pull[p].from /\ pull'[p].next = pull[p].next
      /\ pull'[p].page = pull[p].page
  BY DEF ApplyWrite, PullTypeOK, PullState
<1>3. \A q \in Puller : q = p
  BY DEF Alone
<1>4. PageOnce' /\ Stamped' /\ MergedPage' /\ PageCovers'
  BY <1>1, <1>2, <1>3 DEF PageOnce, Stamped, MergedPage, PageCovers, HasPage
<1>5. Passed'
  BY <1>1, <1>2, <1>3 DEF Passed, HasNext, Behind
<1>6. /\ pull[p].from = cursor /\ \A a, b \in pull[p].page : a.id = b.id => a = b
      /\ \A ch \in pull[p].page : After(Position(ch.id), cursor)
  BY <1>1 DEF PageOnce, PageCovers, HasPage, Passed
<1>7. ASSUME NEW m \in MemoryId, InSight(m), ~After(Position(m), cursor)
      PROVE  mirror'[m] = Image(rows[m])
  <2>1. \A ch \in pull[p].page : ch.id # m
    BY <1>6, <1>7
  <2>2. mirror'[m] = mirror[m]
    BY <1>1, <1>6, <2>1, MergeFact
  <2> QED BY <1>7, <2>2 DEF CursorCovers
<1>8. ASSUME NEW m \in MemoryId, InSight(m), ~After(Position(m), pull[p].next),
             After(Position(m), cursor)
      PROVE  mirror'[m] = Image(rows[m])
  <2> DEFINE ch == [id |-> m, row |-> rows[m]]
  <2>1. ch \in pull[p].page
    BY <1>1, <1>6, <1>8 DEF PageCovers, HasPage
  <2>2. ch.id = m /\ ch.row = rows[m]
    OBVIOUS
  <2> HIDE DEF ch
  <2> QED BY <1>1, <1>6, <2>1, <2>2, MergeFact
<1>9. WrittenPage'
  <2>1. \A m \in MemoryId :
          InSight(m) /\ ~After(Position(m), pull[p].next) => mirror'[m] = Image(rows[m])
    BY <1>7, <1>8
  <2> QED BY <1>1, <1>2, <1>3, <2>1 DEF WrittenPage, Covered, InSight, Position
<1>10. CursorCovers'
  BY <1>1, <1>7 DEF CursorCovers, InSight, Position
<1> QED BY <1>4, <1>5, <1>9, <1>10

LEMMA SetCursorKeeps ==
  ASSUME Alone, PullInv, NEW p \in Puller, SetCursor(p)
  PROVE  PullRest'
<1> USE DEF PullRest
<1>1. /\ UNCHANGED <<rows, open, clock, mirror>> /\ pull[p].pc = "move"
      /\ cursor' = pull[p].next
  BY DEF SetCursor
<1>2. \/ pull' = [pull EXCEPT ![p] = PullIdle]
      \/ pull' = [pull EXCEPT ![p] = Pulling("ask", cursor')]
  BY <1>1 DEF SetCursor, PullGoto
<1>3. Behind(pull[p].next) /\ Covered(pull[p].next)
  BY <1>1 DEF PullInv, Passed, HasNext, WrittenPage
<1>4. Stamped' /\ Behind(cursor)' /\ Covered(cursor)'
  BY <1>1, <1>3 DEF PullInv, Stamped, Behind, Covered, InSight, Position
<1> QED BY <1>1, <1>2, <1>4, NothingInHand

-----------------------------------------------------------------------------
(* The invariant, and what it is for *)

LEMMA PullInvInit == PullInit => PullInv
<1> SUFFICES ASSUME PullInit PROVE PullInv
  OBVIOUS
<1>1. PullTypeOK
  BY PullTypeInit
<1>2. PageOnce /\ PageCovers /\ MergedPage /\ WrittenPage
  BY DEF PullInit, PullIdle, Pulling, PageOnce, PageCovers, MergedPage, WrittenPage, HasPage
<1>3. Stamped /\ Passed /\ CursorCovers
  BY DEF PullInit, PullIdle, Pulling, Start, NoWrite, Stamped, Passed, Behind, HasNext,
         CursorCovers, InSight
<1> QED BY <1>1, <1>2, <1>3 DEF PullInv, PullRest

LEMMA PullInvStep ==
  ASSUME Alone, PullInv, [PullNext]_pullVars
  PROVE  PullInv'
<1>1. PullTypeOK'
  BY PullTypeStep DEF PullInv, PullRest
<1>2. PullRest'
  <2>1. CASE UNCHANGED pullVars
    BY <2>1 DEF pullVars, PullInv, PullRest, PageOnce, Stamped, Passed, PageCovers, MergedPage,
      WrittenPage, CursorCovers, Covered, HasPage, HasNext, Behind, InSight, Position, Merge, After
  <2>2. CASE \E w \in Write, m \in MemoryId, kind \in Kind : Begin(w, m, kind)
    BY <2>2, BeginKeeps
  <2>3. CASE \E s \in open : Commit(s)
    BY <2>3, CommitKeeps
  <2>4. CASE \E p \in Puller : PullStep(p) \/ PullFails(p)
    BY <2>4, StartKeeps, AskKeeps, ApplyReadKeeps, ApplyWriteKeeps, SetCursorKeeps DEF PullStep
  <2> QED BY <2>1, <2>2, <2>3, <2>4 DEF PullNext
<1> QED BY <1>1, <1>2 DEF PullInv

LEMMA PullInvCorrect == ASSUME Alone PROVE PullSpec => []PullInv
<1>1. PullInv /\ [PullNext]_pullVars => PullInv'
  BY PullInvStep
<1> QED BY <1>1, PullInvInit, PTL DEF PullSpec

\* The files and the server of a machine on which one pull runs at a time keep
\* their types.
THEOREM PullTypeCorrect == ASSUME Alone PROVE PullSpec => []PullTypeOK
<1>1. PullInv => PullTypeOK
  BY DEF PullInv
<1> QED BY <1>1, PullInvCorrect, PTL

\* A pull never moves its cursor past a row that the mirror lacks or has in an
\* older form, for any rows, writes, page size and crashes, as long as no
\* statement stays open over a read and one pull runs at a time.
THEOREM CursorCoversCorrect == ASSUME Alone PROVE PullSpec => []CursorCovers
<1>1. PullInv => CursorCovers
  BY DEF PullInv, PullRest
<1> QED BY <1>1, PullInvCorrect, PTL
=============================================================================
