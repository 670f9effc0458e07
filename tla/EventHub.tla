------------------------------ MODULE EventHub ------------------------------
(***************************************************************************)
(* SSEHub: events are sent to the channels of all the streams that are     *)
(* open, under a read lock and without waiting; a stream's handler takes   *)
(* them from its channel and writes them to its client.  A channel is      *)
(* added, and removed and closed, under the write lock; a stream that is   *)
(* opened again is another member of Streams, with another channel.        *)
(***************************************************************************)
EXTENDS Naturals, Sequences

CONSTANTS
  Publishers, Streams,
  ChanSize          \* capacity of a stream's channel; 256

ASSUME ChanSizeAssumption == ChanSize \in Nat \ {0}

VARIABLES
  subs,             \* the streams whose channels are in the hub
  stream,           \* each stream: its client and handler
  chan,             \* its channel,
  received,         \*   what was taken from it and written to the client,
  lost,             \*   and whether something did not fit
  reading,          \* the publishers that hold the read lock,
  sendTo            \*   and the channels they have yet to send to

hubVars == <<subs, stream, chan, received, lost, reading, sendTo>>

HubInit ==
  /\ subs = {}
  /\ stream = [s \in Streams |-> "off"]
  /\ chan = [s \in Streams |-> <<>>]
  /\ received = [s \in Streams |-> <<>>]
  /\ lost = [s \in Streams |-> FALSE]
  /\ reading = {}
  /\ sendTo = [p \in Publishers |-> {}]

HubTypeOK(Event) ==
  /\ subs \subseteq Streams /\ reading \subseteq Publishers
  /\ stream \in [Streams -> {"off", "open", "gone", "closed"}]
  /\ chan \in [Streams -> Seq(Event)] /\ received \in [Streams -> Seq(Event)]
  /\ \A s \in Streams : Len(chan[s]) <= ChanSize
  /\ lost \in [Streams -> BOOLEAN]
  /\ sendTo \in [Publishers -> SUBSET Streams]

BadLocked == TRUE                                       \* without h.mu.Lock
Locked == reading = {}

-----------------------------------------------------------------------------
Subscribe(s) ==
  /\ stream[s] = "off" /\ Locked
  /\ stream' = [stream EXCEPT ![s] = "open"]
  /\ subs' = subs \cup {s}
  /\ UNCHANGED <<chan, received, lost, reading, sendTo>>

(* The handler's select takes a message.                                   *)
Deliver(s) ==
  /\ stream[s] \in {"open", "gone"} /\ chan[s] # <<>>
  /\ received' = [received EXCEPT ![s] = Append(@, Head(chan[s]))]
  /\ chan' = [chan EXCEPT ![s] = Tail(@)]
  /\ UNCHANGED <<subs, stream, lost, reading, sendTo>>

(* The client closes the stream, or a write fails: the server's            *)
(* WriteTimeout ends every stream a minute after its request.              *)
Disconnect(s) ==
  /\ stream[s] = "open"
  /\ stream' = [stream EXCEPT ![s] = "gone"]
  /\ UNCHANGED <<subs, chan, received, lost, reading, sendTo>>

Unsubscribe(s) ==
  /\ stream[s] = "gone" /\ Locked
  /\ stream' = [stream EXCEPT ![s] = "closed"]
  /\ subs' = subs \ {s}
  /\ UNCHANGED <<chan, received, lost, reading, sendTo>>

-----------------------------------------------------------------------------
(* PublishJSON.                                                            *)
RLock(p) ==
  /\ p \notin reading
  /\ reading' = reading \cup {p}
  /\ sendTo' = [sendTo EXCEPT ![p] = subs]
  /\ UNCHANGED <<subs, stream, chan, received, lost>>

BadSend(p, s, e) ==                                     \* a full channel is emptied
  /\ s \in sendTo[p]
  /\ sendTo' = [sendTo EXCEPT ![p] = @ \ {s}]
  /\ chan' = [chan EXCEPT ![s] = IF Len(@) < ChanSize THEN Append(@, e) ELSE <<e>>]
  /\ UNCHANGED <<subs, stream, received, lost, reading>>

BadQueue(p, s, e) ==                                    \* a slice that grows
  /\ s \in sendTo[p]
  /\ sendTo' = [sendTo EXCEPT ![p] = @ \ {s}]
  /\ chan' = [chan EXCEPT ![s] = Append(@, e)]
  /\ UNCHANGED <<subs, stream, received, lost, reading>>

Send(p, s, e) ==
  /\ s \in sendTo[p]
  /\ sendTo' = [sendTo EXCEPT ![p] = @ \ {s}]
  /\ IF Len(chan[s]) < ChanSize
     THEN chan' = [chan EXCEPT ![s] = Append(@, e)] /\ UNCHANGED lost
     ELSE lost' = [lost EXCEPT ![s] = TRUE] /\ UNCHANGED chan
  /\ UNCHANGED <<subs, stream, received, reading>>

RUnlock(p) ==
  /\ p \in reading /\ sendTo[p] = {}
  /\ reading' = reading \ {p}
  /\ UNCHANGED <<subs, stream, chan, received, lost, sendTo>>

Handle(s) == Deliver(s) \/ Unsubscribe(s)

=============================================================================
