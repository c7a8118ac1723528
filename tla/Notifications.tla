---------------------------- MODULE Notifications ----------------------------
(***************************************************************************)
(* The SSE connections of src/lib/services/notification.service.ts, opened *)
(* and cancelled by GET /api/events/stream.                                *)
(*                                                                         *)
(* The service keeps one controller per user in a Map.  A controller       *)
(* belongs to a ReadableStream (external) that outlives its place in the   *)
(* Map: close() lets it drain what is queued, and until then its client    *)
(* may still hang up, which runs the cancel callback of the route.  Every  *)
(* function here is synchronous, so every action is atomic; what            *)
(* interleaves is the life of the streams.                                 *)
(***************************************************************************)
EXTENDS Naturals, Sequences

CONSTANTS
    Listener,
    Connection,   \* the GET requests of a run, one stream each
    NoConnection, \* the Map has no entry
    MaxNotes      \* bound: how many payments are announced in a run

ASSUME NotificationAssumption ==
    /\ NoConnection \notin Connection
    /\ MaxNotes \in Nat

VARIABLES
    owner,      \* x-user-id of each request
    registered, \* sseConnections
    stream,     \* the state of each ReadableStream
    queue,      \* the chunks it holds
    received,   \* the chunks its client has read
    sent        \* how many payments were announced

streamVars == <<owner, registered, stream, queue, received, sent>>

\* A closed stream has been read to its end, a cancelled one has not.
StreamState == {"new", "open", "closing", "closed", "cancelled"}

\* Chunk 0 is the "connected" event, the others are payments.
Chunk == Nat

\* The types of the variables.
StreamTypeOK ==
    /\ owner \in [Connection -> Listener]
    /\ registered \in [Listener -> Connection \cup {NoConnection}]
    /\ stream \in [Connection -> StreamState]
    /\ queue \in [Connection -> Seq(Chunk)]
    /\ received \in [Connection -> Seq(Chunk)]
    /\ sent \in Nat

StreamInit ==
    /\ owner \in [Connection -> Listener]
    /\ registered = [u \in Listener |-> NoConnection]
    /\ stream = [c \in Connection |-> "new"]
    /\ queue = [c \in Connection |-> <<>>]
    /\ received = [c \in Connection |-> <<>>]
    /\ sent = 0

-----------------------------------------------------------------------------
(* ReadableStreamDefaultController: external.                              *)

\* Mutant: close() throws the queue away.
CloseAtOnce(state, c) == [state EXCEPT ![c] = IF @ = "open" THEN "closed" ELSE @]

\* close() refuses new chunks and drains the old ones; on a stream that is
\* not open it throws, and every caller ignores that.
Close(state, c) ==
    [state EXCEPT ![c] = IF @ # "open" THEN @
                         ELSE IF queue[c] = <<>> THEN "closed" ELSE "closing"]

-----------------------------------------------------------------------------
(* The route and the service.                                              *)

\* Mutant: the previous connection of the user is left open.
OpenBeside(c) ==
    /\ stream[c] = "new"
    /\ stream' = [stream EXCEPT ![c] = "open"]
    /\ registered' = [registered EXCEPT ![owner[c]] = c]
    /\ queue' = [queue EXCEPT ![c] = <<0>>]
    /\ UNCHANGED <<owner, received, sent>>

\* Mutant: the arguments of subscribe are swapped.
OpenSwapped(c) ==
    /\ stream[c] = "new"
    /\ stream' = [stream EXCEPT ![c] = "open"]
    /\ registered' = [registered EXCEPT ![owner[c]] = owner[c]]
    /\ queue' = [queue EXCEPT ![c] = <<0>>]
    /\ UNCHANGED <<owner, received, sent>>

\* start: subscribe closes the previous connection of the user, then the
\* "connected" event is queued.
Open(c) ==
    /\ stream[c] = "new"
    /\ LET old == registered[owner[c]]
           others == IF old = NoConnection THEN stream ELSE Close(stream, old)
       IN  stream' = [others EXCEPT ![c] = "open"]
    /\ registered' = [registered EXCEPT ![owner[c]] = c]
    /\ queue' = [queue EXCEPT ![c] = <<0>>]
    /\ UNCHANGED <<owner, received, sent>>

\* The response reads a chunk; a closing stream ends with its last one.
Deliver(c) ==
    /\ stream[c] \in {"open", "closing"}
    /\ queue[c] # <<>>
    /\ received' = [received EXCEPT ![c] = Append(@, Head(queue[c]))]
    /\ queue' = [queue EXCEPT ![c] = Tail(@)]
    /\ stream' = [stream EXCEPT ![c] = IF @ = "closing" /\ Len(queue[c]) = 1 THEN "closed" ELSE @]
    /\ UNCHANGED <<owner, registered, sent>>

\* The client is gone: a stream that has not ended is cancelled and its queue
\* dropped, then the cancel callback unsubscribes the user, whichever
\* connection the user has by now.
HangUp(c) ==
    /\ stream[c] \in {"open", "closing"}
    /\ LET gone    == [stream EXCEPT ![c] = "cancelled"]
           current == registered[owner[c]]
       IN  stream' = IF current = NoConnection THEN gone ELSE Close(gone, current)
    /\ queue' = [queue EXCEPT ![c] = <<>>]
    /\ registered' = [registered EXCEPT ![owner[c]] = NoConnection]
    /\ UNCHANGED <<owner, received, sent>>

\* notifyPaymentReceived: without a connection the payment is not announced;
\* enqueue on a stream that is not open throws, and the entry is dropped.
Notify(u) ==
    /\ sent < MaxNotes
    /\ sent' = sent + 1
    /\ LET c == registered[u] IN
         IF c = NoConnection THEN UNCHANGED <<queue, registered>>
         ELSE IF stream[c] = "open"
         THEN queue' = [queue EXCEPT ![c] = Append(@, sent')] /\ UNCHANGED registered
         ELSE registered' = [registered EXCEPT ![u] = NoConnection] /\ UNCHANGED queue
    /\ UNCHANGED <<owner, stream, received>>

\* shutdown: every user is unsubscribed.
Shutdown ==
    /\ \E u \in Listener : registered[u] # NoConnection
    /\ stream' = [c \in Connection |->
                    IF registered[owner[c]] = c THEN Close(stream, c)[c] ELSE stream[c]]
    /\ registered' = [u \in Listener |-> NoConnection]
    /\ UNCHANGED <<owner, queue, received, sent>>

\* The process stops and starts again: the Map and the streams are gone.
Restart ==
    /\ \E c \in Connection : stream[c] \in {"open", "closing"}
    /\ registered' = [u \in Listener |-> NoConnection]
    /\ stream' = [c \in Connection |-> IF stream[c] \in {"open", "closing"} THEN "cancelled"
                                        ELSE stream[c]]
    /\ queue' = [c \in Connection |-> <<>>]
    /\ UNCHANGED <<owner, received, sent>>

StreamNext ==
    \/ \E c \in Connection : Open(c) \/ Deliver(c) \/ HangUp(c)
    \/ \E u \in Listener : Notify(u)
    \/ Shutdown
    \/ Restart

StreamSpec == StreamInit /\ [][StreamNext]_streamVars

\* The runtime pumps a stream that has something to read.
FairStreamSpec == StreamSpec /\ \A c \in Connection : WF_streamVars(Deliver(c))

-----------------------------------------------------------------------------
(* Properties.                                                             *)

Holds(chunks, n) == \E i \in 1..Len(chunks) : chunks[i] = n

\* The Map knows exactly the open streams: a user has one active connection
\* (requirement 11.6), no open stream is forgotten by the Map, and no entry
\* is stale, so a payment is never announced to a stream that will not show
\* it and never missed by one that could.
MapIsOpenStreams ==
    /\ \A c \in Connection : stream[c] = "open" <=> registered[owner[c]] = c
    /\ \A u \in Listener : registered[u] # NoConnection => owner[registered[u]] = u

\* A payment announced to a stream is read by its client, even when a newer
\* connection or an unsubscribe closes the stream before: only a hang-up or
\* the end of the process loses it.
AnnouncedIsRead ==
    \A c \in Connection, n \in 1..MaxNotes :
        Holds(queue[c], n) ~> (Holds(received[c], n) \/ stream[c] = "cancelled")

\* A stream is taken from its client only by the client, by a newer
\* connection of the same user, or with the whole service (requirements 11.4
\* and 11.6).
ClosedForAReason ==
    [][\A c \in Connection :
         (stream[c] = "open" /\ stream'[c] # "open") =>
            \/ HangUp(c)
            \/ \E d \in Connection : Open(d) /\ owner[d] = owner[c]
            \/ Shutdown
            \/ Restart]_streamVars
=============================================================================
