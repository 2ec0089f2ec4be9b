----------------------------- MODULE Transport ------------------------------
(***************************************************************************)
(* What lies between the main loops of two connected processes: the queue  *)
(* of the writer task, the batch it drains, the socket, the chunk of the   *)
(* reader task and the queue of the loop (server/network.rs,               *)
(* client/network.rs).  All are bounded, except the queues servers send    *)
(* through.  Messages of a channel are numbered; what they say is left to  *)
(* Server.  Connections do not fail here; Server has those that do.        *)
(***************************************************************************)
EXTENDS Integers, FiniteSets, Selection

CONSTANTS
  Servers, Clients,
  Home,           \* the server a client is connected to
  Loads           \* what is configured and sent: see load

Node == Servers \cup Clients
PeerChannel == {ch \in Servers \X Servers : ch[1] # ch[2]}
ClientChannel == {<<c, Home[c]>> : c \in Clients} \cup {<<Home[c], c>> : c \in Clients}
Channel == PeerChannel \cup ClientChannel
From(ch) == ch[1]
To(ch) == ch[2]
Reverse(ch) == <<To(ch), From(ch)>>

ASSUME NodesAssumption == Servers \cap Clients = {} /\ Home \in [Clients -> Servers]
\* Requests and answers are a few words; only the library makes long messages.
ASSUME LoadsAssumption ==
  \A l \in Loads :
    /\ l.batch_size \in Nat \ {0} /\ l.wire_capacity \in Nat \ {0}
    /\ l.too_large \subseteq PeerChannel \X Nat
    /\ l.max_sent \in [Channel -> Nat]

\* The queues the main loops select on.
Inbox == {<<s, q>> : s \in Servers, q \in {"cluster_messages", "client_messages"}}
         \cup {<<c, "server_messages">> : c \in Clients}
InboxOf(ch) ==
  <<To(ch), IF To(ch) \in Clients THEN "server_messages"
            ELSE IF From(ch) \in Clients THEN "client_messages" ELSE "cluster_messages">>

VARIABLES
  load,       \* one of Loads, which stays
  turn,       \* channels a main loop has yet to send on before it selects again
  sent,       \* how many messages a main loop has sent on a channel
  outgoing,   \* outgoing_messages: the queue of the writer task
  buffer,     \* the batch the writer task is draining
  wire,       \* the encoder's buffer and the socket
  chunk,      \* the batch the reader task is passing on
  inbox,      \* the queue of a main loop: pairs of a channel and a number
  handled     \* the messages the main loop has taken, in order

BatchSize == load.batch_size        \* of every bounded queue and every batch
WireCapacity == load.wire_capacity  \* messages that fit the buffers of a socket
TooLarge == load.too_large          \* <<channel, number>> that no frame can hold
MaxSent == load.max_sent            \* bound: messages sent on a channel

loopVars == <<load, turn, sent, handled>>
transportVars == <<loopVars, outgoing, buffer, wire, chunk, inbox>>

Empty == [ch \in Channel |-> <<>>]

TransportInit ==
  /\ load \in Loads
  /\ turn = [n \in Node |-> {}]
  /\ sent = [ch \in Channel |-> 0]
  /\ outgoing = Empty /\ buffer = Empty /\ wire = Empty /\ chunk = Empty
  /\ inbox = [q \in Inbox |-> <<>>]
  /\ handled = Empty
-----------------------------------------------------------------------------
Smaller(x, y) == IF x < y THEN x ELSE y
First(seq, n) == SubSeq(seq, 1, Smaller(n, Len(seq)))
Rest(seq, n) == SubSeq(seq, Smaller(n, Len(seq)) + 1, Len(seq))

\* What a main loop may send: a server answers requests, besides its start
\* signal; a client waits for that; servers talk to each other at any time.
MaySend(ch) ==
  /\ sent[ch] < MaxSent[ch]
  /\ To(ch) \in Clients => sent[ch] <= Len(handled[Reverse(ch)])
  /\ From(ch) \in Clients => handled[Reverse(ch)] # <<>>

ChannelsFrom(n) == {ch \in Channel : From(ch) = n /\ MaySend(ch)}

\* Mutants: servers' queues are bounded as well; clients' are not.
BoundedForAll(ch) == Len(outgoing[ch]) < BatchSize
BoundedForNone(ch) == TRUE

\* The queue of a client's writer task is mpsc::channel(batch_size), that of a
\* server's unbounded_channel().
HasRoom(ch) == From(ch) \in Clients => Len(outgoing[ch]) < BatchSize

\* A timer fires in a main loop, and its handler has messages to send.
TimerFires(n) ==
  /\ turn[n] = {}
  /\ \E channels \in SUBSET ChannelsFrom(n) \ {{}} : turn' = [turn EXCEPT ![n] = channels]
  /\ UNCHANGED <<load, sent, handled, outgoing, buffer, wire, chunk, inbox>>

\* send(): waits while the queue is full, and with it the whole loop.
Send(n) ==
  \E ch \in turn[n] :
    /\ HasRoom(ch)
    /\ turn' = [turn EXCEPT ![n] = @ \ {ch}]
    /\ sent' = [sent EXCEPT ![ch] = @ + 1]
    /\ outgoing' = [outgoing EXCEPT ![ch] = Append(@, sent[ch] + 1)]
    /\ UNCHANGED <<load, handled, buffer, wire, chunk, inbox>>

\* Mutant: the whole queue at once.
TakesQueue(ch) == Len(outgoing[ch])

\* recv_many on the queue of the writer: how much one batch may be.
WriterTakes(ch) == Smaller(BatchSize, Len(outgoing[ch]))

\* The writer task waits for messages, having flushed the last batch.
WriterReceives(ch) ==
  /\ buffer[ch] = <<>>
  /\ outgoing[ch] # <<>>
  /\ buffer' = [buffer EXCEPT ![ch] = First(outgoing[ch], WriterTakes(ch))]
  /\ outgoing' = [outgoing EXCEPT ![ch] = Rest(@, WriterTakes(ch))]
  /\ UNCHANGED <<loopVars, wire, chunk, inbox>>

\* feed(), or the flush that makes room for it.
WriterFeeds(ch) ==
  /\ buffer[ch] # <<>>
  /\ <<ch, Head(buffer[ch])>> \notin TooLarge
  /\ Len(wire[ch]) < WireCapacity
  /\ wire' = [wire EXCEPT ![ch] = Append(@, Head(buffer[ch]))]
  /\ buffer' = [buffer EXCEPT ![ch] = Tail(@)]
  /\ UNCHANGED <<loopVars, outgoing, chunk, inbox>>

\* A message cannot be framed: the rest of the batch is dropped with it, what
\* was fed before is flushed, and the writer task goes on.
WriterSkips(ch) ==
  /\ buffer[ch] # <<>>
  /\ <<ch, Head(buffer[ch])>> \in TooLarge
  /\ buffer' = [buffer EXCEPT ![ch] = <<>>]
  /\ UNCHANGED <<loopVars, outgoing, wire, chunk, inbox>>

\* How much of the socket's content may have come in: ready_chunks takes that.
ReadyChunks(ch) == 1..Smaller(BatchSize, Len(wire[ch]))

\* The reader task gets a chunk, having passed on the last one.
ReaderReceives(ch) ==
  /\ chunk[ch] = <<>>
  /\ \E k \in ReadyChunks(ch) :
       /\ chunk' = [chunk EXCEPT ![ch] = First(wire[ch], k)]
       /\ wire' = [wire EXCEPT ![ch] = Rest(@, k)]
  /\ UNCHANGED <<loopVars, outgoing, buffer, inbox>>

\* Mutant: try_send, which gives up on a full queue.
TriesToPassOn(ch) ==
  inbox' = IF Len(inbox[InboxOf(ch)]) < BatchSize
           THEN [inbox EXCEPT ![InboxOf(ch)] = Append(@, <<ch, Head(chunk[ch])>>)]
           ELSE inbox

\* incoming_messages.send().await on a channel that all connections share.
PassesOn(ch) ==
  /\ Len(inbox[InboxOf(ch)]) < BatchSize
  /\ inbox' = [inbox EXCEPT ![InboxOf(ch)] = Append(@, <<ch, Head(chunk[ch])>>)]

ReaderForwards(ch) ==
  /\ chunk[ch] # <<>>
  /\ PassesOn(ch)
  /\ chunk' = [chunk EXCEPT ![ch] = Tail(@)]
  /\ UNCHANGED <<loopVars, outgoing, buffer, wire>>

\* Messages of one channel in a batch of the main loop.
OfChannel(batch, ch) ==
  LET its == Picked(batch, {i \in DOMAIN batch : batch[i][1] = ch}) IN
  [i \in DOMAIN its |-> its[i][2]]

\* A main loop takes a batch, a client one message, and handles it; a server's
\* handler may have messages to send.
Take(q) ==
  LET n == q[1]
      size == IF n \in Clients THEN 1 ELSE BatchSize
      batch == First(inbox[q], size)
  IN
  /\ turn[n] = {}
  /\ inbox[q] # <<>>
  /\ inbox' = [inbox EXCEPT ![q] = Rest(@, size)]
  /\ handled' = [ch \in Channel |-> handled[ch] \o OfChannel(batch, ch)]
  /\ \E channels \in SUBSET ChannelsFrom(n) :
       /\ n \in Clients => channels = {}
       /\ turn' = [turn EXCEPT ![n] = channels]
  /\ UNCHANGED <<load, sent, outgoing, buffer, wire, chunk>>

\* The steps that wait for nothing but room and messages.
TaskSteps ==
  \/ \E n \in Node : Send(n)
  \/ \E ch \in Channel :
       \/ WriterReceives(ch) \/ WriterFeeds(ch) \/ WriterSkips(ch)
       \/ ReaderReceives(ch) \/ ReaderForwards(ch)
  \/ \E q \in Inbox : Take(q)

TransportNext == TaskSteps \/ \E n \in Node : TimerFires(n)

TransportSpec == TransportInit /\ [][TransportNext]_transportVars
-----------------------------------------------------------------------------
\* Messages of a channel on their way, the ones waiting in the sender's queue
\* excepted.
InTransit(ch) ==
  LET waiting == inbox[InboxOf(ch)] IN
  {buffer[ch][i] : i \in DOMAIN buffer[ch]} \cup {wire[ch][i] : i \in DOMAIN wire[ch]}
  \cup {chunk[ch][i] : i \in DOMAIN chunk[ch]}
  \cup {waiting[i][2] : i \in {j \in DOMAIN waiting : waiting[j][1] = ch}}
Handled(ch) == {handled[ch][i] : i \in DOMAIN handled[ch]}
Lost(ch) ==
  (1..sent[ch] \ {outgoing[ch][i] : i \in DOMAIN outgoing[ch]}) \ (InTransit(ch) \cup Handled(ch))

\* A client is held back by its server (client/network.rs:152, a bounded
\* queue): the requests it is ahead by fit the queues between them, so its
\* memory is bounded however slow the server is.
ClientHeldBack ==
  \A ch \in ClientChannel :
    From(ch) \in Clients => sent[ch] - Len(handled[ch]) <= 4 * BatchSize + WireCapacity

\* A message that cannot be framed costs at most the rest of its batch
\* (server/network.rs:337-342): whatever is lost follows one that closely.
LossIsLocal ==
  \A ch \in Channel : \A n \in Lost(ch) :
    \E k \in 0..(BatchSize - 1) : <<ch, n - k>> \in TooLarge

\* Main loops see FIFO channels, as Server and Streams take for granted;
\* only channels with a message too large skip any.
Fifo == INSTANCE FifoChannels WITH lossy <- {m[1] : m \in TooLarge}
ChannelsAreFifo == Fifo!FifoSpec

\* A main loop waits in a send, or a message is under way anywhere.
Busy ==
  \/ \E n \in Node : turn[n] # {}
  \/ \E ch \in Channel : outgoing[ch] # <<>> \/ InTransit(ch) # {}

\* What one of TaskSteps waits for is there: room to send, a batch or a chunk to
\* receive, room to pass its first message on, a batch for a main loop.
TaskReady ==
  \/ \E n \in Node : \E ch \in turn[n] : HasRoom(ch)
  \/ \E ch \in Channel :
       \/ buffer[ch] = <<>> /\ outgoing[ch] # <<>>
       \/ buffer[ch] # <<>> /\ (<<ch, Head(buffer[ch])>> \in TooLarge \/ Len(wire[ch]) < WireCapacity)
       \/ chunk[ch] = <<>> /\ wire[ch] # <<>>
       \/ chunk[ch] # <<>> /\ Len(inbox[InboxOf(ch)]) < BatchSize
  \/ \E q \in Inbox : turn[q[1]] = {} /\ inbox[q] # <<>>

\* Whatever is waited for comes: while a main loop waits in a send, or a message
\* is under way anywhere, some task can go on, so no circle of full queues forms
\* (unbounded_channel, server/network.rs:333) and nothing is left lying.
NothingStuck == Busy => TaskReady /\ ENABLED TaskSteps
=============================================================================
