---------------------------- MODULE MessageHandler ----------------------------
(***************************************************************************)
(* The MessageHandler of dlc-messages, which each node hands to the peer   *)
(* manager of the LDK: it queues messages to send, cuts those that are too *)
(* large for the transport into segments, and puts the segments of each    *)
(* peer together again.                                                    *)
(*                                                                         *)
(* A message is its sender, its receiver, a number and a length; a byte of *)
(* it is the message and the position of the byte, so that the bytes of    *)
(* two messages are told apart.  The two bytes of the type are at -1 and 0.*)
(* The peer manager and the connection are external: a connection is first *)
(* in, first out, and what is under way is lost with it.  The queue of a   *)
(* handler is kept by receiver: it is drained as a whole, and what order   *)
(* it has between receivers is lost on their connections.                  *)
(***************************************************************************)
EXTENDS Integers, Sequences, FiniteSets

CONSTANTS
    Nodes,
    Links,                  \* the pairs of nodes that connect to each other
    Lens,                   \* for each node: the lengths of its messages
    MAX_DATA_SIZE,          \* the largest frame of the transport
    MAX_BUF_SIZE,           \* of the LDK: longer messages are segmented
    MAX_START_DATA_SIZE,
    MAX_CHUNK_SIZE,
    MAX_SEGMENTS,
    MaxSent,                \* bound, for each node: messages that it sends
    MaxFaults               \* bound: connections lost, nodes restarted

ASSUME SizeAssumption ==
    /\ {MAX_DATA_SIZE, MAX_BUF_SIZE, MAX_START_DATA_SIZE, MAX_CHUNK_SIZE,
        MAX_SEGMENTS, MaxFaults} \subseteq Nat
    /\ MaxSent \in [Nodes -> Nat]
    /\ \A link \in Links : \E n, p \in Nodes : n # p /\ link = {n, p}
    /\ Lens \in [Nodes -> SUBSET (Nat \ {0})]
    /\ 2 < MAX_START_DATA_SIZE
    /\ MAX_START_DATA_SIZE =< MAX_DATA_SIZE
    /\ MAX_DATA_SIZE =< MAX_BUF_SIZE
    /\ MAX_CHUNK_SIZE \in 1 .. MAX_DATA_SIZE

VARIABLES
    msg_events,      \* of each node: what it has queued for each peer
    msg_received,    \* of each node: the messages it has put together
    segment_readers, \* of each node: the SegmentReader of each peer
    connected,       \* the pairs of nodes that are connected
    wire,            \* wire[p][n]: on the way from p to n
    sent,            \* of each node: how many messages it has sent
    processed,       \* of each node: the messages it took from the handler
    lost,            \* messages that went with a connection or a process
    refused,         \* messages whose segments a reader did not accept
    faults

net == <<connected, wire>>
ghosts == <<sent, processed, lost, refused, faults>>
vars == <<msg_events, msg_received, segment_readers, net, ghosts>>

Messages == [from : Nodes, to : Nodes, id : Nat \ {0},
             len : UNION {Lens[n] : n \in Nodes}]

(* A message that was put together from the bytes of several.              *)
Torn == [torn |-> TRUE]

Encode(m) == [i \in 1 .. m.len |-> <<m, i>>]
TypePrefix(m) == << <<m, -1>>, <<m, 0>> >>

(* The wire messages; whole is the message a wire message stands for.      *)
Plain(m) == [kind |-> "Message", msg |-> m]
SegmentStart(nb, data) ==
    [kind |-> "SegmentStart", nb_segments |-> nb, data |-> data]
SegmentChunk(data) == [kind |-> "SegmentChunk", data |-> data]

Whole(w) == IF w.kind = "Message" THEN w.msg ELSE w.data[1][1]

-----------------------------------------------------------------------------
(* segmentation.                                                           *)

LenMinusStart(len) == len - MAX_START_DATA_SIZE + 2

(* The cast to u16 is left out: only a message of 2^16 chunks, some four    *)
(* gigabytes, is changed by it, and that is refused by the receiver anyway.*)
NbSegments(len) ==
    LenMinusStart(len) \div MAX_CHUNK_SIZE + 1
        + (IF LenMinusStart(len) % MAX_CHUNK_SIZE # 0 THEN 1 ELSE 0)

(* The last byte, of those after the start, that chunk i holds.            *)
ChunkEnd(len, i) ==
    IF i * MAX_CHUNK_SIZE < LenMinusStart(len)
    THEN i * MAX_CHUNK_SIZE ELSE LenMinusStart(len)

(* get_segments: the type and the first bytes, then the chunks.            *)
GetSegments(m) ==
    LET first == MAX_START_DATA_SIZE - 2
        Chunk(i) == SubSeq(Encode(m), first + ChunkEnd(m.len, i - 1) + 1,
                           first + ChunkEnd(m.len, i))
    IN <<SegmentStart(NbSegments(m.len),
                      TypePrefix(m) \o SubSeq(Encode(m), 1, first))>>
       \o [i \in 1 .. NbSegments(m.len) - 1 |-> SegmentChunk(Chunk(i))]

NewReader == [cur_data |-> <<>>, remaining |-> 0]

ExpectingChunk(r) == r.remaining # 0

(* The results of the reader's methods: the reader after the call, whether *)
(* the call failed, and the data that is complete.                         *)
Failed(r) == [reader |-> r, err |-> TRUE, done |-> <<>>]
Ok(r, done) == [reader |-> r, err |-> FALSE, done |-> done]

(* Mutant: the data stays.                                                 *)
M_Reset(r) == [r EXCEPT !.remaining = 0]

Reset(r) == NewReader

ProcessSegmentStart(r, s) ==
    IF \/ r.cur_data # <<>>
       \/ s.nb_segments < 2 \/ s.nb_segments > MAX_SEGMENTS
       \/ Len(s.data) < MAX_START_DATA_SIZE
    THEN Failed(r)
    ELSE Ok([cur_data |-> s.data, remaining |-> s.nb_segments - 1], <<>>)

(* Mutant: the buffer keeps the data that was returned.                    *)
M_ProcessSegmentChunk(r, s) ==
    IF \/ r.cur_data = <<>>
       \/ r.remaining > 1 /\ Len(s.data) # MAX_CHUNK_SIZE
    THEN Failed(r)
    ELSE LET data == r.cur_data \o s.data
         IN Ok([cur_data |-> data, remaining |-> r.remaining - 1],
               IF r.remaining = 1 THEN data ELSE <<>>)

ProcessSegmentChunk(r, s) ==
    IF \/ r.cur_data = <<>>
       \/ r.remaining > 1 /\ Len(s.data) # MAX_CHUNK_SIZE
    THEN Failed(r)
    ELSE LET data == r.cur_data \o s.data
         IN IF r.remaining = 1 THEN Ok(NewReader, data)
            ELSE Ok([cur_data |-> data, remaining |-> r.remaining - 1], <<>>)

(* CustomMessageReader::read of data that is complete.  What is too short  *)
(* for its message is a DecodeError, what follows the message is ignored.  *)
Bytes(m) == TypePrefix(m) \o Encode(m)

Truncated(data) ==
    LET all == Bytes(data[1][1])
    IN Len(data) < Len(all) /\ data = SubSeq(all, 1, Len(data))

Read(data) ==
    LET m == data[1][1]
    IN IF Len(data) >= Len(Bytes(m))
          /\ SubSeq(data, 1, Len(Bytes(m))) = Bytes(m)
       THEN m ELSE Torn

-----------------------------------------------------------------------------
(* handle_custom_message: the reader of the peer, whether the call failed, *)
(* in which case the peer is disconnected, and the messages to keep.       *)

Result(out, msgs) == [reader |-> out.reader, err |-> out.err, msgs |-> msgs]

(* The chunk that the reader expects.                                      *)
OfChunk(r, w) ==
    LET out == ProcessSegmentChunk(r, w)
    IN CASE out.err \/ out.done = <<>> -> Result(out, <<>>)
         [] ~out.err /\ out.done # <<>> /\ Truncated(out.done) ->
              Result(Failed(out.reader), <<>>)
         [] OTHER -> Result(out, <<Read(out.done)>>)

Unsegmented(r, w) ==
    CASE w.kind = "Message" -> Result(Ok(r, <<>>), <<w.msg>>)
      [] w.kind = "SegmentStart" -> Result(ProcessSegmentStart(r, w), <<>>)
      [] w.kind = "SegmentChunk" -> Result(Failed(r), <<>>)

(* Mutant: the message that resets the reader is dropped.                  *)
M_Handled(r, w) ==
    CASE ~ExpectingChunk(r) -> Unsegmented(r, w)
      [] ExpectingChunk(r) /\ w.kind = "SegmentChunk" -> OfChunk(r, w)
      [] OTHER -> Result(Ok(Reset(r), <<>>), <<>>)

Handled(r, w) ==
    CASE ~ExpectingChunk(r) -> Unsegmented(r, w)
      [] ExpectingChunk(r) /\ w.kind = "SegmentChunk" -> OfChunk(r, w)
      [] OTHER -> Unsegmented(Reset(r), w)

(* Mutant: one reader for all peers.                                       *)
M_Entry(org) == CHOOSE n \in Nodes : TRUE

(* The entry of segment_readers that belongs to a peer.                    *)
Entry(org) == org

-----------------------------------------------------------------------------
Pair(n, p) == {n, p}

(* The messages in the events of n for p, on the wire and in the reader.   *)
Queued(n, p) == {Whole(msg_events[n][p][i]) : i \in DOMAIN msg_events[n][p]}
UnderWay(p, n) ==
    {Whole(wire[p][n][i]) : i \in DOMAIN wire[p][n]}
        \cup {segment_readers[n][p].cur_data[i][1] :
                 i \in DOMAIN segment_readers[n][p].cur_data}

(* The connection of n and p ends: what is under way is lost.  The readers *)
(* of the two nodes are left as they are.                                  *)
Drop(n, p) ==
    /\ connected' = connected \ {Pair(n, p)}
    /\ wire' = [wire EXCEPT ![n][p] = <<>>, ![p][n] = <<>>]
    /\ lost' = lost \cup UnderWay(n, p) \cup UnderWay(p, n)

(* send_message: all segments are queued under one lock.                   *)
SendMessage(n, p, len) ==
    LET m == [from |-> n, to |-> p, id |-> sent[n] + 1, len |-> len]
        parts == IF len > MAX_BUF_SIZE THEN GetSegments(m) ELSE <<Plain(m)>>
    IN /\ Pair(n, p) \in Links
       /\ sent[n] < MaxSent[n]
       /\ msg_events' = [msg_events EXCEPT ![n][p] = @ \o parts]
       /\ sent' = [sent EXCEPT ![n] = @ + 1]
       /\ UNCHANGED <<msg_received, segment_readers, net, processed, lost,
                      refused, faults>>

(* The frame of a wire message: two bytes of type, and the message.        *)
TooLong(w) == w.kind = "Message" /\ w.msg.len + 2 > MAX_DATA_SIZE

(* PeerManager::process_events takes the queue with                        *)
(* get_and_clear_pending_msg.  Messages for a peer that is not connected   *)
(* are dropped, the others are put on the wire in their order.             *)
ProcessEvents(n) ==
    LET up == {p \in Nodes : Pair(n, p) \in connected}
    IN /\ \E p \in Nodes : msg_events[n][p] # <<>>
       /\ \A p \in up : \A i \in DOMAIN msg_events[n][p] :
             ~TooLong(msg_events[n][p][i])
       /\ msg_events' = [msg_events EXCEPT ![n] = [p \in Nodes |-> <<>>]]
       /\ wire' = [wire EXCEPT ![n] = [p \in Nodes |->
             IF p \in up THEN wire[n][p] \o msg_events[n][p] ELSE wire[n][p]]]
       /\ lost' = lost \cup UNION {Queued(n, p) : p \in Nodes \ up}
       /\ UNCHANGED <<msg_received, segment_readers, connected, sent,
                      processed, refused, faults>>

(* The peer manager hands the next wire message of p to the handler of n,  *)
(* and disconnects p when this fails.                                      *)
HandleCustomMessage(n, p) ==
    LET w == Head(wire[p][n])
        out == Handled(segment_readers[n][Entry(p)], w)
    IN /\ wire[p][n] # <<>>
       /\ segment_readers' =
             [segment_readers EXCEPT ![n][Entry(p)] = out.reader]
       /\ msg_received' = [msg_received EXCEPT ![n] = @ \o out.msgs]
       /\ IF out.err THEN Drop(n, p) /\ refused' = refused \cup {Whole(w)}
          ELSE /\ wire' = [wire EXCEPT ![p][n] = Tail(@)]
               /\ UNCHANGED <<connected, lost, refused>>
       /\ UNCHANGED <<msg_events, sent, processed, faults>>

(* get_and_clear_received_messages, of the application.                    *)
GetAndClearReceivedMessages(n) ==
    /\ msg_received[n] # <<>>
    /\ processed' = [processed EXCEPT ![n] = @ \o msg_received[n]]
    /\ msg_received' = [msg_received EXCEPT ![n] = <<>>]
    /\ UNCHANGED <<msg_events, segment_readers, net, sent, lost, refused,
                   faults>>

(* A connection breaks, and is made again.                                 *)
Disconnect(n, p) ==
    /\ Pair(n, p) \in connected
    /\ faults < MaxFaults
    /\ Drop(n, p)
    /\ faults' = faults + 1
    /\ UNCHANGED <<msg_events, msg_received, segment_readers, sent, processed,
                   refused>>

Connect(n, p) ==
    /\ Pair(n, p) \in Links \ connected
    /\ connected' = connected \cup {Pair(n, p)}
    /\ UNCHANGED <<msg_events, msg_received, segment_readers, wire, ghosts>>

(* A node restarts with a new handler: its queues, its readers and its     *)
(* connections are gone.                                                   *)
Restart(n) ==
    /\ msg_events' = [msg_events EXCEPT ![n] = [p \in Nodes |-> <<>>]]
    /\ lost' = lost \cup {m \in {msg_received[n][i] :
                              i \in DOMAIN msg_received[n]} : m # Torn}
                    \cup UNION {Queued(n, p) \cup UnderWay(n, p) \cup UnderWay(p, n) :
                                   p \in Nodes}
    /\ msg_received' = [msg_received EXCEPT ![n] = <<>>]
    /\ segment_readers' =
          [segment_readers EXCEPT ![n] = [p \in Nodes |-> NewReader]]
    /\ connected' = {c \in connected : n \notin c}
    /\ wire' = [p \in Nodes |-> [q \in Nodes |->
                   IF n \in {p, q} THEN <<>> ELSE wire[p][q]]]
    /\ UNCHANGED <<sent, processed, refused>>

Stop(n) ==
    /\ faults < MaxFaults
    /\ faults' = faults + 1
    /\ Restart(n)

(* A plain message does not fit into a frame: the peer manager panics.     *)
Panic(n) ==
    /\ \E p \in Nodes : /\ Pair(n, p) \in connected
                        /\ \E i \in DOMAIN msg_events[n][p] :
                              TooLong(msg_events[n][p][i])
    /\ Restart(n)
    /\ UNCHANGED faults

-----------------------------------------------------------------------------
Init ==
    /\ msg_events = [n \in Nodes |-> [p \in Nodes |-> <<>>]]
    /\ msg_received = [n \in Nodes |-> <<>>]
    /\ segment_readers = [n \in Nodes |-> [p \in Nodes |-> NewReader]]
    /\ connected = Links
    /\ wire = [n \in Nodes |-> [p \in Nodes |-> <<>>]]
    /\ sent = [n \in Nodes |-> 0]
    /\ processed = [n \in Nodes |-> <<>>]
    /\ lost = {}
    /\ refused = {}
    /\ faults = 0

Receive(n) ==
    \/ GetAndClearReceivedMessages(n)
    \/ \E p \in Nodes : HandleCustomMessage(n, p)

Next ==
    \E n \in Nodes :
        \/ \E p \in Nodes, len \in Lens[n] : SendMessage(n, p, len)
        \/ ProcessEvents(n)
        \/ Receive(n)
        \/ \E p \in Nodes : Disconnect(n, p) \/ Connect(n, p)
        \/ Stop(n)
        \/ Panic(n)

(* The event loops of the peer manager and of the application go on.       *)
Fairness ==
    \A n \in Nodes :
        /\ WF_vars(ProcessEvents(n) \/ Panic(n))
        /\ WF_vars(GetAndClearReceivedMessages(n))
        /\ \A p \in Nodes : WF_vars(HandleCustomMessage(n, p))

Spec == Init /\ [][Next]_vars
FairSpec == Spec /\ Fairness
=============================================================================
