----------------------------- MODULE SseManager -----------------------------
(***************************************************************************)
(* The Server-Sent Events side of the hub: http/sseManager.ts, reached     *)
(* through router/sseRouter.ts.  A client follows one slot, a channel or   *)
(* the global stream.  Every frame carries an id drawn from one counter;   *)
(* chunks of streamed replies are also kept in a rolling buffer, and a     *)
(* client that reconnects with the last id it saw is sent what is newer.   *)
(*                                                                         *)
(* A connection is named by the value of conn.seq, drawn from the same     *)
(* counter.  The client's side is an EventSource: frames of one connection *)
(* arrive in order, those still under way are lost when it breaks, and the *)
(* browser reconnects with the id of the last frame it processed.          *)
(*                                                                         *)
(* Time enters only as the choice of the heartbeat's cutoff (the clock is  *)
(* taken not to go back, so it keeps a newest part of each buffer), and    *)
(* refused requests and frame formatting are left out.                     *)
(***************************************************************************)
EXTENDS Naturals, Sequences, FiniteSets, SequencesExt, Sorting

CONSTANTS
  Channel,           \* channel ids
  Global,            \* the slot 'global'
  Client,            \* browser tabs
  SlotOf,            \* the slot each client follows
  MessageId,         \* messageIds of streamed replies, the buffer's keys
  MaxBufferEntries,  \* MAX_BUFFER_ENTRIES per key
  MaxSeq,            \* bound: values drawn from the counter
  None               \* no connection, no id

ASSUME SseAssumption ==
  /\ Global \notin Channel
  /\ SlotOf \in [Client -> Channel \cup {Global}]
  /\ MaxBufferEntries \in Nat \ {0}
  /\ MaxSeq \in Nat
  /\ None \notin Nat

VARIABLES
  seqCounter,   \* next id
  conns,        \* the connections map: [seq, client]
  chunkBuffer,  \* buffered chunks: [seq, key, slot], slot being the data's
  link,         \* the connection a client reads from, or None
  wire,         \* frames under way to each client
  lastId,       \* the browser's last event id
  log,          \* history: chunks broadcast by the running process
  expired,      \* history: ids of chunks the buffer gave up
  start,        \* history: id of the first frame got from this process
  got           \* history: ids of this process's chunks each client got

server  == <<seqCounter, conns, chunkBuffer>>
client  == <<link, wire, lastId>>
history == <<log, expired, start, got>>
sseVars == <<server, client, history>>

Slot  == Channel \cup {Global}
Seqs  == 0..(MaxSeq - 1)
Frame == [seq : Seqs, kind : {"chunk", "other"}, slot : Slot]
Entry == [seq : Seqs, key : MessageId, slot : Channel]

-----------------------------------------------------------------------------
SseInit ==
  /\ seqCounter = 0
  /\ conns = {} /\ chunkBuffer = {}
  /\ link = [k \in Client |-> None]
  /\ wire = [k \in Client |-> << >>]
  /\ lastId = [k \in Client |-> None]
  /\ log = {} /\ expired = {}
  /\ start = [k \in Client |-> None]
  /\ got = [k \in Client |-> {}]

NextSeq == seqCounter < MaxSeq /\ seqCounter' = seqCounter + 1

(* Chunks of every buffer key newer than the id the browser sent. *)
MissedChunks(k) ==
  IF SlotOf[k] = Global \/ lastId[k] = None THEN {}
  ELSE {e \in chunkBuffer : e.seq > lastId[k]}

(* replayMissedChunks: formatted again, in the order of their ids. *)
ReplayMissedChunks(k) ==
  Sorted({[seq |-> e.seq, kind |-> "chunk", slot |-> e.slot] : e \in MissedChunks(k)},
         LAMBDA f, g : f.seq < g.seq)

(* A browser opens the event stream; the global route ignores its last id. *)
AddConnection(k) ==
  /\ link[k] = None
  /\ NextSeq
  /\ conns' = conns \cup {[seq |-> seqCounter, client |-> k]}
  /\ link' = [link EXCEPT ![k] = seqCounter]
  /\ wire' = [wire EXCEPT ![k] = ReplayMissedChunks(k)]
  /\ UNCHANGED <<chunkBuffer, lastId, history>>

(* The response's close event removes the connection with that id. *)
RemoveConnection(conn) ==
  /\ conn \in conns
  /\ link[conn.client] # conn.seq
  /\ conns' = conns \ {conn}
  /\ UNCHANGED <<seqCounter, chunkBuffer, client, history>>

(* Write a frame to the connections of some slots.  What is written to a    *)
(* connection its client has already left goes nowhere.                     *)
WriteFrame(frame, slots) ==
  wire' = [k \in Client |->
             IF SlotOf[k] \in slots /\ [seq |-> link[k], client |-> k] \in conns
             THEN Append(wire[k], frame) ELSE wire[k]]

(* Mutant: the buffer is keyed by the channel. *)
MutantAddToBuffer(entry) ==
  /\ chunkBuffer' = chunkBuffer \cup {[entry EXCEPT !.key = entry.slot]}
  /\ UNCHANGED expired

(* addToBuffer: push, then shift the key's oldest entry beyond the limit. *)
AddToBuffer(entry) ==
  LET buf  == {e \in chunkBuffer : e.key = entry.key}
      gone == IF Cardinality(buf) < MaxBufferEntries THEN {}
              ELSE {CHOOSE e \in buf : \A f \in buf : e.seq <= f.seq}
  IN /\ chunkBuffer' = (chunkBuffer \ gone) \cup {entry}
     /\ expired' = expired \cup {e.seq : e \in gone}

(* Mutant: without a subscriber nothing is buffered. *)
MutantBroadcastChunk(c, m) ==
  /\ NextSeq
  /\ IF \E k \in Client : SlotOf[k] = c /\ [seq |-> link[k], client |-> k] \in conns
     THEN AddToBuffer([seq |-> seqCounter, key |-> m, slot |-> c])
     ELSE UNCHANGED <<chunkBuffer, expired>>
  /\ WriteFrame([seq |-> seqCounter, kind |-> "chunk", slot |-> c], {c})
  /\ log' = log \cup {[seq |-> seqCounter, slot |-> c]}
  /\ UNCHANGED <<conns, link, lastId, start, got>>

(* broadcast with a buffer key: a chunk of reply m on channel c. *)
BroadcastChunk(c, m) ==
  /\ NextSeq
  /\ AddToBuffer([seq |-> seqCounter, key |-> m, slot |-> c])
  /\ WriteFrame([seq |-> seqCounter, kind |-> "chunk", slot |-> c], {c})
  /\ log' = log \cup {[seq |-> seqCounter, slot |-> c]}
  /\ UNCHANGED <<conns, link, lastId, start, got>>

(* broadcast without one: done, channel_status; nothing is buffered. *)
BroadcastEvent(c) ==
  /\ NextSeq
  /\ WriteFrame([seq |-> seqCounter, kind |-> "other", slot |-> c], {c})
  /\ UNCHANGED <<conns, chunkBuffer, link, lastId, history>>

BroadcastGlobal ==
  /\ NextSeq
  /\ WriteFrame([seq |-> seqCounter, kind |-> "other", slot |-> Global], Slot)
  /\ UNCHANGED <<conns, chunkBuffer, link, lastId, history>>

(* sendHeartbeat writes to everyone and drops the chunks older than 60 s. *)
SendHeartbeat(cutoff) ==
  LET old == {e \in chunkBuffer : e.seq < cutoff} IN
  /\ NextSeq
  /\ WriteFrame([seq |-> seqCounter, kind |-> "other", slot |-> Global], Slot)
  /\ chunkBuffer' = chunkBuffer \ old
  /\ expired' = expired \cup {e.seq : e \in old}
  /\ UNCHANGED <<conns, link, lastId, log, start, got>>

(* The browser processes the next frame of its connection. *)
Receive(k) ==
  /\ wire[k] # << >>
  /\ LET f == Head(wire[k]) IN
       /\ lastId' = [lastId EXCEPT ![k] = f.seq]
       /\ start' = [start EXCEPT ![k] = IF @ = None THEN f.seq ELSE @]
       /\ got' = [got EXCEPT ![k] = IF f.kind = "chunk" THEN @ \cup {f.seq} ELSE @]
  /\ wire' = [wire EXCEPT ![k] = Tail(@)]
  /\ UNCHANGED <<server, link, log, expired>>

(* The connection breaks; the server's side of it may linger. *)
Disconnect(k) ==
  /\ link[k] # None
  /\ link' = [link EXCEPT ![k] = None]
  /\ wire' = [wire EXCEPT ![k] = << >>]
  /\ UNCHANGED <<server, lastId, history>>

(* The process restarts: counter, buffers and connections start over.       *)
RestartSse ==
  /\ seqCounter' = 0
  /\ conns' = {} /\ chunkBuffer' = {}
  /\ link' = [k \in Client |-> None]
  /\ wire' = [k \in Client |-> << >>]
  /\ log' = {} /\ expired' = {}
  /\ start' = [k \in Client |-> None]
  /\ got' = [k \in Client |-> {}]
  /\ UNCHANGED lastId

SseNext ==
  \/ \E k \in Client : AddConnection(k) \/ Receive(k) \/ Disconnect(k)
  \/ \E conn \in conns : RemoveConnection(conn)
  \/ \E c \in Channel : BroadcastEvent(c) \/ \E m \in MessageId : BroadcastChunk(c, m)
  \/ \E cutoff \in 0..MaxSeq : SendHeartbeat(cutoff)
  \/ BroadcastGlobal
  \/ RestartSse

SseSpec == SseInit /\ [][SseNext]_sseVars

-----------------------------------------------------------------------------
SseTypeOK ==
  /\ seqCounter \in 0..MaxSeq
  /\ conns \subseteq [seq : Seqs, client : Client]
  /\ chunkBuffer \subseteq Entry
  /\ link \in [Client -> Seqs \cup {None}]
  /\ wire \in [Client -> Seq(Frame)]
  /\ lastId \in [Client -> Seqs \cup {None}]
  /\ log \subseteq [seq : Seqs, slot : Channel]
  /\ expired \subseteq Seqs
  /\ start \in [Client -> Seqs \cup {None}]
  /\ got \in [Client -> SUBSET Seqs]

(* The promise in the abstract: a resumable feed of the channel's chunks.   *)
Own(k) == {e.seq : e \in {f \in log : f.slot = SlotOf[k]}}
Feed == INSTANCE ResumableFeed WITH
          Follower <- Client,
          feed     <- [k \in Client |-> Own(k)],
          seen     <- [k \in Client |-> got[k] \cap Own(k)]
FeedSpec == Feed!FeedSpec
=============================================================================
