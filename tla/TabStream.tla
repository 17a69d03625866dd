------------------------------ MODULE TabStream ------------------------------
(***************************************************************************)
(* A streamed reply on its way to the tabs: the handlers of StreamRelay    *)
(* keep its pieces and pass them to SseManager in the same synchronous     *)
(* stretch (http/server.ts:1198-1205 and 1226-1254), and SseManager numbers*)
(* the frames, keeps the chunks and replays them to tabs that come back.   *)
(* The `done' event, which carries the joined text, is not kept.           *)
(*                                                                         *)
(* The tab is external and is taken at the word of the comment on `done'   *)
(* (server.ts:1253): it shows the pieces of a reply in the order of their  *)
(* numbers and, at `done', the text it brings.                             *)
(***************************************************************************)
EXTENDS SseManager

CONSTANTS
  ChannelOf,  \* the channel whose plugin sends a reply
  MaxSeqNo,   \* bound: the plugin's numbers of pieces
  MaxLog      \* bound: requests of the plugin, and restarts

ASSUME TabAssumption ==
  /\ ChannelOf \in [MessageId -> Channel]
  /\ MaxSeqNo \in Nat /\ MaxLog \in Nat

VARIABLES
  streamChunkBuffer, rows, saved, relayLog,  \* StreamRelay's, relayLog its log
  item,    \* history: the entry of relayLog a frame of this process carries
  shown    \* what a tab shows of each reply: a piece by number

Relay == INSTANCE StreamRelay WITH log <- relayLog

relay == <<streamChunkBuffer, rows, saved, relayLog>>
tabVars == <<sseVars, relay, item, shown>>

Nothing == [q \in Relay!SeqNo |-> Relay!NoChunk]
NoItem  == 0

TabInit ==
  /\ SseInit
  /\ Relay!StreamInit
  /\ item = [n \in Seqs |-> NoItem]
  /\ shown = [k \in Client |-> [m \in MessageId |-> Nothing]]

(* The frame broadcast now carries what the relay handled now. *)
Carries == item' = [item EXCEPT ![seqCounter] = Len(relayLog')]

(* Mutant: a piece is sent to the tabs without its buffer key. *)
MutantStreamChunk(m, q) ==
  /\ Relay!HandleStreamChunk(m, q)
  /\ BroadcastEvent(ChannelOf[m])
  /\ Carries
  /\ UNCHANGED shown

(* handleStreamChunk: keep the piece, broadcast it under its reply's key.   *)
StreamChunk(m, q) ==
  /\ Relay!HandleStreamChunk(m, q)
  /\ BroadcastChunk(ChannelOf[m], m)
  /\ Carries
  /\ UNCHANGED shown

(* handleStreamDone: join and store the pieces, broadcast the whole.        *)
StreamDone(m, result) ==
  /\ Relay!HandleStreamDone(m, result)
  /\ BroadcastEvent(ChannelOf[m])
  /\ Carries
  /\ UNCHANGED shown

(* The text after an entry of the relay's log, for someone showing `text'. *)
After(text, i) ==
  LET e == relayLog[i] IN
  IF e.op = "chunk" THEN [text EXCEPT ![e.seq] = i]
  ELSE [q \in Relay!SeqNo |->
          LET same == {p \in Range(e.content) : relayLog[p].seq = q}
          IN IF same = {} THEN Relay!NoChunk ELSE CHOOSE p \in same : TRUE]

(* The tab processes the next frame; frames without an item are no part of  *)
(* a reply.                                                                 *)
TabReceive(k) ==
  /\ Receive(k)
  /\ LET i == item[Head(wire[k]).seq] IN
       shown' = IF i = NoItem THEN shown
                ELSE [shown EXCEPT ![k][relayLog[i].msg] = After(@, i)]
  /\ UNCHANGED <<relay, item>>

(* The server's and the network's steps that concern no reply. *)
SseOnly ==
  /\ \/ \E k \in Client : AddConnection(k) \/ Disconnect(k)
     \/ \E conn \in conns : RemoveConnection(conn)
     \/ \E c \in Channel : BroadcastEvent(c)
     \/ \E cutoff \in 0..MaxSeq : SendHeartbeat(cutoff)
     \/ BroadcastGlobal
  /\ UNCHANGED <<relay, item, shown>>

(* Both buffers are in memory; the tabs stay on the screen. *)
RestartTab ==
  /\ RestartSse
  /\ Relay!RestartStream
  /\ item' = [n \in Seqs |-> NoItem]
  /\ UNCHANGED shown

TabNext ==
  \/ \E m \in MessageId : \/ \E q \in Relay!SeqNo : StreamChunk(m, q)
                          \/ \E result \in Relay!Result : StreamDone(m, result)
  \/ \E k \in Client : TabReceive(k)
  \/ SseOnly
  \/ RestartTab

TabSpec == TabInit /\ [][TabNext]_tabVars

-----------------------------------------------------------------------------
TabTypeOK ==
  /\ SseTypeOK
  /\ Relay!StreamTypeOK
  /\ item \in [Seqs -> 0..Len(relayLog)]
  /\ shown \in [Client -> [MessageId -> [Relay!SeqNo -> 0..Len(relayLog)]]]

Entries(m) == {i \in 1..Len(relayLog) : relayLog[i].op # "restart" /\ relayLog[i].msg = m}

(* The plugin behaved: the reply is pieces and then at most one `done'.     *)
WellStreamed(m) == \A i, j \in Entries(m) : i < j => relayLog[i].op = "chunk"

(* The tab has been following since before the first piece: this process    *)
(* broadcast all of the reply, and no piece of it was given up.             *)
Followed(k, m) ==
  /\ start[k] # None
  /\ \A i \in Entries(m) : \E n \in Seqs : item[n] = i /\ start[k] <= n /\ n \notin expired

Text(m) == [q \in Relay!SeqNo |->
              LET same == {i \in Entries(m) : relayLog[i].op = "chunk" /\ relayLog[i].seq = q}
              IN IF same = {} THEN Relay!NoChunk
                 ELSE CHOOSE i \in same : \A j \in same : j <= i]

(* A tab that has processed all its connection was sent shows the text of   *)
(* the reply as far as the plugin has sent it, whatever breaks came between, *)
(* the `done' lost in one of them included: the pieces replayed make up for *)
(* it, because a reply's chunks stay buffered past its `done'.              *)
TabShowsReply ==
  \A k \in Client, m \in MessageId :
    /\ SlotOf[k] = ChannelOf[m] /\ WellStreamed(m) /\ Followed(k, m)
    /\ [seq |-> link[k], client |-> k] \in conns /\ wire[k] = << >>
    => shown[k][m] = Text(m)
=============================================================================
