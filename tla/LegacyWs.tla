------------------------------ MODULE LegacyWs ------------------------------
(***************************************************************************)
(* The former WebSocket server of the channels: ws/server.ts with the      *)
(* WebSocketManager, the WebSocketMessageRouter and the in-memory channel  *)
(* store it is given.  index.ts no longer starts it.                       *)
(*                                                                         *)
(* Its lookups and updates answer from memory, so a handler runs to its    *)
(* end before the next event.  A socket the server hands over is open      *)
(* already and emits no 'open' again, so startHeartbeat and all it leads   *)
(* to (sendHeartbeat, the failure count) are never reached from here and   *)
(* the retry queue, which nothing fills, stays empty; lastHeartbeat is     *)
(* read there only.  Refused upgrades change nothing.                      *)
(***************************************************************************)
EXTENDS Naturals

CONSTANTS
  Channel,    \* channels the owner may create
  NoChannel,  \* the channel of a socket not accepted yet
  MaxSock     \* bound: accepted sockets

ASSUME LegacyAssumption ==
  /\ MaxSock \in Nat
  /\ NoChannel \notin Channel

VARIABLES
  status,       \* each channel's, "none" before it is created
  lastSock,     \* number of sockets accepted so far
  sock,         \* readyState of each socket, "unused" before it is accepted
  chan,         \* the channel it was accepted for
  conn,         \* the manager's connections: the socket of each entry, or NoSock
  entryStatus,  \* status of the WebSocketState made for each socket
  wsConnections,\* the router's sets
  badFrames,    \* history: sockets closed with 4004 that had sent nothing invalid
  lastClosed    \* history: lastSock when a socket of the channel last closed

vars == <<status, lastSock, sock, chan, conn, entryStatus, wsConnections,
          badFrames, lastClosed>>

Sock   == 1..MaxSock
NoSock == 0

ChannelStatus    == {"none", "registered", "connected", "disconnected", "disabled", "deleted"}
ConnectionStatus == {"none", "connecting", "heartbeat_ok", "disconnected", "error"}

Init ==
  /\ status = [c \in Channel |-> "none"]
  /\ lastSock = 0
  /\ sock = [s \in Sock |-> "unused"]
  /\ chan = [s \in Sock |-> NoChannel]
  /\ conn = [c \in Channel |-> NoSock]
  /\ entryStatus = [s \in Sock |-> "none"]
  /\ wsConnections = [c \in Channel |-> {}]
  /\ badFrames = {}
  /\ lastClosed = [c \in Channel |-> 0]

-----------------------------------------------------------------------------
Stored(c) == status[c] \notin {"none", "deleted"}

(* updateStatus does nothing for a channel the store does not have. *)
UpdateStatus(c, st) == status' = [status EXCEPT ![c] = IF Stored(c) THEN st ELSE @]

(* The owner of the store creates, disables and deletes channels.  An id is *)
(* made of the clock and a random number and never comes back.              *)
OwnerWrites(c, st) ==
  /\ \/ status[c] = "none" /\ st = "registered"
     \/ Stored(c) /\ st \in {"disabled", "deleted"}
  /\ status' = [status EXCEPT ![c] = st]
  /\ UNCHANGED <<lastSock, sock, chan, conn, entryStatus, wsConnections, badFrames, lastClosed>>

-----------------------------------------------------------------------------
(* Mutant: a socket that is still in the map is kept there. *)
MutantHandleConnection(c) ==
  LET s == lastSock + 1 IN
  /\ lastSock < MaxSock
  /\ Stored(c) /\ status[c] # "disabled"
  /\ UpdateStatus(c, "connected")
  /\ lastSock' = s
  /\ sock' = [sock EXCEPT ![s] = "open"]
  /\ chan' = [chan EXCEPT ![s] = c]
  /\ conn' = [conn EXCEPT ![c] = IF @ = NoSock THEN s ELSE @]
  /\ entryStatus' = [entryStatus EXCEPT ![s] = "connecting"]
  /\ wsConnections' = [wsConnections EXCEPT ![c] = @ \cup {s}]
  /\ UNCHANGED <<badFrames, lastClosed>>

(* The manager keeps one socket per channel, the newest, and the router all. *)
HandleConnection(c) ==
  LET s == lastSock + 1 IN
  /\ lastSock < MaxSock
  /\ Stored(c) /\ status[c] # "disabled"
  /\ UpdateStatus(c, "connected")
  /\ lastSock' = s
  /\ sock' = [sock EXCEPT ![s] = "open"]
  /\ chan' = [chan EXCEPT ![s] = c]
  /\ conn' = [conn EXCEPT ![c] = s]
  /\ entryStatus' = [entryStatus EXCEPT ![s] = "connecting"]
  /\ wsConnections' = [wsConnections EXCEPT ![c] = @ \cup {s}]
  /\ UNCHANGED <<badFrames, lastClosed>>

(* Mutant: a heartbeat is taken for invalid unless the entry is its own.    *)
MutantHeartbeat(s) ==
  LET c == chan[s] IN
  /\ sock[s] \in {"open", "closing"}
  /\ IF conn[c] = s
     THEN /\ entryStatus' = [entryStatus EXCEPT ![conn[c]] = "heartbeat_ok"]
          /\ UNCHANGED <<sock, badFrames>>
     ELSE /\ sock' = [sock EXCEPT ![s] = "closing"]
          /\ badFrames' = badFrames \cup {s}
          /\ UNCHANGED entryStatus
  /\ UNCHANGED <<status, lastSock, chan, conn, wsConnections, lastClosed>>

(* A heartbeat of any socket counts for the socket of the channel's entry,  *)
(* whose status it sets (to what it names, here always 'heartbeat_ok').     *)
(* Where there is no entry the manager's listener returns and the server's  *)
(* throws, which it takes for an invalid frame.  A socket that the server   *)
(* is closing still reads what the client sent before it noticed.           *)
Heartbeat(s) ==
  LET c == chan[s] IN
  /\ sock[s] \in {"open", "closing"}
  /\ IF conn[c] # NoSock
     THEN /\ entryStatus' = [entryStatus EXCEPT ![conn[c]] = "heartbeat_ok"]
          /\ UNCHANGED <<sock, badFrames>>
     ELSE /\ sock' = [sock EXCEPT ![s] = "closing"]
          /\ badFrames' = badFrames \cup {s}
          /\ UNCHANGED entryStatus
  /\ UNCHANGED <<status, lastSock, chan, conn, wsConnections, lastClosed>>

(* The client leaves, or sends what is no JSON and is closed with 4004. *)
Leaves(s) ==
  /\ sock[s] = "open"
  /\ sock' = [sock EXCEPT ![s] = "closing"]
  /\ UNCHANGED <<status, lastSock, chan, conn, entryStatus, wsConnections,
                 badFrames, lastClosed>>

ErrorEvent(s) ==
  /\ sock[s] = "closing"
  /\ entryStatus' = [entryStatus EXCEPT ![s] = "error"]
  /\ UNCHANGED <<status, lastSock, sock, chan, conn, wsConnections,
                 badFrames, lastClosed>>

Unregister(c, s) == wsConnections' = [wsConnections EXCEPT ![c] = @ \ {s}]

(* Mutant: the entry stays, emptied. *)
MutantEmptyConnection(c, s) == conn' = [conn EXCEPT ![c] = NoChannel]

(* The entry of the channel goes, whichever socket it is for. *)
RemoveConnection(c, s) == conn' = [conn EXCEPT ![c] = NoSock]

(* The manager's 'close' listener and then the server's. *)
CloseEvent(s) ==
  LET c == chan[s] IN
  /\ sock[s] = "closing"
  /\ sock' = [sock EXCEPT ![s] = "closed"]
  /\ entryStatus' = [entryStatus EXCEPT ![s] = "disconnected"]
  /\ RemoveConnection(c, s)
  /\ Unregister(c, s)
  /\ UpdateStatus(c, "disconnected")
  /\ lastClosed' = [lastClosed EXCEPT ![c] = lastSock]
  /\ UNCHANGED <<lastSock, chan, badFrames>>

Next ==
  \/ \E c \in Channel : \/ HandleConnection(c)
                      \/ \E st \in {"registered", "disabled", "deleted"} : OwnerWrites(c, st)
  \/ \E s \in Sock : Heartbeat(s) \/ Leaves(s) \/ ErrorEvent(s) \/ CloseEvent(s)

Spec == Init /\ [][Next]_vars

-----------------------------------------------------------------------------
LegacyTypeOK ==
  /\ status \in [Channel -> ChannelStatus]
  /\ lastSock \in 0..MaxSock
  /\ sock \in [Sock -> {"unused", "open", "closing", "closed"}]
  /\ chan \in [Sock -> Channel \cup {NoChannel}]
  /\ conn \in [Channel -> Sock \cup {NoSock}]
  /\ entryStatus \in [Sock -> ConnectionStatus]
  /\ wsConnections \in [Channel -> SUBSET Sock]
  /\ badFrames \subseteq Sock
  /\ lastClosed \in [Channel -> 0..MaxSock]

(* The router holds every socket of a channel until its close event. *)
RouterHoldsLive ==
  \A c \in Channel, s \in Sock :
    s \in wsConnections[c] <=> chan[s] = c /\ sock[s] \in {"open", "closing"}

(* The manager's entry is the channel's newest socket and not a dead one;   *)
(* it is missing only if a socket of the channel closed since that one      *)
(* connected.                                                               *)
EntryIsNewest ==
  \A c \in Channel :
    /\ conn[c] # NoSock => chan[conn[c]] = c /\ sock[conn[c]] \in {"open", "closing"}
    /\ \A s \in Sock : chan[s] = c /\ (conn[c] # NoSock \/ s > lastClosed[c]) => s <= conn[c]

(* The stored status is 'connected' while there is an entry to send to, but *)
(* for what the owner wrote.                                                *)
StatusFollowsEntry ==
  \A c \in Channel :
    /\ status[c] = "connected" => conn[c] # NoSock
    /\ conn[c] # NoSock => status[c] \in {"connected", "disabled", "deleted"}

(* The three records of a channel's sockets (store, manager, router) agree  *)
(* whatever sockets replace one another and close, in any order; where they *)
(* differ the reason is a close after the newest socket connected.          *)
RecordsAgree == RouterHoldsLive /\ EntryIsNewest /\ StatusFollowsEntry

(* A socket whose heartbeat was taken for an invalid frame was connected    *)
(* when another socket of its channel closed.                               *)
BlamedAfterClose == \A s \in badFrames : s <= lastClosed[chan[s]]
=============================================================================
