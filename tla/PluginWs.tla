------------------------------ MODULE PluginWs ------------------------------
(***************************************************************************)
(* The plugin side of the hub: ws/pluginWsServer.ts keeps, per channel,    *)
(* the one WebSocket a plugin uses, and derives from its life the          *)
(* plugin_status column of the channel (db/channelStore.ts) that the       *)
(* frontends are shown.                                                    *)
(*                                                                         *)
(* A socket is the number of its accepted upgrade, so a smaller number is  *)
(* an older connection.  The close event of a socket fires once and arms   *)
(* one 30 s offline timer, so the timer carries the number of the socket   *)
(* that armed it.  Time is left out: any armed timer may fire next, which   *)
(* adds the behaviours where a younger timer overtakes an older one.       *)
(*                                                                         *)
(* Left out: refused upgrades (they change no state), logging, and the     *)
(* broadcasts of each status, which repeat the value written to the DB.    *)
(* The replay of queued items on connect is added by PluginReplay.         *)
(***************************************************************************)
EXTENDS Naturals

CONSTANTS
  Channel,      \* channel ids
  NoChannel,    \* the channel of a socket not accepted yet
  MaxSock       \* bound: accepted plugin sockets

ASSUME BoundsAssumption ==
  /\ MaxSock \in Nat
  /\ NoChannel \notin Channel

VARIABLES
  registered,   \* channels with a row in the channels table
  pluginStatus, \* their plugin_status column, on disk
  lastSock,     \* number of sockets accepted so far
  sock,         \* readyState of each socket, "unused" before it is accepted
  chan,         \* the channel a socket authenticated for
  conn,         \* the connections map: ws of each channel, or NoSock
  entryTimer,   \* offlineTimer of the map entry, or NoTimer
  timers,       \* armed offline timers of each channel
  bootSock      \* lastSock when the running process started

vars == <<registered, pluginStatus, lastSock, sock, chan, conn, entryTimer,
          timers, bootSock>>

Sock    == 1..MaxSock
NoSock  == 0
NoTimer == 0

Status     == {"online", "reconnecting", "offline"}
ReadyState == {"unused", "open", "closing", "closed"}

-----------------------------------------------------------------------------
Init ==
  /\ registered = Channel
  /\ pluginStatus = [c \in Channel |-> "offline"]
  /\ lastSock = 0
  /\ sock = [s \in Sock |-> "unused"]
  /\ chan = [s \in Sock |-> NoChannel]
  /\ conn = [c \in Channel |-> NoSock]
  /\ entryTimer = [c \in Channel |-> NoTimer]
  /\ timers = [c \in Channel |-> {}]
  /\ bootSock = 0

(* UPDATE ... WHERE id = ?: nothing happens when the row is gone. *)
UpdatePluginStatus(c, status) ==
  pluginStatus' = [pluginStatus EXCEPT
                     ![c] = IF c \in registered THEN status ELSE @]

(* close(4000) moves an OPEN socket to CLOSING; its close event comes later. *)
CloseReplaced(c) ==
  [s \in Sock |-> IF s = conn[c] /\ sock[s] = "open" THEN "closing" ELSE sock[s]]

(* clearTimeout of the timer the map entry remembers, and of no other. *)
CleanupConnection(c) ==
  /\ timers' = [timers EXCEPT ![c] = @ \ {entryTimer[c]}]
  /\ entryTimer' = [entryTimer EXCEPT ![c] = NoTimer]

(* Mutant: an existing entry is kept instead of replaced. *)
MutantHandleConnection(c) ==
  /\ lastSock < MaxSock
  /\ c \in registered
  /\ lastSock' = lastSock + 1
  /\ chan' = [chan EXCEPT ![lastSock'] = c]
  /\ sock' = [sock EXCEPT ![lastSock'] = "open"]
  /\ CleanupConnection(c)
  /\ conn' = [conn EXCEPT ![c] = IF @ = NoSock THEN lastSock' ELSE @]
  /\ UpdatePluginStatus(c, "online")
  /\ UNCHANGED <<registered, bootSock>>

(* A plugin connects with the token of channel c. *)
HandleConnection(c) ==
  /\ lastSock < MaxSock
  /\ c \in registered
  /\ lastSock' = lastSock + 1
  /\ chan' = [chan EXCEPT ![lastSock'] = c]
  /\ sock' = [CloseReplaced(c) EXCEPT ![lastSock'] = "open"]
  /\ CleanupConnection(c)
  /\ conn' = [conn EXCEPT ![c] = lastSock']
  /\ UpdatePluginStatus(c, "online")
  /\ UNCHANGED <<registered, bootSock>>

(* The plugin closes the socket, or the network breaks it. *)
PeerCloses(s) ==
  /\ sock[s] = "open"
  /\ sock' = [sock EXCEPT ![s] = "closing"]
  /\ UNCHANGED <<registered, pluginStatus, lastSock, chan, conn, entryTimer,
                 timers, bootSock>>

(* Mutant: the close of a socket does not reach the database. *)
MutantCloseSilent(s) ==
  /\ sock[s] = "closing"
  /\ sock' = [sock EXCEPT ![s] = "closed"]
  /\ timers' = [timers EXCEPT ![chan[s]] = @ \cup {s}]
  /\ entryTimer' = IF conn[chan[s]] = NoSock THEN entryTimer
                   ELSE [entryTimer EXCEPT ![chan[s]] = s]
  /\ UNCHANGED <<registered, pluginStatus, lastSock, chan, conn, bootSock>>

(* Mutant: the timer is armed only when the map has an entry to keep it.    *)
MutantCloseNoTimer(s) ==
  /\ sock[s] = "closing"
  /\ sock' = [sock EXCEPT ![s] = "closed"]
  /\ UpdatePluginStatus(chan[s], "reconnecting")
  /\ IF conn[chan[s]] = NoSock THEN UNCHANGED <<timers, entryTimer>>
     ELSE /\ timers' = [timers EXCEPT ![chan[s]] = @ \cup {s}]
          /\ entryTimer' = [entryTimer EXCEPT ![chan[s]] = s]
  /\ UNCHANGED <<registered, lastSock, chan, conn, bootSock>>

(* The 'close' event.  The handler asks the map for the channel's current  *)
(* entry, which may belong to a newer socket than the one that closed.     *)
CloseEvent(s) ==
  /\ sock[s] = "closing"
  /\ sock' = [sock EXCEPT ![s] = "closed"]
  /\ UpdatePluginStatus(chan[s], "reconnecting")
  /\ timers' = [timers EXCEPT ![chan[s]] = @ \cup {s}]
  /\ entryTimer' = IF conn[chan[s]] = NoSock THEN entryTimer
                   ELSE [entryTimer EXCEPT ![chan[s]] = s]
  /\ UNCHANGED <<registered, lastSock, chan, conn, bootSock>>

(* Mutant: the expired timer leaves the map entry in place. *)
MutantTimerKeepsEntry(c, t) ==
  /\ t \in timers[c]
  /\ timers' = [timers EXCEPT ![c] = @ \ {t}]
  /\ UpdatePluginStatus(c, "offline")
  /\ UNCHANGED <<registered, lastSock, sock, chan, conn, entryTimer, bootSock>>

(* Mutant: nothing happens on expiry when the map has no entry any more.    *)
MutantTimerNeedsEntry(c, t) ==
  /\ t \in timers[c]
  /\ timers' = [timers EXCEPT ![c] = @ \ {t}]
  /\ IF conn[c] = NoSock THEN UNCHANGED pluginStatus
     ELSE UpdatePluginStatus(c, "offline")
  /\ conn' = [conn EXCEPT ![c] = NoSock]
  /\ entryTimer' = [entryTimer EXCEPT ![c] = NoTimer]
  /\ UNCHANGED <<registered, lastSock, sock, chan, bootSock>>

(* An armed timer expires: the channel is declared offline and forgotten. *)
OfflineTimer(c, t) ==
  /\ t \in timers[c]
  /\ timers' = [timers EXCEPT ![c] = @ \ {t}]
  /\ UpdatePluginStatus(c, "offline")
  /\ conn' = [conn EXCEPT ![c] = NoSock]
  /\ entryTimer' = [entryTimer EXCEPT ![c] = NoTimer]
  /\ UNCHANGED <<registered, lastSock, sock, chan, bootSock>>

(* DELETE /channels/:id drops the row and leaves the plugin's socket alone. *)
DeleteChannel(c) ==
  /\ c \in registered
  /\ registered' = registered \ {c}
  /\ UNCHANGED <<pluginStatus, lastSock, sock, chan, conn, entryTimer, timers,
                 bootSock>>

(* The process dies and starts again: only the database survives. *)
Restart ==
  /\ bootSock' = lastSock
  /\ sock' = [s \in Sock |-> IF sock[s] = "unused" THEN "unused" ELSE "closed"]
  /\ conn' = [c \in Channel |-> NoSock]
  /\ entryTimer' = [c \in Channel |-> NoTimer]
  /\ timers' = [c \in Channel |-> {}]
  /\ UNCHANGED <<registered, pluginStatus, lastSock, chan>>

Next ==
  \/ \E c \in Channel : HandleConnection(c) \/ DeleteChannel(c)
  \/ \E c \in Channel, t \in Sock : OfflineTimer(c, t)
  \/ \E s \in Sock : PeerCloses(s) \/ CloseEvent(s)
  \/ Restart

(* The event loop delivers pending close events and expired timers; nothing *)
(* obliges a plugin to connect, to leave, or an operator to delete.         *)
Fairness ==
  /\ \A s \in Sock : WF_vars(CloseEvent(s))
  /\ \A c \in Channel : WF_vars(\E t \in Sock : OfflineTimer(c, t))

Spec == Init /\ [][Next]_vars /\ Fairness

-----------------------------------------------------------------------------
TypeOK ==
  /\ registered \subseteq Channel
  /\ pluginStatus \in [Channel -> Status]
  /\ lastSock \in 0..MaxSock
  /\ sock \in [Sock -> ReadyState]
  /\ chan \in [Sock -> Channel \cup {NoChannel}]
  /\ conn \in [Channel -> Sock \cup {NoSock}]
  /\ entryTimer \in [Channel -> Sock \cup {NoTimer}]
  /\ timers \in [Channel -> SUBSET Sock]
  /\ bootSock \in 0..MaxSock

(* A plugin of channel c has connected to the process now running. *)
Fresh(c) == \E s \in Sock : s > bootSock /\ chan[s] = c

(* types.ts:58: plugin_status is the live connection status.  A channel     *)
(* shown online has a map entry whose close event is still to come, if its  *)
(* plugin connected since the process started (nothing resets the column at *)
(* start-up): every path that takes the entry away or handles the end of    *)
(* its socket has moved the column on, whichever socket and timer it is for. *)
LiveEntry(c) == conn[c] # NoSock /\ sock[conn[c]] \in {"open", "closing"}
OnlineIsLiveOnceFresh ==
  \A c \in registered :
    Fresh(c) /\ pluginStatus[c] = "online" => LiveEntry(c)

(* A channel shown offline is not pushed to: the column and the map agree   *)
(* even when timers of several generations of sockets are pending.          *)
OfflineIsUnreachable ==
  \A c \in registered : pluginStatus[c] = "offline" => conn[c] = NoSock

(* "reconnecting" is never a dead end: an offline timer is always pending,  *)
(* although a reconnect cancels a timer and later closes overwrite the one  *)
(* the map entry remembers.                                                 *)
ReconnectingHasTimer ==
  \A c \in registered :
    Fresh(c) /\ pluginStatus[c] = "reconnecting" => timers[c] # {}

(* Whatever the order of closes, timers and reconnects, the map never goes  *)
(* back to an older socket: frames are pushed to the newest or to none.     *)
PushGoesToNewest ==
  \A s \in Sock, c \in Channel :
    chan[s] = c /\ conn[c] # NoSock => s <= conn[c]

(* Once a channel has no socket left to close, it ends up offline, unless   *)
(* a restart lost the timers that would take it there.                      *)
NoSocketLeft(c) == \A s \in Sock : chan[s] = c => sock[s] = "closed"
GoneGoesOffline ==
  \A c \in Channel :
    <>[](NoSocketLeft(c) /\ c \in registered /\ Fresh(c))
      => <>[](pluginStatus[c] = "offline")

(* pluginWsServer.ts:11-12: a channel goes offline after its plugin has     *)
(* disconnected and stayed away.                                            *)
OfflineMeansDisconnected ==
  \A s \in Sock :
    sock[s] = "open" /\ chan[s] \in registered => pluginStatus[chan[s]] # "offline"
=============================================================================
