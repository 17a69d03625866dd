------------------------------ MODULE Frontend ------------------------------
(***************************************************************************)
(* The tabs of the web frontend and what they are pushed: ws/broadcaster.ts *)
(* keeps, per channel, the sockets that subscribed; the plugin side        *)
(* (PluginWs) broadcasts each status it writes, and the handlers of        *)
(* http/server.ts broadcast each change they make to messages, reactions   *)
(* and read receipts.                                                      *)
(*                                                                         *)
(* The lookups a handler awaits answer from memory, so all that follows    *)
(* them, statements and broadcast, runs before the next event.  A frame    *)
(* written to an open socket arrives, in order, unless the socket closes:  *)
(* a tab is modelled by what it shows once it has read all it was sent.    *)
(* A page that reconnects starts over, under the name of any closed tab.   *)
(*                                                                         *)
(* A message belongs to the channel it was stored for, but edits,          *)
(* deletions, reactions and receipts broadcast to the channel named in the *)
(* URL, which nothing compares with it.  A streamed reply and the           *)
(* acknowledgement of a message are not broadcast here at all.  Typing     *)
(* frames change nothing.                                                  *)
(***************************************************************************)
EXTENDS PluginWs

CONSTANTS
  Tab,        \* pages open at a time
  Message,    \* ids of messages
  MsgChannel, \* the channel each one is stored for
  Fact        \* <<m, "reaction">> or <<m, "read">>, each by one user

ASSUME FrontAssumption ==
  /\ MsgChannel \in [Message -> Channel]
  /\ Fact \subseteq Message \X {"reaction", "read"}

VARIABLES
  row,          \* the messages table: no row, or a version of the text
  deleted,      \* the messages with status 'deleted'
  fact,         \* reactions and read_receipts
  failed,       \* messages stored by a request whose statements failed
  untold,       \* history: messages last changed without a broadcast to the
                \* tabs of their channel,
  strayFacts,   \* and reactions and receipts
  tab,          \* readyState of each tab's socket
  tabChannel,   \* the channel it subscribed to
  subscribers,  \* the broadcaster's map; no entry is the empty set
  loaded,       \* the tab has listed the messages since it subscribed
  msgView,      \* what a tab shows of each message
  factView,     \* what it has been told of each reaction and receipt
  statusView    \* the plugin status it has been told

store     == <<row, deleted, fact, failed, untold, strayFacts>>
sockets   == <<tab, tabChannel, subscribers>>
views     == <<loaded, msgView, factView, statusView>>
frontVars == <<vars, store, sockets, views>>

Version == {"v1", "v2"}
Url     == Channel \cup {NoChannel}  \* NoChannel: an id nobody subscribes to
Row     == {"none"} \cup Version

(* What a page shows before anything has reached it, and after it is gone. *)
NoMessages == [m \in Message |-> "none"]
NoFacts    == [f \in Fact |-> "unknown"]

FrontInit ==
  /\ Init
  /\ row = [m \in Message |-> "none"]
  /\ fact = [f \in Fact |-> "off"]
  /\ deleted = {} /\ failed = {} /\ untold = {} /\ strayFacts = {}
  /\ tab = [t \in Tab |-> "closed"]
  /\ tabChannel = [t \in Tab |-> NoChannel]
  /\ subscribers = [c \in Channel |-> {}]
  /\ loaded = {}
  /\ msgView = [t \in Tab |-> NoMessages]
  /\ factView = [t \in Tab |-> NoFacts]
  /\ statusView = [t \in Tab |-> "unknown"]

-----------------------------------------------------------------------------
(* Mutant: a closed socket takes the channel's entry with it. *)
MutantUnsubscribe(c, t) == subscribers' = [subscribers EXCEPT ![c] = {}]

Unsubscribe(c, t) == subscribers' = [subscribers EXCEPT ![c] = @ \ {t}]

(* GET /api/webhub/ws with the channel's token. *)
TabConnects(t, c) ==
  /\ tab[t] = "closed"
  /\ c \in registered
  /\ tab' = [tab EXCEPT ![t] = "open"]
  /\ tabChannel' = [tabChannel EXCEPT ![t] = c]
  /\ subscribers' = [subscribers EXCEPT ![c] = @ \cup {t}]
  /\ UNCHANGED <<vars, store, views>>

(* The page goes away or its connection breaks. *)
TabCloses(t) ==
  /\ tab[t] = "open"
  /\ tab' = [tab EXCEPT ![t] = "closing"]
  /\ loaded' = loaded \ {t}
  /\ msgView' = [msgView EXCEPT ![t] = NoMessages]
  /\ factView' = [factView EXCEPT ![t] = NoFacts]
  /\ statusView' = [statusView EXCEPT ![t] = "unknown"]
  /\ UNCHANGED <<vars, store, tabChannel, subscribers>>

(* An 'error' event precedes the close of a broken connection. *)
TabErrorEvent(t) ==
  /\ tab[t] = "closing"
  /\ Unsubscribe(tabChannel[t], t)
  /\ UNCHANGED <<vars, store, tab, tabChannel, views>>

TabCloseEvent(t) ==
  /\ tab[t] = "closing"
  /\ tab' = [tab EXCEPT ![t] = "closed"]
  /\ tabChannel' = [tabChannel EXCEPT ![t] = NoChannel]
  /\ Unsubscribe(tabChannel[t], t)
  /\ UNCHANGED <<vars, store, views>>

(* What the listings and the tabs show of a message. *)
Visible(m) == IF m \in deleted THEN "none" ELSE row[m]

(* GET /channels/:id/messages, after which the tab shows what the table has. *)
(* Its LIMIT and OFFSET and the filter on thread_id are left out: the page   *)
(* asks until it has listed every message of its channel.                    *)
TabLoads(t) ==
  /\ tab[t] = "open" /\ t \notin loaded
  /\ tabChannel[t] \in registered
  /\ loaded' = loaded \cup {t}
  /\ msgView' = [msgView EXCEPT ![t] =
                   [m \in Message |->
                      IF MsgChannel[m] # tabChannel[t] THEN @[m] ELSE Visible(m)]]
  /\ UNCHANGED <<vars, store, sockets, factView, statusView>>

-----------------------------------------------------------------------------
(* broadcast skips the subscribers whose socket is not OPEN. *)
Reached(c) == IF c = NoChannel THEN {} ELSE {t \in subscribers[c] : tab[t] = "open"}

BroadcastMessage(c, m) ==
  msgView' = [t \in Tab |->
                IF t \in Reached(c) THEN [msgView[t] EXCEPT ![m] = Visible(m)']
                ELSE msgView[t]]

(* Mutant: broadcasts channels.status, whose names are others. *)
MutantBroadcastStatus(c, status) ==
  statusView' = [t \in Tab |->
                   IF t \notin Reached(c) THEN statusView[t]
                   ELSE IF status = "online" THEN "connected" ELSE status]

(* broadcastChannelStatus *)
BroadcastStatus(c, status) ==
  statusView' = [t \in Tab |-> IF t \in Reached(c) THEN status ELSE statusView[t]]

(* Mutant: forwardToOpenClaw, too, updates the metrics before it broadcasts,   *)
(* and a message whose counters could not be saved is reported as stored.   *)
MutantStoreMessage(m, metrics, fault) ==
  /\ row[m] = "none" /\ m \notin failed
  /\ MsgChannel[m] \in registered
  /\ fault = "metrics" => metrics # "never"
  /\ row' = [row EXCEPT ![m] = "v1"] /\ UNCHANGED deleted
  /\ failed' = IF fault = "create" THEN failed \cup {m} ELSE failed
  /\ IF fault = "no" THEN BroadcastMessage(MsgChannel[m], m) ELSE UNCHANGED msgView
  /\ UNCHANGED <<vars, fact, untold, strayFacts, sockets, loaded, factView, statusView>>

(* A handler stores a new message.  sendMessage and handleWebhook update    *)
(* the channel's metrics before they broadcast, forwardToOpenClaw does so   *)
(* after, the cross-channel relay and a command's acknowledgement not at    *)
(* all; whichever statement cannot be saved throws, and the request is      *)
(* answered 500 with the statements already run in force.                   *)
StoreMessage(m, metrics, fault) ==
  /\ row[m] = "none" /\ m \notin failed
  /\ MsgChannel[m] \in registered
  /\ fault = "metrics" => metrics # "never"
  /\ row' = [row EXCEPT ![m] = "v1"] /\ UNCHANGED deleted
  /\ failed' = IF fault = "no" THEN failed ELSE failed \cup {m}
  /\ IF fault = "create" \/ (fault = "metrics" /\ metrics = "first")
     THEN UNCHANGED msgView
     ELSE BroadcastMessage(MsgChannel[m], m)
  /\ UNCHANGED <<vars, fact, untold, strayFacts, sockets, loaded, factView, statusView>>

(* handleStreamDone: the tabs hear of a streamed reply by SSE (TabStream),  *)
(* and a failing INSERT is ignored.                                         *)
StoreStreamedReply(m, saved) ==
  /\ row[m] = "none" /\ m \notin failed
  /\ MsgChannel[m] \in registered
  /\ row' = [row EXCEPT ![m] = "v1"]
  /\ untold' = untold \cup {m}
  /\ failed' = IF saved THEN failed ELSE failed \cup {m}
  /\ UNCHANGED <<vars, deleted, fact, strayFacts, sockets, views>>

(* ackMessage after a deletion makes the message 'delivered' and so visible, *)
(* and broadcasts nothing; of other messages a tab shows nothing that it    *)
(* changes.                                                                 *)
AckMessage(m) ==
  /\ m \in deleted
  /\ deleted' = deleted \ {m}
  /\ untold' = untold \cup {m}
  /\ UNCHANGED <<vars, row, fact, failed, strayFacts, sockets, views>>

(* What an edit or a deletion under channel u's URL does to the tabs.  Where *)
(* the save fails nothing catches it and the process ends: see Restart.      *)
ChangeMessage(u, m) ==
  /\ BroadcastMessage(u, m)
  /\ failed' = IF u = MsgChannel[m] THEN failed \ {m} ELSE failed
  /\ untold' = IF u = MsgChannel[m] THEN untold \ {m} ELSE untold \cup {m}
  /\ UNCHANGED <<vars, fact, strayFacts, sockets, loaded, factView, statusView>>

(* editMessage, which edits a deleted message too but leaves it deleted.    *)
EditMessage(u, m, v) ==
  /\ row[m] # "none"
  /\ row' = [row EXCEPT ![m] = v]
  /\ UNCHANGED deleted
  /\ ChangeMessage(u, m)

DeleteMessage(u, m) ==
  /\ row[m] # "none"
  /\ deleted' = deleted \cup {m}
  /\ UNCHANGED row
  /\ ChangeMessage(u, m)

(* addReaction, removeReaction and markRead: INSERT or DELETE, broadcast;   *)
(* what was so already is broadcast again.  A receipt is never taken back.  *)
SetFact(u, f, on) ==
  /\ f[2] = "read" => on = "on"
  /\ fact' = [fact EXCEPT ![f] = on]
  /\ factView' = [t \in Tab |->
                    IF t \in Reached(u) THEN [factView[t] EXCEPT ![f] = on] ELSE factView[t]]
  /\ strayFacts' = IF u = MsgChannel[f[1]] THEN strayFacts \ {f} ELSE strayFacts \cup {f}
  /\ UNCHANGED <<vars, row, deleted, failed, untold, sockets, loaded, msgView, statusView>>

-----------------------------------------------------------------------------
(* Mutant: the expiry of the timer is not broadcast. *)
MutantPluginTimer(c, s) ==
  /\ OfflineTimer(c, s)
  /\ UNCHANGED <<store, sockets, views>>

PluginTimer(c, s) ==
  /\ OfflineTimer(c, s)
  /\ BroadcastStatus(c, "offline")
  /\ UNCHANGED <<store, sockets, loaded, msgView, factView>>

PluginConnects(c) ==
  /\ HandleConnection(c)
  /\ BroadcastStatus(c, "online")
  /\ UNCHANGED <<store, sockets, loaded, msgView, factView>>

PluginCloseEvent(s) ==
  /\ CloseEvent(s)
  /\ BroadcastStatus(chan[s], "reconnecting")
  /\ UNCHANGED <<store, sockets, loaded, msgView, factView>>

PluginAway(s)    == PeerCloses(s) /\ UNCHANGED <<store, sockets, views>>
ChannelGone(c)   == DeleteChannel(c) /\ UNCHANGED <<store, sockets, views>>

(* The process starts again: no socket survives, and a message whose         *)
(* statements failed may not have reached the file.                          *)
RestartAll ==
  /\ Restart
  /\ tab' = [t \in Tab |-> "closed"]
  /\ tabChannel' = [t \in Tab |-> NoChannel]
  /\ subscribers' = [c \in Channel |-> {}]
  /\ \E lost \in SUBSET failed :
       /\ row' = [m \in Message |-> IF m \in lost THEN "none" ELSE row[m]]
       /\ deleted' = deleted \ lost
  /\ loaded' = {}
  /\ msgView' = [t \in Tab |-> NoMessages]
  /\ factView' = [t \in Tab |-> NoFacts]
  /\ statusView' = [t \in Tab |-> "unknown"]
  /\ UNCHANGED <<fact, failed, untold, strayFacts>>

FrontNext ==
  \/ \E c \in Channel : PluginConnects(c) \/ ChannelGone(c)
  \/ \E c \in Channel, s \in Sock : PluginTimer(c, s)
  \/ \E s \in Sock : PluginCloseEvent(s) \/ PluginAway(s)
  \/ RestartAll
  \/ \E t \in Tab : \/ \E c \in Channel : TabConnects(t, c)
                    \/ TabLoads(t) \/ TabCloses(t) \/ TabErrorEvent(t) \/ TabCloseEvent(t)
  \/ \E m \in Message, metrics \in {"first", "last", "never"}, fault \in {"no", "create", "metrics"} :
       StoreMessage(m, metrics, fault)
  \/ \E m \in Message : AckMessage(m) \/ \E saved \in BOOLEAN : StoreStreamedReply(m, saved)
  \/ \E u \in Url, m \in Message : DeleteMessage(u, m) \/ \E v \in Version : EditMessage(u, m, v)
  \/ \E u \in Url, f \in Fact, on \in {"on", "off"} : SetFact(u, f, on)

FrontSpec == FrontInit /\ [][FrontNext]_frontVars

-----------------------------------------------------------------------------
FrontTypeOK ==
  /\ TypeOK
  /\ row \in [Message -> Row]
  /\ fact \in [Fact -> {"on", "off"}]
  /\ deleted \subseteq Message /\ failed \subseteq Message /\ untold \subseteq Message /\ strayFacts \subseteq Fact
  /\ tab \in [Tab -> {"open", "closing", "closed"}]
  /\ tabChannel \in [Tab -> Channel \cup {NoChannel}]
  /\ subscribers \in [Channel -> SUBSET Tab]
  /\ loaded \subseteq Tab
  /\ msgView \in [Tab -> [Message -> Row]]
  /\ factView \in [Tab -> [Fact -> {"unknown", "on", "off"}]]
  /\ statusView \in [Tab -> Status \cup {"unknown"}]

(* Every open tab is subscribed, to its channel alone, and a subscriber is  *)
(* a socket that is open or has its close event to come: neither an error   *)
(* before the close nor another tab's end leaves a hole or a dead entry.    *)
SubscribersAreLive ==
  \A t \in Tab, c \in Channel :
    /\ tab[t] = "open" => (t \in subscribers[c] <=> tabChannel[t] = c)
    /\ t \in subscribers[c] => tab[t] \in {"open", "closing"} /\ tabChannel[t] = c

(* An open tab that has loaded its channel shows every message of it as the *)
(* table has it, through edits, deletions and other tabs' comings and       *)
(* goings, and has the last word on each reaction and receipt it was told   *)
(* of.  Only these are kept from it: a message whose statements failed,     *)
(* what was last changed under another channel's URL, a streamed reply      *)
(* since it was stored and a deleted message that was acknowledged after.   *)
TabShowsTable ==
  \A t \in loaded : tab[t] = "open" =>
    /\ \A m \in Message \ (failed \cup untold) :
         MsgChannel[m] = tabChannel[t] => msgView[t][m] = Visible(m)
    /\ \A f \in Fact \ strayFacts :
         MsgChannel[f[1]] = tabChannel[t] => factView[t][f] \in {"unknown", fact[f]}

(* A tab that has been told a status shows the plugin_status column of its  *)
(* channel, whichever of the plugin's sockets and timers changed it last.   *)
StatusShownIsColumn ==
  \A t \in Tab :
    tab[t] = "open" /\ tabChannel[t] \in registered /\ statusView[t] # "unknown"
      => statusView[t] = pluginStatus[tabChannel[t]]
=============================================================================
