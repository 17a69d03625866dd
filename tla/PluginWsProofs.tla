--------------------------- MODULE PluginWsProofs ---------------------------
(***************************************************************************)
(* Proofs about PluginWs and the two modules that extend it, Frontend and  *)
(* PluginReplay, for any number of channels, sockets, tabs, messages and   *)
(* queued rows.                                                            *)
(*                                                                         *)
(* PluginWs: TypeOK is inductive; the status properties are proved         *)
(* together from IInv, which adds what ties the map's entries to the       *)
(* sockets' numbers.  Frontend and PluginReplay: every step is a step of   *)
(* PluginWs or leaves its variables alone, so what is proved of PluginWs   *)
(* holds of them too.                                                      *)
(***************************************************************************)
EXTENDS Frontend, PluginReplay, FiniteSetTheorems, TLAPS

(* The sockets accepted so far are 1..lastSock, the running process's own   *)
(* start after bootSock.                                                    *)
SocketsNumbered ==
  /\ bootSock <= lastSock
  /\ \A s \in Sock : s > lastSock <=> chan[s] = NoChannel

(* A map entry is an accepted socket that authenticated for its channel.    *)
EntriesBelong ==
  \A c \in Channel : conn[c] # NoSock => conn[c] <= lastSock /\ chan[conn[c]] = c

IInv ==
  /\ SocketsNumbered
  /\ EntriesBelong
  /\ PushGoesToNewest
  /\ OfflineIsUnreachable
  /\ OnlineIsLiveOnceFresh
  /\ ReconnectingHasTimer

-----------------------------------------------------------------------------
(* A step keeps the type of every variable. *)
LEMMA NextTypeOK == TypeOK /\ [Next]_vars => TypeOK'
<1> SUFFICES ASSUME TypeOK, [Next]_vars PROVE TypeOK'
  OBVIOUS
<1> USE BoundsAssumption DEF TypeOK, Sock, NoSock, NoTimer, Status, ReadyState
<1>1. ASSUME NEW c \in Channel, HandleConnection(c) PROVE TypeOK'
  <2>1. lastSock' \in Sock
    BY <1>1 DEF HandleConnection
  <2>2. CloseReplaced(c) \in [Sock -> ReadyState]
    BY DEF CloseReplaced
  <2>3. sock' \in [Sock -> ReadyState] /\ chan' \in [Sock -> Channel \cup {NoChannel}]
    BY <1>1, <2>1, <2>2 DEF HandleConnection
  <2>4. timers' \in [Channel -> SUBSET Sock] /\ entryTimer' \in [Channel -> Sock \cup {NoTimer}]
    BY <1>1 DEF HandleConnection, CleanupConnection
  <2>5. conn' \in [Channel -> Sock \cup {NoSock}] /\ pluginStatus' \in [Channel -> Status]
    BY <1>1, <2>1 DEF HandleConnection, UpdatePluginStatus
  <2> QED
    BY <1>1, <2>1, <2>3, <2>4, <2>5 DEF HandleConnection
<1>2. ASSUME NEW s \in Sock, PeerCloses(s) PROVE TypeOK'
  BY <1>2 DEF PeerCloses
<1>3. ASSUME NEW s \in Sock, CloseEvent(s) PROVE TypeOK'
  <2>1. pluginStatus' \in [Channel -> Status]
    BY <1>3 DEF CloseEvent, UpdatePluginStatus
  <2>2. timers' \in [Channel -> SUBSET Sock]
    BY <1>3 DEF CloseEvent
  <2>3. entryTimer' \in [Channel -> Sock \cup {NoTimer}]
    BY <1>3 DEF CloseEvent
  <2> QED
    BY <1>3, <2>1, <2>2, <2>3 DEF CloseEvent
<1>4. ASSUME NEW c \in Channel, NEW t \in Sock, OfflineTimer(c, t) PROVE TypeOK'
  BY <1>4 DEF OfflineTimer, UpdatePluginStatus
<1>5. ASSUME NEW c \in Channel, DeleteChannel(c) PROVE TypeOK'
  BY <1>5 DEF DeleteChannel
<1>6. CASE Restart
  BY <1>6 DEF Restart
<1>7. CASE UNCHANGED vars
  BY <1>7 DEF vars
<1> QED
  BY <1>1, <1>2, <1>3, <1>4, <1>5, <1>6, <1>7 DEF Next

LEMMA InitTypeOK == Init => TypeOK
  BY BoundsAssumption
     DEF Init, TypeOK, Sock, NoSock, NoTimer, Status, ReadyState

(* Every variable keeps its type, for every value of the constants. *)
THEOREM TypeCorrect == Spec => []TypeOK
  BY InitTypeOK, NextTypeOK, PTL DEF Spec

-----------------------------------------------------------------------------
(* Only connecting and restarting change which channels are fresh. *)
LEMMA FreshKept ==
  ASSUME NEW d \in Channel, UNCHANGED <<bootSock, chan>>
  PROVE  Fresh(d)' <=> Fresh(d)
  BY DEF Fresh, Sock

(* A connecting plugin becomes the newest entry of its channel. *)
LEMMA HandleConnectionKeeps ==
  ASSUME TypeOK, IInv, NEW c \in Channel, HandleConnection(c)
  PROVE  IInv'
<1> USE BoundsAssumption DEF TypeOK, Sock, NoSock
<1>1. lastSock' = lastSock + 1 /\ lastSock' \in Sock /\ bootSock' = bootSock
      /\ registered' = registered
  BY DEF HandleConnection
<1>2. \A s \in Sock : chan'[s] = IF s = lastSock' THEN c ELSE chan[s]
  BY <1>1 DEF HandleConnection
<1>3. \A d \in Channel : conn'[d] = IF d = c THEN lastSock' ELSE conn[d]
  BY DEF HandleConnection
<1>4. \A s \in Sock : s # lastSock' /\ sock[s] \in {"open", "closing"}
                        => sock'[s] \in {"open", "closing"}
  BY <1>1 DEF HandleConnection, CloseReplaced
<1>5. sock'[lastSock'] = "open"
  BY <1>1 DEF HandleConnection, CloseReplaced
<1>6. pluginStatus'[c] = "online"
      /\ \A d \in Channel \ {c} : pluginStatus'[d] = pluginStatus[d]
  BY DEF HandleConnection, UpdatePluginStatus
<1>7. \A d \in Channel \ {c} : timers'[d] = timers[d]
  BY DEF HandleConnection, CleanupConnection
<1>8. \A d \in Channel \ {c} : Fresh(d)' => Fresh(d)
  BY <1>1, <1>2 DEF Fresh
<1>9. SocketsNumbered'
  BY <1>1, <1>2 DEF SocketsNumbered, IInv
<1>10. EntriesBelong'
  BY <1>1, <1>2, <1>3 DEF EntriesBelong, IInv
<1>11. PushGoesToNewest'
  BY <1>1, <1>2, <1>3 DEF PushGoesToNewest, SocketsNumbered, IInv
<1>12. OfflineIsUnreachable'
  BY <1>1, <1>3, <1>6 DEF OfflineIsUnreachable, IInv
<1>13. OnlineIsLiveOnceFresh'
  BY <1>1, <1>3, <1>4, <1>5, <1>6, <1>8
     DEF OnlineIsLiveOnceFresh, LiveEntry, EntriesBelong, IInv
<1>14. ReconnectingHasTimer'
  BY <1>1, <1>6, <1>7, <1>8 DEF ReconnectingHasTimer, IInv
<1> QED
  BY <1>9, <1>10, <1>11, <1>12, <1>13, <1>14 DEF IInv

(* The close of a socket disturbs the status of its own channel only, and   *)
(* that channel's entry, if it is another socket's, is none of the others'. *)
LEMMA CloseEventKeeps ==
  ASSUME TypeOK, IInv, NEW s \in Sock, CloseEvent(s)
  PROVE  IInv'
<1> USE BoundsAssumption DEF TypeOK, Sock, NoSock
<1>1. UNCHANGED <<registered, lastSock, chan, conn, bootSock>>
  BY DEF CloseEvent
<1>2. \A d \in Channel : Fresh(d)' <=> Fresh(d)
  BY <1>1, FreshKept
<1>3. \A u \in Sock : u # s => sock'[u] = sock[u]
  BY DEF CloseEvent
<1>4. \A d \in Channel : d # chan[s] =>
        pluginStatus'[d] = pluginStatus[d] /\ timers'[d] = timers[d]
  BY DEF CloseEvent, UpdatePluginStatus
<1>5. chan[s] \in registered => pluginStatus'[chan[s]] = "reconnecting"
  BY DEF CloseEvent, UpdatePluginStatus
<1>6. chan[s] \in Channel => timers'[chan[s]] # {}
  BY DEF CloseEvent
<1>7. SocketsNumbered' /\ EntriesBelong' /\ PushGoesToNewest'
  BY <1>1 DEF SocketsNumbered, EntriesBelong, PushGoesToNewest, IInv
<1>8. OfflineIsUnreachable'
  BY <1>1, <1>4, <1>5 DEF OfflineIsUnreachable, IInv
<1>9. OnlineIsLiveOnceFresh'
  BY <1>1, <1>2, <1>3, <1>4, <1>5
     DEF OnlineIsLiveOnceFresh, LiveEntry, EntriesBelong, IInv
<1>10. ReconnectingHasTimer'
  BY <1>1, <1>2, <1>4, <1>5, <1>6 DEF ReconnectingHasTimer, IInv
<1> QED
  BY <1>7, <1>8, <1>9, <1>10 DEF IInv

(* An expired timer takes status and entry away together. *)
LEMMA OfflineTimerKeeps ==
  ASSUME TypeOK, IInv, NEW c \in Channel, NEW t \in Sock, OfflineTimer(c, t)
  PROVE  IInv'
<1> USE BoundsAssumption DEF TypeOK, Sock, NoSock
<1>1. UNCHANGED <<registered, lastSock, sock, chan, bootSock>>
  BY DEF OfflineTimer
<1>2. \A d \in Channel : Fresh(d)' <=> Fresh(d)
  BY <1>1, FreshKept
<1>3. \A d \in Channel : conn'[d] = IF d = c THEN NoSock ELSE conn[d]
  BY DEF OfflineTimer
<1>4. \A d \in Channel : d # c =>
        pluginStatus'[d] = pluginStatus[d] /\ timers'[d] = timers[d]
  BY DEF OfflineTimer, UpdatePluginStatus
<1>5. c \in registered => pluginStatus'[c] = "offline"
  BY DEF OfflineTimer, UpdatePluginStatus
<1>6. SocketsNumbered' /\ EntriesBelong' /\ PushGoesToNewest'
  BY <1>1, <1>3 DEF SocketsNumbered, EntriesBelong, PushGoesToNewest, IInv
<1>7. OfflineIsUnreachable'
  BY <1>1, <1>3, <1>4 DEF OfflineIsUnreachable, IInv
<1>8. OnlineIsLiveOnceFresh'
  BY <1>1, <1>2, <1>3, <1>4, <1>5 DEF OnlineIsLiveOnceFresh, LiveEntry, IInv
<1>9. ReconnectingHasTimer'
  BY <1>1, <1>2, <1>4, <1>5 DEF ReconnectingHasTimer, IInv
<1> QED
  BY <1>6, <1>7, <1>8, <1>9 DEF IInv

(* After a restart no channel is fresh: the promises start over. *)
LEMMA RestartKeeps ==
  ASSUME TypeOK, IInv, Restart
  PROVE  IInv'
<1> USE BoundsAssumption DEF TypeOK, Sock, NoSock
<1>1. \A d \in Channel : ~Fresh(d)'
  BY DEF Restart, Fresh, SocketsNumbered, IInv
<1>2. \A d \in Channel : conn'[d] = NoSock
  BY DEF Restart
<1>3. SocketsNumbered'
  BY DEF Restart, SocketsNumbered, IInv
<1>4. registered' \subseteq Channel
  BY DEF Restart
<1> QED
  BY <1>1, <1>2, <1>3, <1>4
     DEF IInv, EntriesBelong, PushGoesToNewest, OfflineIsUnreachable,
         OnlineIsLiveOnceFresh, ReconnectingHasTimer

(* Every step of the specification keeps the invariant. *)
LEMMA NextIInv == TypeOK /\ IInv /\ [Next]_vars => IInv'
<1> SUFFICES ASSUME TypeOK, IInv, [Next]_vars PROVE IInv'
  OBVIOUS
<1>1. ASSUME NEW s \in Sock, PeerCloses(s) PROVE IInv'
  BY <1>1 DEF PeerCloses, TypeOK, IInv, SocketsNumbered, EntriesBelong,
     PushGoesToNewest, OfflineIsUnreachable, OnlineIsLiveOnceFresh, LiveEntry,
     Fresh, ReconnectingHasTimer
<1>2. ASSUME NEW c \in Channel, DeleteChannel(c) PROVE IInv'
  BY <1>2 DEF DeleteChannel, IInv, SocketsNumbered, EntriesBelong,
     PushGoesToNewest, OfflineIsUnreachable, OnlineIsLiveOnceFresh, LiveEntry,
     Fresh, ReconnectingHasTimer
<1>3. CASE UNCHANGED vars
  BY <1>3 DEF vars, IInv, SocketsNumbered, EntriesBelong, PushGoesToNewest,
     OfflineIsUnreachable, OnlineIsLiveOnceFresh, LiveEntry, Fresh,
     ReconnectingHasTimer
<1> QED
  BY <1>1, <1>2, <1>3, HandleConnectionKeeps, CloseEventKeeps, OfflineTimerKeeps,
     RestartKeeps DEF Next

(* No socket, no entry, every channel offline. *)
LEMMA InitIInv == Init => IInv
  BY BoundsAssumption DEF Init, IInv, SocketsNumbered, EntriesBelong,
     PushGoesToNewest, OfflineIsUnreachable, OnlineIsLiveOnceFresh,
     ReconnectingHasTimer, Fresh, Sock, NoSock

(* The inductive invariant of every reachable state. *)
THEOREM Invariant == Spec => []IInv
  BY InitIInv, NextIInv, TypeCorrect, PTL DEF Spec

(* Shown online, and connected since the start: a live entry is behind it. *)
THEOREM OnlineLive == Spec => []OnlineIsLiveOnceFresh
  BY Invariant, PTL DEF IInv

(* Shown offline: nothing is pushed. *)
THEOREM OfflineUnreachable == Spec => []OfflineIsUnreachable
  BY Invariant, PTL DEF IInv

(* Shown reconnecting: a timer will end it. *)
THEOREM ReconnectingTimed == Spec => []ReconnectingHasTimer
  BY Invariant, PTL DEF IInv

(* Frames never go to a socket older than another of the channel. *)
THEOREM PushNewest == Spec => []PushGoesToNewest
  BY Invariant, PTL DEF IInv

-----------------------------------------------------------------------------
(* Frontend: the tabs of the channels the plugins serve.                    *)

(* A tab whose socket is not open shows nothing. *)
ClosedShowsNothing ==
  \A t \in Tab : tab[t] # "open" =>
    t \notin loaded /\ factView[t] = NoFacts /\ statusView[t] = "unknown"

(* TabShowsTable, with the reactions and receipts of tabs still loading.    *)
FactsFollow ==
  \A t \in Tab, f \in Fact \ strayFacts :
    tab[t] = "open" /\ MsgChannel[f[1]] = tabChannel[t]
      => factView[t][f] \in {"unknown", fact[f]}
MessagesFollow ==
  \A t \in loaded, m \in Message \ (failed \cup untold) :
    tab[t] = "open" /\ MsgChannel[m] = tabChannel[t] => msgView[t][m] = Visible(m)

FrontInv ==
  /\ FrontTypeOK
  /\ ClosedShowsNothing
  /\ SubscribersAreLive
  /\ StatusShownIsColumn
  /\ FactsFollow
  /\ MessagesFollow

-----------------------------------------------------------------------------
(* What the plugin side sees of a step of Frontend. *)
LEMMA StepIsPluginStep == [FrontNext]_frontVars => [Next]_vars
<1> SUFFICES ASSUME FrontNext PROVE [Next]_vars
  BY DEF frontVars
<1>1. CASE \E c \in Channel : PluginConnects(c) \/ ChannelGone(c)
  BY <1>1 DEF PluginConnects, ChannelGone, Next
<1>2. CASE \E c \in Channel, s \in Sock : PluginTimer(c, s)
  BY <1>2 DEF PluginTimer, Next
<1>3. CASE \E s \in Sock : PluginCloseEvent(s) \/ PluginAway(s)
  BY <1>3 DEF PluginCloseEvent, PluginAway, Next
<1>4. CASE RestartAll
  BY <1>4 DEF RestartAll, Next
<1>5. CASE \E t \in Tab : \/ \E c \in Channel : TabConnects(t, c)
                          \/ TabLoads(t) \/ TabCloses(t) \/ TabErrorEvent(t) \/ TabCloseEvent(t)
  BY <1>5 DEF TabConnects, TabLoads, TabCloses, TabErrorEvent, TabCloseEvent
<1>6. CASE \E m \in Message, metrics \in {"first", "last", "never"},
              fault \in {"no", "create", "metrics"} : StoreMessage(m, metrics, fault)
  BY <1>6 DEF StoreMessage
<1>7. CASE \E u \in Url, m \in Message :
              DeleteMessage(u, m) \/ \E v \in Version : EditMessage(u, m, v)
  BY <1>7 DEF DeleteMessage, EditMessage, ChangeMessage
<1>8. CASE \E m \in Message : AckMessage(m) \/ \E saved \in BOOLEAN : StoreStreamedReply(m, saved)
  BY <1>8 DEF AckMessage, StoreStreamedReply
<1>9. CASE \E u \in Url, f \in Fact, on \in {"on", "off"} : SetFact(u, f, on)
  BY <1>9 DEF SetFact
<1> QED
  BY <1>1, <1>2, <1>3, <1>4, <1>5, <1>6, <1>7, <1>8, <1>9 DEF FrontNext

LEMMA ViewTypes ==
  /\ NoMessages \in [Message -> Row]
  /\ NoFacts \in [Fact -> {"unknown", "on", "off"}]
BY DEF NoMessages, NoFacts, Row, Version

(* A broadcast to the message's own channel, about the one row that changed. *)
LEMMA BroadcastType ==
  ASSUME FrontTypeOK, NEW c, NEW m \in Message, BroadcastMessage(c, m),
         row' \in [Message -> Row]
  PROVE  msgView' \in [Tab -> [Message -> Row]]
<1>1. Visible(m)' \in Row
  BY DEF Visible, Row
<1> QED
  BY <1>1 DEF BroadcastMessage, FrontTypeOK

LEMMA BroadcastReaches ==
  ASSUME FrontTypeOK, SubscribersAreLive, MessagesFollow, NEW m \in Message,
         BroadcastMessage(MsgChannel[m], m), UNCHANGED <<tab, tabChannel, loaded>>,
         \A n \in Message \ {m} : Visible(n)' = Visible(n),
         failed \subseteq failed' \cup {m}, untold \subseteq untold' \cup {m}
  PROVE  MessagesFollow'
<1> SUFFICES ASSUME NEW t \in loaded, NEW n \in Message, n \notin failed' \cup untold',
                    tab[t] = "open", MsgChannel[n] = tabChannel[t]
             PROVE  msgView'[t][n] = Visible(n)'
  BY DEF MessagesFollow
<1>1. t \in Tab
  BY DEF FrontTypeOK
<1>2. CASE n = m
  <2>1. t \in Reached(MsgChannel[m])
    BY <1>1, <1>2, FrontAssumption, BoundsAssumption DEF Reached, SubscribersAreLive
  <2> QED
    BY <1>1, <1>2, <2>1 DEF BroadcastMessage, FrontTypeOK
<1>3. CASE n # m
  <2>1. msgView'[t][n] = msgView[t][n]
    BY <1>1, <1>3 DEF BroadcastMessage, FrontTypeOK
  <2> QED
    BY <1>3, <2>1 DEF MessagesFollow
<1> QED
  BY <1>2, <1>3

LEMMA FrontInitInv == FrontInit => FrontInv
<1> SUFFICES ASSUME FrontInit PROVE FrontInv
  OBVIOUS
<1>1. FrontTypeOK
  <2>1. TypeOK
    BY BoundsAssumption
    DEF FrontInit, Init, TypeOK, Sock, NoSock, NoTimer, Status, ReadyState
  <2> QED
    BY <2>1, ViewTypes DEF FrontInit, FrontTypeOK, Row
<1> QED
  BY <1>1 DEF FrontInit, FrontInv, ClosedShowsNothing, SubscribersAreLive,
     StatusShownIsColumn, FactsFollow, MessagesFollow

LEMMA FrontNextInv == FrontInv /\ [FrontNext]_frontVars => FrontInv'
<1> SUFFICES ASSUME FrontInv, [FrontNext]_frontVars PROVE FrontInv'
  OBVIOUS
<1>0. TypeOK /\ TypeOK'
  BY NextTypeOK, StepIsPluginStep DEF FrontInv, FrontTypeOK
<1> USE FrontAssumption, BoundsAssumption, ViewTypes DEF FrontInv, Visible, sockets, views, store
<1>1. ASSUME NEW c \in Channel, PluginConnects(c) PROVE FrontInv'
  <2>1. FrontTypeOK'
    BY <1>0, <1>1 DEF PluginConnects, BroadcastStatus, FrontTypeOK, Status
  <2>2. StatusShownIsColumn'
    BY <1>1 DEF PluginConnects, BroadcastStatus, HandleConnection, UpdatePluginStatus,
       Reached, StatusShownIsColumn, SubscribersAreLive, FrontTypeOK, TypeOK
  <2> QED
    BY <1>1, <2>1, <2>2 DEF PluginConnects, BroadcastStatus, Reached,
       ClosedShowsNothing, SubscribersAreLive, FactsFollow, MessagesFollow, FrontTypeOK
<1>2. ASSUME NEW c \in Channel, ChannelGone(c) PROVE FrontInv'
  BY <1>0, <1>2 DEF ChannelGone, DeleteChannel, FrontTypeOK,
     ClosedShowsNothing, SubscribersAreLive, StatusShownIsColumn, FactsFollow, MessagesFollow
<1>3. ASSUME NEW c \in Channel, NEW s \in Sock, PluginTimer(c, s) PROVE FrontInv'
  <2>1. FrontTypeOK'
    BY <1>0, <1>3 DEF PluginTimer, BroadcastStatus, FrontTypeOK, Status
  <2>2. StatusShownIsColumn'
    BY <1>3 DEF PluginTimer, BroadcastStatus, OfflineTimer, UpdatePluginStatus,
       Reached, StatusShownIsColumn, SubscribersAreLive, FrontTypeOK, TypeOK
  <2> QED
    BY <1>3, <2>1, <2>2 DEF PluginTimer, BroadcastStatus, Reached,
       ClosedShowsNothing, SubscribersAreLive, FactsFollow, MessagesFollow, FrontTypeOK
<1>4. ASSUME NEW s \in Sock, PluginCloseEvent(s) PROVE FrontInv'
  <2>1. FrontTypeOK'
    BY <1>0, <1>4 DEF PluginCloseEvent, BroadcastStatus, FrontTypeOK, Status
  <2>2. StatusShownIsColumn'
    BY <1>4 DEF PluginCloseEvent, BroadcastStatus, CloseEvent, UpdatePluginStatus,
       Reached, StatusShownIsColumn, SubscribersAreLive, FrontTypeOK, TypeOK
  <2> QED
    BY <1>4, <2>1, <2>2 DEF PluginCloseEvent, BroadcastStatus, Reached,
       ClosedShowsNothing, SubscribersAreLive, FactsFollow, MessagesFollow, FrontTypeOK
<1>5. ASSUME NEW s \in Sock, PluginAway(s) PROVE FrontInv'
  BY <1>0, <1>5 DEF PluginAway, PeerCloses, FrontTypeOK,
     ClosedShowsNothing, SubscribersAreLive, StatusShownIsColumn, FactsFollow, MessagesFollow
<1>6. CASE RestartAll
  <2>1. row' \in [Message -> Row]
    BY <1>6 DEF RestartAll, FrontTypeOK, Row
  <2>2. FrontTypeOK'
    BY <1>0, <1>6, <2>1 DEF RestartAll, FrontTypeOK
  <2> QED
    BY <1>6, <2>2 DEF RestartAll,
       ClosedShowsNothing, SubscribersAreLive, StatusShownIsColumn, FactsFollow, MessagesFollow
<1>7. ASSUME NEW t \in Tab, NEW c \in Channel, TabConnects(t, c) PROVE FrontInv'
  <2> USE <1>7 DEF TabConnects
  <2>1. FrontTypeOK'
    BY <1>0 DEF FrontTypeOK
  <2>2. SubscribersAreLive'
    BY DEF SubscribersAreLive, FrontTypeOK
  <2>3. FactsFollow'
    BY DEF FactsFollow, ClosedShowsNothing, NoFacts, FrontTypeOK
  <2>4. StatusShownIsColumn'
    BY DEF StatusShownIsColumn, ClosedShowsNothing, FrontTypeOK, vars
  <2> QED
    BY <2>1, <2>2, <2>3, <2>4 DEF ClosedShowsNothing, MessagesFollow, FrontTypeOK
<1>8. ASSUME NEW t \in Tab, TabLoads(t) PROVE FrontInv'
  <2> USE <1>8 DEF TabLoads
  <2>1. msgView' \in [Tab -> [Message -> Row]]
    BY DEF FrontTypeOK, Row, Visible
  <2>2. FrontTypeOK'
    BY <1>0, <2>1 DEF FrontTypeOK
  <2>3. MessagesFollow'
    BY DEF MessagesFollow, Visible, FrontTypeOK
  <2> QED
    BY <2>2, <2>3 DEF ClosedShowsNothing, SubscribersAreLive, StatusShownIsColumn,
       FactsFollow, FrontTypeOK, vars
<1>9. ASSUME NEW t \in Tab, TabCloses(t) PROVE FrontInv'
  <2> USE <1>9 DEF TabCloses
  <2>1. FrontTypeOK'
    BY <1>0 DEF FrontTypeOK
  <2> QED
    BY <2>1 DEF ClosedShowsNothing, SubscribersAreLive, StatusShownIsColumn,
       FactsFollow, MessagesFollow, FrontTypeOK, vars
<1>10. ASSUME NEW t \in Tab, TabErrorEvent(t) PROVE FrontInv'
  <2> USE <1>10 DEF TabErrorEvent, Unsubscribe
  <2>1. subscribers' \in [Channel -> SUBSET Tab]
    BY DEF FrontTypeOK
  <2>2. FrontTypeOK'
    BY <1>0, <2>1 DEF FrontTypeOK
  <2>3. SubscribersAreLive'
    BY DEF SubscribersAreLive, FrontTypeOK
  <2> QED
    BY <2>2, <2>3 DEF ClosedShowsNothing, StatusShownIsColumn,
       FactsFollow, MessagesFollow, FrontTypeOK, vars
<1>11. ASSUME NEW t \in Tab, TabCloseEvent(t) PROVE FrontInv'
  <2> USE <1>11 DEF TabCloseEvent, Unsubscribe
  <2>1. /\ subscribers' \in [Channel -> SUBSET Tab]
        /\ tab' \in [Tab -> {"open", "closing", "closed"}]
        /\ tabChannel' \in [Tab -> Channel \cup {NoChannel}]
    BY DEF FrontTypeOK
  <2>2. FrontTypeOK'
    BY <1>0, <2>1 DEF FrontTypeOK
  <2>3. SubscribersAreLive'
    BY DEF SubscribersAreLive, FrontTypeOK
  <2>4. ClosedShowsNothing' /\ StatusShownIsColumn'
    BY DEF ClosedShowsNothing, StatusShownIsColumn, FrontTypeOK, vars
  <2>5. FactsFollow' /\ MessagesFollow'
    BY DEF FactsFollow, MessagesFollow, FrontTypeOK
  <2> QED
    BY <2>2, <2>3, <2>4, <2>5
<1>12. ASSUME NEW m \in Message, NEW metrics, NEW fault, StoreMessage(m, metrics, fault)
       PROVE FrontInv'
  <2> USE <1>12 DEF StoreMessage
  <2>1. row' \in [Message -> Row]
    BY DEF FrontTypeOK, Row, Version
  <2>2. msgView' \in [Tab -> [Message -> Row]]
    BY <2>1, BroadcastType DEF FrontTypeOK
  <2>3. FrontTypeOK'
    BY <1>0, <2>1, <2>2 DEF FrontTypeOK
  <2>4. MessagesFollow'
    <3>1. ASSUME BroadcastMessage(MsgChannel[m], m) PROVE MessagesFollow'
      BY <3>1, BroadcastReaches DEF FrontTypeOK
    <3>2. ASSUME UNCHANGED msgView, failed' = failed \cup {m} PROVE MessagesFollow'
      BY <3>2 DEF MessagesFollow, FrontTypeOK
    <3> QED
      BY <3>1, <3>2
  <2> QED
    BY <2>3, <2>4 DEF ClosedShowsNothing, SubscribersAreLive, StatusShownIsColumn,
       FactsFollow, FrontTypeOK, vars
<1>13. ASSUME NEW u \in Url, NEW m \in Message, ChangeMessage(u, m),
              row' \in [Message -> Row], deleted' \subseteq Message,
              \A n \in Message \ {m} : Visible(n)' = Visible(n)
       PROVE FrontInv'
  <2> USE <1>13 DEF ChangeMessage
  <2>1. msgView' \in [Tab -> [Message -> Row]]
    BY BroadcastType DEF FrontTypeOK
  <2>2. FrontTypeOK'
    BY <1>0, <2>1 DEF FrontTypeOK
  <2>3. MessagesFollow'
    <3>1. CASE u = MsgChannel[m]
      BY <3>1, BroadcastReaches DEF FrontTypeOK
    <3>2. CASE u # MsgChannel[m]
      <4>1. \A t \in Tab, n \in Message \ {m} : msgView'[t][n] = msgView[t][n]
        BY DEF BroadcastMessage, FrontTypeOK
      <4> QED
        BY <3>2, <4>1 DEF MessagesFollow, FrontTypeOK
    <3> QED
      BY <3>1, <3>2
  <2> QED
    BY <2>2, <2>3 DEF ClosedShowsNothing, SubscribersAreLive, StatusShownIsColumn,
       FactsFollow, FrontTypeOK, vars
<1>14. ASSUME NEW u \in Url, NEW m \in Message, DeleteMessage(u, m) PROVE FrontInv'
  <2>1. /\ row' \in [Message -> Row] /\ deleted' \subseteq Message
        /\ \A n \in Message \ {m} : Visible(n)' = Visible(n)
    BY <1>14 DEF DeleteMessage, FrontTypeOK, Visible
  <2> QED
    BY <1>13, <1>14, <2>1 DEF DeleteMessage
<1>15. ASSUME NEW u \in Url, NEW m \in Message, NEW v \in Version, EditMessage(u, m, v)
       PROVE FrontInv'
  <2>1. /\ row' \in [Message -> Row] /\ deleted' \subseteq Message
        /\ \A n \in Message \ {m} : Visible(n)' = Visible(n)
    BY <1>15 DEF EditMessage, FrontTypeOK, Row, Visible
  <2> QED
    BY <1>13, <1>15, <2>1 DEF EditMessage
<1>16. ASSUME NEW u \in Url, NEW f \in Fact, NEW on \in {"on", "off"}, SetFact(u, f, on)
       PROVE FrontInv'
  <2> USE <1>16 DEF SetFact, Reached
  <2>1. FrontTypeOK'
    BY <1>0 DEF FrontTypeOK
  <2>2. FactsFollow'
    BY DEF FactsFollow, SubscribersAreLive, FrontTypeOK, TypeOK
  <2>3. MessagesFollow'
    BY DEF MessagesFollow, FrontTypeOK
  <2>4. ClosedShowsNothing'
    BY DEF ClosedShowsNothing, SubscribersAreLive, FrontTypeOK
  <2> QED
    BY <2>1, <2>2, <2>3, <2>4 DEF SubscribersAreLive, StatusShownIsColumn, FrontTypeOK, vars
<1>17. ASSUME NEW m \in Message, NEW saved, StoreStreamedReply(m, saved) PROVE FrontInv'
  <2> USE <1>17 DEF StoreStreamedReply
  <2>1. FrontTypeOK'
    BY <1>0 DEF FrontTypeOK, Row, Version
  <2>2. MessagesFollow'
    BY DEF MessagesFollow, Visible, FrontTypeOK
  <2> QED
    BY <2>1, <2>2 DEF ClosedShowsNothing, SubscribersAreLive, StatusShownIsColumn,
       FactsFollow, FrontTypeOK, vars
<1>18. ASSUME NEW m \in Message, AckMessage(m) PROVE FrontInv'
  <2> USE <1>18 DEF AckMessage
  <2>1. FrontTypeOK'
    BY <1>0 DEF FrontTypeOK
  <2>2. MessagesFollow'
    BY DEF MessagesFollow, Visible, FrontTypeOK
  <2> QED
    BY <2>1, <2>2 DEF ClosedShowsNothing, SubscribersAreLive, StatusShownIsColumn,
       FactsFollow, FrontTypeOK, vars
<1>19. CASE UNCHANGED frontVars
  BY <1>0, <1>19 DEF frontVars, vars, Visible, FrontTypeOK, ClosedShowsNothing, SubscribersAreLive,
     StatusShownIsColumn, FactsFollow, MessagesFollow
<1> QED
  BY <1>1, <1>2, <1>3, <1>4, <1>5, <1>6, <1>7, <1>8, <1>9, <1>10, <1>11, <1>12,
     <1>14, <1>15, <1>16, <1>17, <1>18, <1>19
  DEF FrontNext

-----------------------------------------------------------------------------
THEOREM FrontInvariant == FrontSpec => []FrontInv
<1> QED BY FrontInitInv, FrontNextInv, PTL DEF FrontSpec

(* Every variable of Frontend keeps its type. *)
THEOREM FrontTypeCorrect == FrontSpec => []FrontTypeOK
<1>1. FrontInv => FrontTypeOK
  BY DEF FrontInv
<1> QED BY <1>1, FrontInvariant, PTL

(* Every open tab is subscribed to its channel, and no dead socket stays.   *)
THEOREM SubscribersLive == FrontSpec => []SubscribersAreLive
<1>1. FrontInv => SubscribersAreLive
  BY DEF FrontInv
<1> QED BY <1>1, FrontInvariant, PTL

(* A loaded tab shows the table but for failed and untold changes.     *)
THEOREM TabsShowTable == FrontSpec => []TabShowsTable
<1>1. FrontInv => TabShowsTable
  BY DEF FrontInv, FrontTypeOK, FactsFollow, MessagesFollow, TabShowsTable
<1> QED BY <1>1, FrontInvariant, PTL

(* The status a tab was told last is its channel's plugin_status.           *)
THEOREM StatusShown == FrontSpec => []StatusShownIsColumn
<1>1. FrontInv => StatusShownIsColumn
  BY DEF FrontInv
<1> QED BY <1>1, FrontInvariant, PTL

(* The plugin side is not disturbed: every behaviour of Frontend is one of  *)
(* PluginWs, fairness aside, and keeps its invariant.                       *)
THEOREM FrontImplementsPluginWs == FrontSpec => Init /\ [][Next]_vars
<1>1. FrontInit => Init
  BY DEF FrontInit
<1> QED BY <1>1, StepIsPluginStep, PTL DEF FrontSpec

THEOREM PluginSideKeeps == FrontSpec => [](TypeOK /\ IInv)
<1>1. Init => TypeOK /\ IInv
  BY InitTypeOK, InitIInv
<1>2. TypeOK /\ IInv /\ [Next]_vars => (TypeOK /\ IInv)'
  BY NextTypeOK, NextIInv
<1> QED BY <1>1, <1>2, FrontImplementsPluginWs, PTL

-----------------------------------------------------------------------------
(* PluginReplay: the queued items and the sockets they are sent to.         *)

(* A strict total order of S, as a set of pairs, and what it puts before x. *)
StrictOrder(S, R) ==
  /\ \A x \in S : <<x, x>> \notin R
  /\ \A x, y, z \in S : <<x, y>> \in R /\ <<y, z>> \in R => <<x, z>> \in R
  /\ \A x, y \in S : x = y \/ <<x, y>> \in R \/ <<y, x>> \in R
Before(S, R, x) == {y \in S : <<y, x>> \in R}

(* Every place of Sorted is taken: the ranks are as many as the places, and *)
(* no two are the same.                                                     *)
LEMMA RankTaken ==
  ASSUME NEW S, IsFiniteSet(S), NEW R, StrictOrder(S, R), NEW i \in 1..Cardinality(S)
  PROVE  \E x \in S : Cardinality(Before(S, R, x)) = i - 1
<1> DEFINE before(x) == Before(S, R, x)
           rank == [x \in S |-> Cardinality(before(x)) + 1]
           T    == 1..Cardinality(S)
<1> USE DEF Before, StrictOrder
<1>1. IsFiniteSet(T) /\ Cardinality(T) = Cardinality(S) /\ Cardinality(S) \in Nat
  BY FS_CardinalityType, FS_Interval
<1>2. ASSUME NEW x \in S
      PROVE  IsFiniteSet(before(x)) /\ Cardinality(before(x)) \in 0..(Cardinality(S) - 1)
  <2>1. before(x) \in SUBSET (S \ {x})
    OBVIOUS
  <2>2. IsFiniteSet(S \ {x}) /\ Cardinality(S \ {x}) = Cardinality(S) - 1
    BY FS_RemoveElement
  <2> HIDE DEF before
  <2>3. IsFiniteSet(before(x)) /\ Cardinality(before(x)) <= Cardinality(S) - 1
    BY <2>1, <2>2, FS_Subset
  <2> QED
    BY <1>1, <2>3, FS_CardinalityType
<1>3. ASSUME NEW x \in S, NEW y \in S, <<x, y>> \in R
      PROVE  Cardinality(before(x)) < Cardinality(before(y))
  <2>1. before(x) \in SUBSET before(y) /\ x \in before(y) /\ x \notin before(x)
    BY <1>3
  <2> HIDE DEF before
  <2>2. Cardinality(before(x)) <= Cardinality(before(y))
    BY <1>2, <2>1, FS_Subset
  <2>3. Cardinality(before(x)) # Cardinality(before(y))
    BY <1>2, <2>1, FS_Subset
  <2> QED
    BY <1>2, <2>2, <2>3
<1> HIDE DEF before
<1>4. rank \in [S -> T]
  BY <1>1, <1>2
<1> HIDE DEF Before
<1>5. ASSUME NEW x \in S, NEW y \in S, rank[x] = rank[y] PROVE x = y
  <2>1. /\ Cardinality(before(x)) = Cardinality(before(y))
        /\ Cardinality(before(x)) \in Nat /\ Cardinality(before(y)) \in Nat
    BY <1>2, <1>5
  <2>2. <<x, y>> \notin R /\ <<y, x>> \notin R
    BY <1>3, <2>1
  <2> QED
    BY <2>2
<1>6. rank \in Surjection(S, T)
  BY <1>1, <1>4, <1>5, FS_Injection DEF Injection, IsInjective
<1>7. PICK x \in S : rank[x] = i
  BY <1>6 DEF Surjection
<1>8. Cardinality(before(x)) = i - 1
  BY <1>2, <1>7
<1> QED
  BY <1>8 DEF before

(* Rows of a table, one per id. *)
Rows(S) ==
  /\ \A r \in S : r.id \in 1..MaxItem
  /\ \A r, t \in S : r.id = t.id => r = t

USE QueueAssumption

(* Ids are bounded and distinct, so a table is finite.                      *)
LEMMA RowsFinite == ASSUME NEW S, Rows(S) PROVE IsFiniteSet(S)
<1> DEFINE id == [r \in S |-> r.id]
<1>1. id \in Injection(S, 1..MaxItem)
  BY DEF Rows, Injection, IsInjective
<1> QED
  BY <1>1, FS_Interval, FS_Injection

(* The columns the order compares are numbers.                              *)
LEMMA QueueRowNumbers ==
  ASSUME queue \subseteq QueueRow
  PROVE  \A r \in queue : r.prio \in Nat /\ r.id \in Nat
<1> SUFFICES ASSUME NEW r \in queue PROVE r.prio \in Nat /\ r.id \in Nat
  OBVIOUS
<1>1. r.prio \in Priority /\ r.id \in 1..MaxItem
  BY DEF QueueRow
<1>2. r.prio \in Nat
  BY <1>1
<1>3. r.id \in Nat
  BY <1>1
<1> QED
  BY <1>2, <1>3

(* A full table has an oldest row: the one of rank one.                     *)
LEMMA OldestIsRow ==
  ASSUME NEW S, Rows(S), Cardinality(S) >= QueueCapacity
  PROVE  Oldest(S) \in S
<1> DEFINE R == {p \in S \X S : p[1].id < p[2].id}
<1>1. IsFiniteSet(S) /\ Cardinality(S) \in Nat /\ 1 \in 1..Cardinality(S)
  BY RowsFinite, FS_CardinalityType
<1>2. StrictOrder(S, R)
  <2>1. \A x, y \in S : <<x, y>> \in R <=> x.id < y.id
    OBVIOUS
  <2>2. \A x \in S : x.id \in Nat
    BY DEF Rows
  <2>3. \A x, y \in S : x = y \/ x.id < y.id \/ y.id < x.id
    BY <2>2 DEF Rows
  <2> HIDE DEF R
  <2> QED
    BY <2>1, <2>2, <2>3 DEF StrictOrder
<1> HIDE DEF R
<1>3. PICK x \in S : Cardinality(Before(S, R, x)) = 1 - 1
  BY <1>1, <1>2, RankTaken
<1>4. Before(S, R, x) = {}
  <2>1. Before(S, R, x) \in SUBSET S
    BY DEF Before
  <2>2. IsFiniteSet(Before(S, R, x)) /\ Cardinality(Before(S, R, x)) = 0
    BY <1>1, <1>3, <2>1, FS_Subset
  <2> QED
    BY <2>2, FS_EmptySet
<1>5. ASSUME NEW t \in S PROVE x.id <= t.id
  <2>1. <<t, x>> \notin R
    BY <1>4 DEF Before
  <2>2. ~(t.id < x.id)
    BY <2>1 DEF R
  <2> QED
    BY <2>2 DEF Rows
<1> QED
  BY <1>5 DEF Oldest

(* The two lists hold rows of the channel, in a finite sequence.            *)
LEMMA ListedAreRows ==
  ASSUME NEW c \in Channel, queue \subseteq QueueRow, Rows(queue),
         offline \subseteq OfflineRow, Rows(offline)
  PROVE  ListQueue(c) \in Seq(PendingOf(c)) /\ ListOffline(c) \in Seq(OfflineOf(c))
<1>1. ListQueue(c) \in Seq(PendingOf(c))
  <2> DEFINE S == PendingOf(c)
             R == {p \in S \X S : QueueBefore(p[1], p[2])}
  <2>1. Rows(S) /\ \A r \in S : r.prio \in Nat /\ r.id \in Nat
    <3>1. S \in SUBSET queue
      BY DEF PendingOf
    <3>2. \A r \in queue : r.prio \in Nat /\ r.id \in Nat
      BY QueueRowNumbers
    <3> HIDE DEF S
    <3> QED
      BY <3>1, <3>2 DEF Rows
  <2>2. IsFiniteSet(S) /\ Cardinality(S) \in Nat
    BY <2>1, RowsFinite, FS_CardinalityType
  <2>3. \A x, y \in S : <<x, y>> \in R <=> QueueBefore(x, y)
    OBVIOUS
  <2>4. StrictOrder(S, R)
    <3> HIDE DEF R, S
    <3>1. \A x, y \in S : x = y \/ x.id < y.id \/ y.id < x.id
      BY <2>1 DEF Rows
    <3> QED
      BY <2>1, <2>3, <3>1 DEF QueueBefore, StrictOrder
  <2>5. \A x \in S : Before(S, R, x) = {y \in S : QueueBefore(y, x)}
    BY <2>3 DEF Before
  <2> HIDE DEF R, S
  <2>6. ASSUME NEW i \in 1..Cardinality(S)
        PROVE  \E x \in S : Cardinality({y \in S : QueueBefore(y, x)}) = i - 1
    <3>1. \E x \in S : Cardinality(Before(S, R, x)) = i - 1
      BY <2>2, <2>4, RankTaken
    <3> QED
      BY <2>5, <3>1
  <2>7. Sorted(S, QueueBefore) \in [1..Cardinality(S) -> S]
    BY <2>6 DEF Sorted
  <2>8. Sorted(S, QueueBefore) \in Seq(S)
    BY <2>2, <2>7
  <2> QED
    BY <2>8 DEF ListQueue, FirstN, S
<1>2. ListOffline(c) \in Seq(OfflineOf(c))
  <2> DEFINE S == OfflineOf(c)
             R == {p \in S \X S : p[1].id < p[2].id}
  <2>1. Rows(S) /\ \A r \in S : r.id \in Nat
    BY DEF Rows, OfflineOf, OfflineRow
  <2>2. IsFiniteSet(S) /\ Cardinality(S) \in Nat
    BY <2>1, RowsFinite, FS_CardinalityType
  <2>3. \A x, y \in S : <<x, y>> \in R <=> x.id < y.id
    OBVIOUS
  <2>4. StrictOrder(S, R)
    <3> HIDE DEF R, S
    <3>1. \A x, y \in S : x = y \/ x.id < y.id \/ y.id < x.id
      BY <2>1 DEF Rows
    <3> QED
      BY <2>1, <2>3, <3>1 DEF StrictOrder
  <2>5. \A x \in S : Before(S, R, x) = {y \in S : y.id < x.id}
    BY <2>3 DEF Before
  <2> HIDE DEF R, S
  <2>6. ASSUME NEW i \in 1..Cardinality(S)
        PROVE  \E x \in S : Cardinality({y \in S : y.id < x.id}) = i - 1
    <3>1. \E x \in S : Cardinality(Before(S, R, x)) = i - 1
      BY <2>2, <2>4, RankTaken
    <3> QED
      BY <2>5, <3>1
  <2>7. Sorted(S, IdBefore) \in [1..Cardinality(S) -> S]
    BY <2>6 DEF Sorted, IdBefore
  <2>8. Sorted(S, IdBefore) \in Seq(S)
    BY <2>2, <2>7
  <2> QED
    BY <2>8 DEF ListOffline, FirstN, S
<1> QED
  BY <1>1, <1>2

-----------------------------------------------------------------------------
(* Items exist once their row was created, and stay so. *)
Created == {it \in Item : it[2] <= lastItem[it[1]]}
ItemsCreated ==
  /\ \A r \in queue : <<"queue", r.id>> \in Created
  /\ \A r \in offline : <<"offline", r.id>> \in Created
  /\ flushed \subseteq Created
  /\ outbox \in [Sock -> Seq(Created)]

(* What a transport took is not offered to another one. *)
FlushedIsDone ==
  /\ \A r \in queue : <<"queue", r.id>> \in flushed => r.status # "pending"
  /\ \A r \in offline : <<"offline", r.id>> \notin flushed

ReplayInv ==
  /\ ReplayTypeOK
  /\ Rows(queue) /\ Rows(offline)
  /\ ItemsCreated
  /\ FlushedIsDone
  /\ OfflineItemNotLost
  /\ ProcessingWasSent

(* A new socket is offered items of pending rows only. *)
LEMMA ReplayedIsPending ==
  ASSUME ReplayInv, NEW c \in Channel
  PROVE  Replayed(c) \in Seq(Created \ flushed)
<1>1. ListQueue(c) \in Seq(PendingOf(c)) /\ ListOffline(c) \in Seq(OfflineOf(c))
  BY ListedAreRows DEF ReplayInv, ReplayTypeOK
<1>2. \A r \in PendingOf(c) : <<"queue", r.id>> \in Created \ flushed
  BY DEF PendingOf, ReplayInv, ItemsCreated, FlushedIsDone
<1>3. \A r \in OfflineOf(c) : <<"offline", r.id>> \in Created \ flushed
  BY DEF OfflineOf, ReplayInv, ItemsCreated, FlushedIsDone
<1>4. Frames("queue", ListQueue(c)) \in Seq(Created \ flushed)
  <2> DEFINE L == ListQueue(c)
  <2>1. L \in Seq(PendingOf(c))
    BY <1>1
  <2> HIDE DEF L
  <2>2. DOMAIN L = 1..Len(L) /\ Len(L) \in Nat /\ \A i \in 1..Len(L) : L[i] \in PendingOf(c)
    BY <2>1
  <2>3. Frames("queue", L) \in [1..Len(L) -> Created \ flushed]
    BY <1>2, <2>2 DEF Frames
  <2>4. Frames("queue", L) \in Seq(Created \ flushed)
    BY <2>2, <2>3
  <2> QED
    BY <2>4 DEF L
<1>5. Frames("offline", ListOffline(c)) \in Seq(Created \ flushed)
  <2> DEFINE L == ListOffline(c)
  <2>1. L \in Seq(OfflineOf(c))
    BY <1>1
  <2> HIDE DEF L
  <2>2. DOMAIN L = 1..Len(L) /\ Len(L) \in Nat /\ \A i \in 1..Len(L) : L[i] \in OfflineOf(c)
    BY <2>1
  <2>3. Frames("offline", L) \in [1..Len(L) -> Created \ flushed]
    BY <1>3, <2>2 DEF Frames
  <2>4. Frames("offline", L) \in Seq(Created \ flushed)
    BY <2>2, <2>3
  <2> QED
    BY <2>4 DEF L
<1> QED
  BY <1>4, <1>5 DEF Replayed

(* A new row has an id no item ever had; the evicted one is recorded.       *)
LEMMA EnqueueQueueStep ==
  ASSUME ReplayInv, NEW c \in Channel, NEW p \in Priority, EnqueueQueue(c, p)
  PROVE  ReplayInv'
<1> DEFINE gone == Evict(PendingOf(c))
           n    == lastItem["queue"] + 1
           new  == [id |-> n, chan |-> c, prio |-> p, status |-> "pending"]
<1> USE DEF ReplayInv
<1>1. /\ lastItem \in [Table -> 0..MaxItem] /\ lastItem["queue"] < MaxItem
      /\ lastItem' = [lastItem EXCEPT !["queue"] = n]
      /\ n \in 1..MaxItem /\ lastItem'["queue"] = n /\ "queue" \in Table /\ "offline" \in Table
  BY DEF EnqueueQueue, ReplayTypeOK, Table
<1>2. /\ queue' = (queue \ gone) \cup {new}
      /\ evicted' = evicted \cup {<<"queue", r.id>> : r \in gone}
      /\ UNCHANGED <<vars, offline, outbox, flushed>>
  BY <1>1 DEF EnqueueQueue
<1>3. gone \subseteq queue
  <2>1. PendingOf(c) \subseteq queue
    BY DEF PendingOf
  <2>2. Rows(PendingOf(c))
    BY <2>1 DEF Rows
  <2> QED
    BY <2>1, <2>2, OldestIsRow DEF Evict
<1> HIDE DEF gone
<1>4. new \in QueueRow
  BY <1>1 DEF QueueRow
<1>5. Created \subseteq Created' /\ <<"queue", n>> \in Created' /\ <<"queue", n>> \notin Created
  <2>1. ASSUME NEW it \in Created PROVE it \in Created'
    <3>1. it \in Item /\ it[2] <= lastItem[it[1]] /\ it[1] \in Table /\ it[2] \in 1..MaxItem
      BY DEF Created, Item
    <3>2. lastItem[it[1]] <= lastItem'[it[1]] /\ lastItem'[it[1]] \in Nat /\ lastItem[it[1]] \in Nat
      BY <1>1, <3>1
    <3> QED
      BY <3>1, <3>2 DEF Created, Item
  <2>2. <<"queue", n>> \in Item
    BY <1>1 DEF Item
  <2>3. <<"queue", n>> \notin Created
    BY <1>1 DEF Created
  <2>4. <<"queue", n>> \in Created'
    BY <1>1, <2>2 DEF Created, Item
  <2> QED
    BY <2>1, <2>3, <2>4
<1>6. ReplayTypeOK'
  <2>1. TypeOK'
    BY <1>2, NextTypeOK DEF ReplayTypeOK, vars
  <2>2. evicted' \subseteq Item
    BY <1>1, <1>2, <1>3 DEF ReplayTypeOK, Item, QueueRow
  <2> QED
    BY <1>1, <1>2, <1>4, <2>1, <2>2 DEF ReplayTypeOK
<1>7. Rows(queue)' /\ Rows(offline)'
  <2>1. \A r \in queue : r.id # n
    BY <1>5 DEF ItemsCreated
  <2> QED
    BY <1>1, <1>2, <2>1 DEF Rows
<1>8. ItemsCreated'
  <2>1. outbox' \in [Sock -> Seq(Created')]
    BY <1>2, <1>5 DEF ItemsCreated
  <2>2. \A r \in queue' : <<"queue", r.id>> \in Created'
    <3>1. \A r \in queue' : r \in queue \/ r.id = n
      BY <1>2
    <3>2. \A r \in queue : <<"queue", r.id>> \in Created'
      BY <1>5 DEF ItemsCreated
    <3> QED
      BY <1>5, <3>1, <3>2
  <2>3. \A r \in offline' : <<"offline", r.id>> \in Created'
    BY <1>2, <1>5 DEF ItemsCreated
  <2>4. flushed' \subseteq Created'
    BY <1>2, <1>5 DEF ItemsCreated
  <2> QED
    BY <2>1, <2>2, <2>3, <2>4 DEF ItemsCreated
<1>9. FlushedIsDone' /\ ProcessingWasSent'
  <2>1. flushed' = flushed /\ offline' = offline /\ <<"queue", n>> \notin flushed
    BY <1>2, <1>5 DEF ItemsCreated
  <2>2. \A r \in queue' : r \in queue \/ r = new
    BY <1>2
  <2>3. new.id = n /\ new.status = "pending"
    OBVIOUS
  <2> HIDE DEF new
  <2>4. FlushedIsDone'
    BY <2>1, <2>2, <2>3 DEF FlushedIsDone
  <2>5. ProcessingWasSent'
    BY <2>1, <2>2, <2>3 DEF ProcessingWasSent
  <2> QED
    BY <2>4, <2>5
<1>10. OfflineItemNotLost'
  BY <1>1, <1>2 DEF OfflineItemNotLost
<1> QED
  BY <1>6, <1>7, <1>8, <1>9, <1>10

(* The same for the other table, whose rows the promise is about.           *)
LEMMA EnqueueOfflineStep ==
  ASSUME ReplayInv, NEW c \in Channel, EnqueueOffline(c)
  PROVE  ReplayInv'
<1> DEFINE gone == Evict(OfflineOf(c))
           n    == lastItem["offline"] + 1
           new  == [id |-> n, chan |-> c]
<1> USE DEF ReplayInv
<1>1. /\ lastItem \in [Table -> 0..MaxItem] /\ lastItem["offline"] < MaxItem
      /\ lastItem' = [lastItem EXCEPT !["offline"] = n]
      /\ n \in 1..MaxItem /\ lastItem'["offline"] = n /\ "queue" \in Table /\ "offline" \in Table
  BY DEF EnqueueOffline, ReplayTypeOK, Table
<1>2. /\ offline' = (offline \ gone) \cup {new}
      /\ evicted' = evicted \cup {<<"offline", r.id>> : r \in gone}
      /\ UNCHANGED <<vars, queue, outbox, flushed>>
  BY <1>1 DEF EnqueueOffline
<1>3. gone \subseteq offline
  <2>1. OfflineOf(c) \subseteq offline
    BY DEF OfflineOf
  <2>2. Rows(OfflineOf(c))
    BY <2>1 DEF Rows
  <2> QED
    BY <2>1, <2>2, OldestIsRow DEF Evict
<1> HIDE DEF gone
<1>4. new \in OfflineRow
  BY <1>1 DEF OfflineRow
<1>5. Created \subseteq Created' /\ <<"offline", n>> \in Created' /\ <<"offline", n>> \notin Created
  <2>1. ASSUME NEW it \in Created PROVE it \in Created'
    <3>1. it \in Item /\ it[2] <= lastItem[it[1]] /\ it[1] \in Table /\ it[2] \in 1..MaxItem
      BY DEF Created, Item
    <3>2. lastItem[it[1]] <= lastItem'[it[1]] /\ lastItem'[it[1]] \in Nat /\ lastItem[it[1]] \in Nat
      BY <1>1, <3>1
    <3> QED
      BY <3>1, <3>2 DEF Created, Item
  <2>2. <<"offline", n>> \in Item
    BY <1>1 DEF Item
  <2>3. <<"offline", n>> \notin Created
    BY <1>1 DEF Created
  <2>4. <<"offline", n>> \in Created'
    BY <1>1, <2>2 DEF Created, Item
  <2> QED
    BY <2>1, <2>3, <2>4
<1>6. ReplayTypeOK'
  <2>1. TypeOK'
    BY <1>2, NextTypeOK DEF ReplayTypeOK, vars
  <2>2. evicted' \subseteq Item
    BY <1>1, <1>2, <1>3 DEF ReplayTypeOK, Item, OfflineRow
  <2> QED
    BY <1>1, <1>2, <1>4, <2>1, <2>2 DEF ReplayTypeOK
<1>7. Rows(queue)' /\ Rows(offline)'
  <2>1. \A r \in offline : r.id # n
    BY <1>5 DEF ItemsCreated
  <2> QED
    BY <1>1, <1>2, <2>1 DEF Rows
<1>8. ItemsCreated'
  <2>1. outbox' \in [Sock -> Seq(Created')]
    BY <1>2, <1>5 DEF ItemsCreated
  <2>2. \A r \in offline' : <<"offline", r.id>> \in Created'
    <3>1. \A r \in offline' : r \in offline \/ r.id = n
      BY <1>2
    <3>2. \A r \in offline : <<"offline", r.id>> \in Created'
      BY <1>5 DEF ItemsCreated
    <3> QED
      BY <1>5, <3>1, <3>2
  <2>3. \A r \in queue' : <<"queue", r.id>> \in Created'
    BY <1>2, <1>5 DEF ItemsCreated
  <2>4. flushed' \subseteq Created'
    BY <1>2, <1>5 DEF ItemsCreated
  <2> QED
    BY <2>1, <2>2, <2>3, <2>4 DEF ItemsCreated
<1>9. FlushedIsDone' /\ ProcessingWasSent'
  <2>1. flushed' = flushed /\ queue' = queue /\ <<"offline", n>> \notin flushed
    BY <1>2, <1>5 DEF ItemsCreated
  <2>2. \A r \in offline' : r \in offline \/ r = new
    BY <1>2
  <2>3. new.id = n
    OBVIOUS
  <2> HIDE DEF new
  <2>4. FlushedIsDone'
    BY <2>1, <2>2, <2>3 DEF FlushedIsDone
  <2>5. ProcessingWasSent'
    BY <2>1, <2>2, <2>3 DEF ProcessingWasSent
  <2> QED
    BY <2>4, <2>5
<1>10. OfflineItemNotLost'
  <2> SUFFICES ASSUME NEW i \in 1..n
               PROVE  \/ \E r \in offline' : r.id = i
                      \/ <<"offline", i>> \in flushed' \cup evicted'
    BY <1>1 DEF OfflineItemNotLost
  <2>1. CASE i = n
    <3>1. new \in offline' /\ new.id = n
      BY <1>2
    <3> QED
      BY <2>1, <3>1
  <2>2. CASE i # n
    <3>1. i \in 1..lastItem["offline"]
      BY <1>1, <2>2
    <3>2. CASE <<"offline", i>> \in flushed \cup evicted
      BY <1>2, <3>2
    <3>3. ASSUME NEW r \in offline, r.id = i
          PROVE  r \in offline' \/ <<"offline", i>> \in evicted'
      BY <1>2, <3>3
    <3> QED
      BY <3>1, <3>2, <3>3 DEF OfflineItemNotLost
  <2> QED
    BY <2>1, <2>2
<1> QED
  BY <1>6, <1>7, <1>8, <1>9, <1>10

(* A message that is queued already gets no row, and may cost one.          *)
LEMMA EnqueueOfflineAgainStep ==
  ASSUME ReplayInv, NEW c \in Channel, EnqueueOfflineAgain(c)
  PROVE  ReplayInv'
<1> DEFINE gone == Evict(OfflineOf(c))
<1> USE DEF ReplayInv
<1>1. /\ offline' = offline \ gone
      /\ evicted' = evicted \cup {<<"offline", r.id>> : r \in gone}
      /\ UNCHANGED <<vars, queue, lastItem, outbox, flushed>>
  BY DEF EnqueueOfflineAgain
<1>2. gone \subseteq offline
  <2>1. OfflineOf(c) \subseteq offline
    BY DEF OfflineOf
  <2>2. Rows(OfflineOf(c))
    BY <2>1 DEF Rows
  <2> QED
    BY <2>1, <2>2, OldestIsRow DEF Evict
<1> HIDE DEF gone
<1>3. ReplayTypeOK'
  <2>1. TypeOK'
    BY <1>1, NextTypeOK DEF ReplayTypeOK, vars
  <2>2. evicted' \subseteq Item
    BY <1>1, <1>2 DEF ReplayTypeOK, Item, OfflineRow, Table
  <2> QED
    BY <1>1, <2>1, <2>2 DEF ReplayTypeOK
<1>4. Created' = Created /\ offline' \subseteq offline
  BY <1>1 DEF Created
<1>5. Rows(queue)' /\ Rows(offline)' /\ ItemsCreated'
  BY <1>1, <1>4 DEF Rows, ItemsCreated
<1>6. FlushedIsDone' /\ ProcessingWasSent'
  BY <1>1, <1>4 DEF FlushedIsDone, ProcessingWasSent
<1>7. OfflineItemNotLost'
  <2>1. \A r \in offline : r \in offline' \/ <<"offline", r.id>> \in evicted'
    BY <1>1
  <2> QED
    BY <1>1, <2>1 DEF OfflineItemNotLost
<1> QED
  BY <1>3, <1>5, <1>6, <1>7

(* A new socket is given nothing that was taken before.                     *)
LEMMA ConnectStep ==
  ASSUME ReplayInv, NEW c \in Channel, Connect(c)
  PROVE  ReplayInv' /\ ToSet(outbox'[lastSock']) \cap flushed = {}
<1> USE DEF ReplayInv
<1>1. /\ HandleConnection(c)
      /\ outbox' = [outbox EXCEPT ![lastSock'] = Replayed(c)]
      /\ UNCHANGED <<queue, offline, lastItem, flushed, evicted>>
  BY DEF Connect
<1>2. TypeOK'
  BY <1>1, NextTypeOK DEF ReplayTypeOK, Next
<1>3. lastSock' \in Sock
  BY <1>1, BoundsAssumption DEF HandleConnection, ReplayTypeOK, TypeOK, Sock
<1>4. Replayed(c) \in Seq(Created \ flushed)
  BY ReplayedIsPending
<1>5. outbox' \in [Sock -> Seq(Created)] /\ outbox'[lastSock'] = Replayed(c)
  <2>1. outbox \in [Sock -> Seq(Created)]
    BY DEF ItemsCreated
  <2>2. Replayed(c) \in Seq(Created)
    BY <1>4
  <2> QED
    BY <1>1, <1>3, <2>1, <2>2
<1>6. Created' = Created /\ Created \subseteq Item
  BY <1>1 DEF Created
<1>7. outbox' \in [Sock -> Seq(Item)]
  BY <1>5, <1>6
<1>8. ReplayTypeOK'
  BY <1>1, <1>2, <1>7 DEF ReplayTypeOK
<1>9. ItemsCreated'
  BY <1>1, <1>5, <1>6 DEF ItemsCreated
<1>10. Rows(queue)' /\ Rows(offline)' /\ FlushedIsDone' /\ OfflineItemNotLost' /\ ProcessingWasSent'
  BY <1>1 DEF Rows, FlushedIsDone, OfflineItemNotLost, ProcessingWasSent
<1>11. ToSet(outbox'[lastSock']) \cap flushed = {}
  BY <1>4, <1>5 DEF ToSet
<1> QED
  BY <1>8, <1>9, <1>10, <1>11

(* What UPDATE ... SET status = ? leaves alone. *)
LEMMA UpdateStatusKeeps ==
  ASSUME ReplayInv, NEW items, NEW status \in {"processing", "failed"}, UpdateStatus(items, status)
  PROVE  /\ queue' \subseteq QueueRow /\ Rows(queue')
         /\ \A r \in queue' :
              \E t \in queue : /\ t.id = r.id
                              /\ r.status = IF <<"queue", t.id>> \in items THEN status
                                           ELSE t.status
<1> DEFINE upd(r) == IF <<"queue", r.id>> \in items THEN [r EXCEPT !.status = status] ELSE r
<1>1. queue' = {upd(r) : r \in queue}
  BY DEF UpdateStatus
<1>2. ASSUME NEW r \in queue
      PROVE  /\ upd(r) \in QueueRow /\ upd(r).id = r.id /\ r.id \in 1..MaxItem
             /\ upd(r).status = IF <<"queue", r.id>> \in items THEN status ELSE r.status
  BY DEF ReplayInv, ReplayTypeOK, QueueRow
<1> HIDE DEF upd
<1>3. Rows(queue')
  <2>1. \A x \in queue' : \E r \in queue : x = upd(r) /\ x.id = r.id
    BY <1>1, <1>2
  <2>2. \A x \in queue' : x.id \in 1..MaxItem
    BY <1>2, <2>1
  <2>3. \A x, y \in queue' : x.id = y.id => x = y
    <3>1. \A r, t \in queue : r.id = t.id => r = t
      BY DEF Rows, ReplayInv
    <3> QED
      BY <2>1, <3>1
  <2> QED
    BY <2>2, <2>3 DEF Rows
<1> QED
  BY <1>1, <1>2, <1>3

(* What was taken leaves the pending rows in the same step.                 *)
LEMMA FlushedStep ==
  ASSUME ReplayInv, NEW s \in Sock, Flushed(s)
  PROVE  ReplayInv'
<1> DEFINE item == Head(outbox[s])
<1> USE DEF ReplayInv
<1>1. /\ outbox[s] # << >>
      /\ UpdateStatus({item}, "processing")
      /\ offline' = {r \in offline : <<"offline", r.id>> # item}
      /\ flushed' = flushed \cup {item}
      /\ outbox' = [outbox EXCEPT ![s] = Tail(@)]
      /\ UNCHANGED <<vars, lastItem, evicted>>
  BY DEF Flushed
<1>2. outbox \in [Sock -> Seq(Created)] /\ outbox[s] \in Seq(Created) /\ Created \subseteq Item
  BY DEF ItemsCreated, Created
<1>3. item \in Created /\ Tail(outbox[s]) \in Seq(Created)
  BY <1>1, <1>2
<1>4. outbox' \in [Sock -> Seq(Created)] /\ outbox' \in [Sock -> Seq(Item)]
  <2>1. outbox' \in [Sock -> Seq(Created)]
    BY <1>1, <1>2, <1>3
  <2> QED
    BY <1>2, <2>1
<1> HIDE DEF item
<1>5. Created' = Created
  BY <1>1 DEF Created
<1>6. /\ queue' \subseteq QueueRow /\ Rows(queue')
      /\ \A r \in queue' :
           \E t \in queue : /\ t.id = r.id
                           /\ r.status = IF <<"queue", t.id>> \in {item} THEN "processing"
                                        ELSE t.status
  BY <1>1, UpdateStatusKeeps
<1>7. TypeOK'
  BY <1>1, NextTypeOK DEF ReplayTypeOK, vars
<1>8. ReplayTypeOK'
  BY <1>1, <1>2, <1>3, <1>4, <1>6, <1>7 DEF ReplayTypeOK
<1>9. Rows(offline)'
  BY <1>1 DEF Rows
<1>10. ItemsCreated'
  <2>1. \A r \in queue' : <<"queue", r.id>> \in Created
    BY <1>6 DEF ItemsCreated
  <2> QED
    BY <1>1, <1>3, <1>4, <1>5, <2>1 DEF ItemsCreated
<1>11. FlushedIsDone'
  <2>1. \A r \in queue' : <<"queue", r.id>> \in flushed' => r.status # "pending"
    BY <1>1, <1>6 DEF FlushedIsDone
  <2>2. \A r \in offline' : <<"offline", r.id>> \notin flushed'
    BY <1>1 DEF FlushedIsDone
  <2> QED
    BY <2>1, <2>2 DEF FlushedIsDone
<1>12. OfflineItemNotLost'
  BY <1>1 DEF OfflineItemNotLost
<1>13. ProcessingWasSent'
  BY <1>1, <1>6 DEF ProcessingWasSent
<1> QED
  BY <1>6, <1>8, <1>9, <1>10, <1>11, <1>12, <1>13

(* A failure marks rows and deletes none.                                   *)
LEMMA SendFailedStep ==
  ASSUME ReplayInv, NEW s \in Sock, SendFailed(s)
  PROVE  ReplayInv'
<1> USE DEF ReplayInv
<1>1. /\ UpdateStatus(ToSet(outbox[s]), "failed")
      /\ outbox' = [outbox EXCEPT ![s] = << >>]
      /\ UNCHANGED <<vars, offline, lastItem, flushed, evicted>>
  BY DEF SendFailed
<1>2. outbox' \in [Sock -> Seq(Created)] /\ outbox' \in [Sock -> Seq(Item)]
  <2>1. outbox \in [Sock -> Seq(Created)] /\ Created \subseteq Item
    BY DEF ItemsCreated, Created
  <2>2. outbox' \in [Sock -> Seq(Created)]
    BY <1>1, <2>1
  <2> QED
    BY <2>1, <2>2
<1>3. Created' = Created
  BY <1>1 DEF Created
<1>4. /\ queue' \subseteq QueueRow /\ Rows(queue')
      /\ \A r \in queue' : \E t \in queue : t.id = r.id /\ r.status \in {"failed", t.status}
  <2> DEFINE items == ToSet(outbox[s])
  <2>1. UpdateStatus(items, "failed")
    BY <1>1
  <2> HIDE DEF items
  <2>2. /\ queue' \subseteq QueueRow /\ Rows(queue')
        /\ \A r \in queue' :
             \E t \in queue : /\ t.id = r.id
                             /\ r.status = IF <<"queue", t.id>> \in items THEN "failed"
                                          ELSE t.status
    BY <2>1, UpdateStatusKeeps
  <2> QED
    BY <2>2
<1>5. TypeOK'
  BY <1>1, NextTypeOK DEF ReplayTypeOK, vars
<1>6. ReplayTypeOK'
  BY <1>1, <1>2, <1>4, <1>5 DEF ReplayTypeOK
<1>7. Rows(offline)' /\ OfflineItemNotLost'
  BY <1>1 DEF Rows, OfflineItemNotLost
<1>8. ItemsCreated'
  BY <1>1, <1>2, <1>3, <1>4 DEF ItemsCreated
<1>9. FlushedIsDone' /\ ProcessingWasSent'
  BY <1>1, <1>4 DEF FlushedIsDone, ProcessingWasSent
<1> QED
  BY <1>4, <1>6, <1>7, <1>8, <1>9

(* A step of PluginWs alone. *)
LEMMA SocketStep ==
  ASSUME ReplayInv, [Next]_vars, UNCHANGED <<queue, offline, lastItem, flushed, evicted>>,
         outbox' = outbox \/ outbox' = [s \in Sock |-> << >>]
  PROVE  ReplayInv'
<1> USE DEF ReplayInv
<1>1. TypeOK'
  BY NextTypeOK DEF ReplayTypeOK
<1>2. Created' = Created
  BY DEF Created
<1>3. outbox' \in [Sock -> Seq(Item)] /\ outbox' \in [Sock -> Seq(Created)]
  <2>1. \A X : << >> \in Seq(X)
    OBVIOUS
  <2>2. outbox \in [Sock -> Seq(Item)] /\ outbox \in [Sock -> Seq(Created)]
    BY DEF ReplayTypeOK, ItemsCreated
  <2> QED
    BY <2>1, <2>2
<1>4. ReplayTypeOK' /\ ItemsCreated'
  BY <1>1, <1>2, <1>3 DEF ReplayTypeOK, ItemsCreated
<1>5. Rows(queue)' /\ Rows(offline)' /\ FlushedIsDone' /\ OfflineItemNotLost' /\ ProcessingWasSent'
  BY DEF Rows, FlushedIsDone, OfflineItemNotLost, ProcessingWasSent
<1> QED
  BY <1>4, <1>5

(* Every step of PluginReplay is one of PluginWs or leaves its variables.   *)
LEMMA ReplayStepIsPluginStep == [ReplayNext]_replayVars => [Next]_vars
<1> SUFFICES ASSUME ReplayNext PROVE [Next]_vars
  BY DEF replayVars
<1>1. CASE \E c \in Channel : Connect(c)
  BY <1>1 DEF Connect, Next
<1>2. CASE \E c \in Channel, t \in Sock : OfflineTimer(c, t) /\ UNCHANGED queueVars
  BY <1>2 DEF Next
<1>3. CASE \E c \in Channel : \/ EnqueueOffline(c) \/ EnqueueOfflineAgain(c)
                             \/ \E p \in Priority : EnqueueQueue(c, p)
  BY <1>3 DEF EnqueueOffline, EnqueueOfflineAgain, EnqueueQueue
<1>4. CASE \E s \in Sock : Flushed(s) \/ SendFailed(s)
  BY <1>4 DEF Flushed, SendFailed, vars
<1>5. CASE \E s \in Sock : (PeerCloses(s) \/ CloseEvent(s)) /\ UNCHANGED queueVars
  BY <1>5 DEF Next
<1>6. CASE CrashAndRestart
  BY <1>6 DEF CrashAndRestart, Next
<1>7. CASE \E c \in Channel : DeleteChannel(c) /\ UNCHANGED queueVars
  BY <1>7 DEF Next
<1> QED
  BY <1>1, <1>2, <1>3, <1>4, <1>5, <1>6, <1>7 DEF ReplayNext

(* The invariant of every step, and what a step that accepts a socket gives *)
(* to it.                                                                   *)
LEMMA ReplayStep ==
  ASSUME ReplayInv, [ReplayNext]_replayVars
  PROVE  /\ ReplayInv'
         /\ lastSock' # lastSock => ToSet(outbox'[lastSock']) \cap flushed = {}
<1>1. CASE \E c \in Channel : Connect(c)
  BY <1>1, ConnectStep
<1>2. CASE \E c \in Channel : \/ EnqueueOffline(c) \/ EnqueueOfflineAgain(c)
                             \/ \E p \in Priority : EnqueueQueue(c, p)
  BY <1>2, EnqueueQueueStep, EnqueueOfflineStep, EnqueueOfflineAgainStep
     DEF EnqueueQueue, EnqueueOffline, EnqueueOfflineAgain, vars
<1>3. CASE \E s \in Sock : Flushed(s) \/ SendFailed(s)
  BY <1>3, FlushedStep, SendFailedStep DEF Flushed, SendFailed, vars
<1>4. CASE CrashAndRestart
  <2>1. ReplayInv'
    BY <1>4, SocketStep DEF CrashAndRestart, Next
  <2> QED
    BY <1>4, <2>1 DEF CrashAndRestart, Restart
<1>5. CASE \E c \in Channel : \/ DeleteChannel(c) /\ UNCHANGED queueVars
                             \/ \E t \in Sock : OfflineTimer(c, t) /\ UNCHANGED queueVars
  <2>1. lastSock' = lastSock
    BY <1>5 DEF DeleteChannel, OfflineTimer
  <2> QED
    BY <1>5, <2>1, SocketStep DEF Next, queueVars
<1>6. CASE \E s \in Sock : (PeerCloses(s) \/ CloseEvent(s)) /\ UNCHANGED queueVars
  <2>1. lastSock' = lastSock
    BY <1>6 DEF PeerCloses, CloseEvent
  <2> QED
    BY <1>6, <2>1, SocketStep DEF Next, queueVars
<1>7. CASE UNCHANGED replayVars
  <2>1. UNCHANGED vars /\ UNCHANGED queueVars /\ lastSock' = lastSock
    BY <1>7 DEF replayVars, vars
  <2> QED
    BY <2>1, SocketStep DEF queueVars
<1> QED
  BY <1>1, <1>2, <1>3, <1>4, <1>5, <1>6, <1>7 DEF ReplayNext

(* Nothing is queued, sent or taken.                                        *)
LEMMA InitReplayInv == ReplayInit => ReplayInv
<1> SUFFICES ASSUME ReplayInit PROVE ReplayInv
  OBVIOUS
<1>1. TypeOK
  BY InitTypeOK DEF ReplayInit
<1>2. lastItem["offline"] = 0 /\ 0 \in 0..MaxItem
  BY DEF ReplayInit, Table
<1>3. ReplayTypeOK
  BY <1>1, <1>2 DEF ReplayInit, ReplayTypeOK
<1> QED
  BY <1>2, <1>3 DEF ReplayInit, ReplayInv, Rows, ItemsCreated, FlushedIsDone,
     OfflineItemNotLost, ProcessingWasSent

THEOREM ReplayInvariant == ReplaySpec => []ReplayInv
  BY InitReplayInv, ReplayStep, PTL DEF ReplaySpec

(* Every variable of PluginReplay keeps its type. *)
THEOREM ReplayTypeCorrect == ReplaySpec => []ReplayTypeOK
  BY ReplayInvariant, PTL DEF ReplayInv

(* Breaks, crashes and takeovers lose no offline message. *)
THEOREM OfflineNotLost == ReplaySpec => []OfflineItemNotLost
  BY ReplayInvariant, PTL DEF ReplayInv

(* 'processing' means that a transport took the item. *)
THEOREM ProcessingSent == ReplaySpec => []ProcessingWasSent
  BY ReplayInvariant, PTL DEF ReplayInv

(* No connection is given an item that a transport has taken. *)
THEOREM SentOnce == ReplaySpec => NoResendOnceSent
<1>1. ReplayInv /\ [ReplayNext]_replayVars
        => [lastSock' # lastSock => ToSet(outbox'[lastSock']) \cap flushed = {}]_replayVars
  BY ReplayStep
<1> QED
  BY <1>1, ReplayInvariant, PTL DEF ReplaySpec, NoResendOnceSent

(* The queues do not disturb the sockets: every behaviour of PluginReplay   *)
(* is one of PluginWs, fairness aside, and keeps its invariant.             *)
THEOREM ReplayImplementsPluginWs == ReplaySpec => Init /\ [][Next]_vars
<1>1. ReplayInit => Init
  BY DEF ReplayInit
<1> QED BY <1>1, ReplayStepIsPluginStep, PTL DEF ReplaySpec

THEOREM QueuesKeepPluginSide == ReplaySpec => [](TypeOK /\ IInv)
<1>1. Init => TypeOK /\ IInv
  BY InitTypeOK, InitIInv
<1>2. TypeOK /\ IInv /\ [Next]_vars => (TypeOK /\ IInv)'
  BY NextTypeOK, NextIInv
<1> QED BY <1>1, <1>2, ReplayImplementsPluginWs, PTL
=============================================================================
