-------------------------- MODULE MessageDelivery ---------------------------
(***************************************************************************)
(* The messages of a channel and how its plugin gets the frontend's: the   *)
(* handlers of http/server.ts and http/crossChannelHandler.ts that store,  *)
(* edit and delete messages, and the plugin's poll and acknowledgement,    *)
(* over the messages table of db/messageStore.ts.  The table is on disk    *)
(* and the handlers keep nothing in memory, so a restart of the server     *)
(* changes nothing here.                                                   *)
(*                                                                         *)
(* A message is its number in creation order; created_at is the clock in   *)
(* milliseconds, so messages may share it.  The plugin is external: it     *)
(* polls with or without the created_at of the last message it got, and    *)
(* acknowledges what it got, once, repeatedly or never (requests may be    *)
(* lost, retried and late).  OpenClaw's own id of a message, dedupId, comes *)
(* with it on two paths, the plugin's delivery and its relay, and a message *)
(* already stored under it is skipped.  Refused and skipped requests       *)
(* change nothing and are left out, and so are contents, counters,         *)
(* broadcasts and pure reads.                                              *)
(***************************************************************************)
EXTENDS Naturals, FiniteSets

CONSTANTS
  Channel,    \* channel ids
  NoChannel,  \* the channel of a message not stored yet
  PageLimit,  \* the poll's LIMIT
  DedupId,    \* ids the plugin attaches to what it delivers or relays
  NoDedup,    \* a message without one
  DedupWindow,\* how far back duplicates are looked for (30 s in the code)
  DedupLimit, \* and among how many messages (20 in the code)
  MaxMsg,     \* bound: messages stored
  MaxNow      \* bound: the clock

ASSUME MessageAssumption ==
  /\ NoChannel \notin Channel
  /\ NoDedup \notin DedupId
  /\ PageLimit \in Nat \ {0}
  /\ DedupWindow \in Nat
  /\ DedupLimit \in Nat \ {0}
  /\ MaxMsg \in Nat
  /\ MaxNow \in Nat \ {0}

VARIABLES
  now,        \* the clock
  lastMsg,    \* messages stored so far
  chan,       \* columns of the messages table: channel_id,
  direction,  \* direction,
  status,     \* status,
  createdAt,  \* created_at,
  dedup,      \* dedupId in metadata,
  edited,     \* and whether content is no longer the one sent
  cursor,     \* plugin: created_at of the last message polled, 0 for none
  seen,       \* history: messages the plugin got, polled or pushed
  acked       \* history: messages whose acknowledgement was processed

table   == <<lastMsg, chan, direction, status, createdAt, dedup, edited>>
plugin  == <<cursor, seen>>
msgVars == <<now, table, plugin, acked>>

Msg       == 1..MaxMsg
NoCursor  == 0
MsgStatus == {"none", "sent", "delivered", "deleted"}

-----------------------------------------------------------------------------
MsgInit ==
  /\ now = 1
  /\ lastMsg = 0
  /\ chan = [m \in Msg |-> NoChannel]
  /\ direction = [m \in Msg |-> "none"]
  /\ status = [m \in Msg |-> "none"]
  /\ createdAt = [m \in Msg |-> 0]
  /\ dedup = [m \in Msg |-> NoDedup]
  /\ edited = {}
  /\ cursor = [c \in Channel |-> NoCursor]
  /\ seen = {} /\ acked = {}

(* messageStore.create *)
Create(c, dir, st, d) ==
  /\ lastMsg < MaxMsg
  /\ lastMsg' = lastMsg + 1
  /\ chan' = [chan EXCEPT ![lastMsg'] = c]
  /\ direction' = [direction EXCEPT ![lastMsg'] = dir]
  /\ status' = [status EXCEPT ![lastMsg'] = st]
  /\ createdAt' = [createdAt EXCEPT ![lastMsg'] = now]
  /\ dedup' = [dedup EXCEPT ![lastMsg'] = d]

(* The frontend's message is stored and pushed, if the plugin is reachable. *)
SendMessage(c, reachable) ==
  /\ Create(c, "outbound", "sent", NoDedup)
  /\ seen' = IF reachable THEN seen \cup {lastMsg'} ELSE seen
  /\ UNCHANGED <<now, edited, cursor, acked>>

(* Stored as delivered: a message from the plugin's webhook, a streamed      *)
(* reply, and the confirmation of a session command.                        *)
StoreDelivered(c, dir) ==
  /\ Create(c, dir, "delivered", NoDedup)
  /\ UNCHANGED <<now, edited, plugin, acked>>

(* Mutant: like the other listings, without deleted messages. *)
MutantRecentRows(c) ==
  {m \in Msg : chan[m] = c /\ createdAt[m] + DedupWindow >= now /\ status[m] # "deleted"}

(* listByDateRange from the cutoff to now, before its limit. *)
RecentRows(c) == {m \in Msg : chan[m] = c /\ createdAt[m] + DedupWindow >= now}

(* Messages that come before m when the newest are listed first, or may:    *)
(* the listing leaves the order within a millisecond open.                  *)
Newer(m, rows) == {n \in rows : dedup[n] # dedup[m] /\ createdAt[n] >= createdAt[m]}

(* The listing surely shows a message with this dedupId. *)
AlreadyStored(c, d) ==
  \E m \in RecentRows(c) :
    dedup[m] = d /\ Cardinality(Newer(m, RecentRows(c))) < DedupLimit

(* Stored as sent, unless it is a duplicate. *)
StoreUnlessDuplicate(c, dir, d) ==
  /\ d # NoDedup => ~AlreadyStored(c, d)
  /\ Create(c, dir, "sent", d)
  /\ UNCHANGED <<now, edited, plugin, acked>>

(* The plugin delivers a message of OpenClaw. *)
ForwardToOpenClaw(c, d) == StoreUnlessDuplicate(c, "inbound", d)

(* The plugin relays a message of another channel.  One relayed as outbound *)
(* is listed to the plugin like the frontend's own; nothing is pushed.      *)
HandleCrossChannelMessage(c, dir, d) == StoreUnlessDuplicate(c, dir, d)

(* Mutant: newest first. *)
MutantPage(rows) == {m \in rows : Cardinality({n \in rows : n > m}) < PageLimit}

(* listPendingUserMessages: oldest first, at most PageLimit of them; rows   *)
(* of the same millisecond come in insertion order.                         *)
Page(rows) == {m \in rows : Cardinality({n \in rows : n < m}) < PageLimit}

PendingRows(c, after) ==
  {m \in Msg : /\ chan[m] = c
               /\ direction[m] = "outbound"
               /\ status[m] = "sent"
               /\ after # NoCursor => createdAt[m] > after}

Newest(page) == CHOOSE m \in page : \A n \in page : n <= m

(* A poll whose answer reaches the plugin. *)
GetPendingMessages(c, after) ==
  LET page == Page(PendingRows(c, after)) IN
  /\ page # {}
  /\ seen' = seen \cup page
  /\ cursor' = [cursor EXCEPT ![c] = createdAt[Newest(page)]]
  /\ UNCHANGED <<now, table, acked>>

(* Mutant: waits for a status a stored message never has. *)
MutantMarkProcessed(m) ==
  status' = [status EXCEPT ![m] = IF @ = "pending" THEN "delivered" ELSE @]

(* Mutant: a status the listings do not know. *)
MutantMarkProcessedName(m) ==
  status' = [status EXCEPT ![m] = "processed"]

(* UPDATE ... SET status = 'delivered' WHERE id = ?, whatever it was. *)
MarkProcessed(m) ==
  status' = [status EXCEPT ![m] = "delivered"]

(* ackMessage: the plugin acknowledges a message it got. *)
AckMessage(m) ==
  /\ m \in seen
  /\ MarkProcessed(m)
  /\ acked' = acked \cup {m}
  /\ UNCHANGED <<now, lastMsg, chan, direction, createdAt, dedup, edited, plugin>>

(* Mutant: an edited message is to be delivered again. *)
MutantEditMessage(m) ==
  /\ m <= lastMsg
  /\ edited' = edited \cup {m}
  /\ status' = [status EXCEPT ![m] = IF direction[m] = "outbound" THEN "sent" ELSE @]
  /\ UNCHANGED <<now, lastMsg, chan, direction, createdAt, dedup, plugin, acked>>

(* updateContent by the sender, whatever the status is. *)
EditMessage(m) ==
  /\ m <= lastMsg
  /\ edited' = edited \cup {m}
  /\ UNCHANGED <<now, lastMsg, chan, direction, status, createdAt, dedup, plugin, acked>>

(* softDelete by the sender or with the channel's token. *)
DeleteMessage(m) ==
  /\ m <= lastMsg
  /\ status' = [status EXCEPT ![m] = "deleted"]
  /\ UNCHANGED <<now, lastMsg, chan, direction, createdAt, dedup, edited, plugin, acked>>

Tick ==
  /\ now < MaxNow
  /\ now' = now + 1
  /\ UNCHANGED <<table, plugin, acked>>

MsgNext ==
  \/ \E c \in Channel :
       \/ \E reachable \in BOOLEAN : SendMessage(c, reachable)
       \/ \E dir \in {"inbound", "outbound"} :
            \/ StoreDelivered(c, dir)
            \/ \E d \in DedupId \cup {NoDedup} : HandleCrossChannelMessage(c, dir, d)
       \/ \E d \in DedupId \cup {NoDedup} : ForwardToOpenClaw(c, d)
       \/ \E after \in {NoCursor, cursor[c]} : GetPendingMessages(c, after)
  \/ \E m \in Msg : AckMessage(m) \/ EditMessage(m) \/ DeleteMessage(m)
  \/ Tick

(* A plugin that keeps polling, at times from the start, and keeps          *)
(* acknowledging what it got.                                               *)
MsgFairness ==
  /\ \A c \in Channel : WF_msgVars(GetPendingMessages(c, NoCursor))
  /\ \A m \in Msg : WF_msgVars(AckMessage(m))

MsgSpec == MsgInit /\ [][MsgNext]_msgVars /\ MsgFairness

-----------------------------------------------------------------------------
MsgTypeOK ==
  /\ now \in 1..MaxNow
  /\ lastMsg \in 0..MaxMsg
  /\ chan \in [Msg -> Channel \cup {NoChannel}]
  /\ direction \in [Msg -> {"none", "inbound", "outbound"}]
  /\ status \in [Msg -> MsgStatus]
  /\ createdAt \in [Msg -> 0..MaxNow]
  /\ dedup \in [Msg -> DedupId \cup {NoDedup}]
  /\ edited \subseteq Msg
  /\ cursor \in [Channel -> 0..MaxNow]
  /\ seen \subseteq Msg
  /\ acked \subseteq Msg

(* A cursor may pass a message the plugin never got only when another       *)
(* message it did get was stored in the same millisecond.  Whatever is      *)
(* stored, deleted or acknowledged between two polls, nothing else is lost  *)
(* to a plugin that only moves forward.                                     *)
CursorSkipsOnlyTies ==
  \A m \in Msg :
    status[m] = "sent" /\ direction[m] = "outbound" /\ m \notin seen
      /\ createdAt[m] <= cursor[chan[m]] =>
      \E n \in seen : chan[n] = chan[m] /\ createdAt[n] = createdAt[m]

(* An acknowledged message is never listed to the plugin again, neither by  *)
(* a late or repeated acknowledgement nor by an edit or a deletion.         *)
AckedIsFinal == \A m \in acked : status[m] \in {"delivered", "deleted"}

(* Two rows of one message of OpenClaw. *)
Twins(m, n) ==
  chan[m] = chan[n] /\ chan[m] \in Channel /\ dedup[m] = dedup[n] /\ dedup[m] \in DedupId

(* One message of OpenClaw that comes by delivery and by relay, in either   *)
(* order and however often, is stored once; twice only when more than the   *)
(* window lies between, or as many others as the filter looks at, whatever  *)
(* happened to the first row in the meantime.                               *)
DuplicatesAreFar ==
  \A m, n \in Msg :
    m < n /\ Twins(m, n) =>
      \/ createdAt[n] > createdAt[m] + DedupWindow
      \/ Cardinality(Newer(m, {k \in 1..(n - 1) : chan[k] = chan[m]})) >= DedupLimit

(* Every message for the plugin ends up delivered or deleted, however many  *)
(* pages of others come before it.                                          *)
EventuallySettled ==
  \A m \in Msg :
    status[m] = "sent" /\ direction[m] = "outbound"
      ~> status[m] \in {"delivered", "deleted"}
=============================================================================
