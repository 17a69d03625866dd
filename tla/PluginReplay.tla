---------------------------- MODULE PluginReplay ----------------------------
(***************************************************************************)
(* What is queued for a plugin and how a new connection gets it: the       *)
(* tables message_queue (db/queueStore.ts) and offline_queue               *)
(* (db/offlineQueueStore.ts), and replayPendingQueue of                    *)
(* ws/pluginWsServer.ts, which PluginWs leaves out.  Connecting writes a   *)
(* frame per queued item at once; the tables change later, when the send   *)
(* callback of each frame reports that the transport took it or failed,    *)
(* by which time the socket may have been replaced.                        *)
(*                                                                         *)
(* Nothing in the repository but its tests calls the two create methods,   *)
(* so when rows appear is left open here: any time, for any channel.       *)
(*                                                                         *)
(* A row's id is its number in creation order, which is what ORDER BY      *)
(* created_at sorts by.  Left out: contents, attempt and retry counters    *)
(* (written, never read by this code) and rows created in another status.  *)
(***************************************************************************)
EXTENDS PluginWs, FiniteSets, SequencesExt, Sorting

CONSTANTS
  Priority,       \* priorities of message_queue rows
  QueueCapacity,  \* QUEUE_CAPACITY: rows per channel before eviction
  QueueLimit,     \* listPending's LIMIT, 100 for message_queue
  OfflineLimit,   \* and 500 for offline_queue
  MaxItem         \* bound: rows ever created, in each table

ASSUME QueueAssumption ==
  /\ Priority \subseteq Nat
  /\ {QueueCapacity, QueueLimit, OfflineLimit} \subseteq Nat \ {0}
  /\ MaxItem \in Nat

VARIABLES
  queue,     \* rows of message_queue
  offline,   \* rows of offline_queue
  lastItem,  \* rows created so far, per table
  outbox,    \* per socket, the frames whose send callback is outstanding
  flushed,   \* history: the items the transport has taken
  evicted    \* history: the items dropped by a full queue

queueVars  == <<queue, offline, lastItem, outbox, flushed, evicted>>
replayVars == <<vars, queueVars>>

Table == {"queue", "offline"}
Item  == Table \X (1..MaxItem)

QueueRow   == [id : 1..MaxItem, chan : Channel, prio : Priority,
               status : {"pending", "processing", "failed"}]
OfflineRow == [id : 1..MaxItem, chan : Channel]

-----------------------------------------------------------------------------
PendingOf(c) == {r \in queue : r.chan = c /\ r.status = "pending"}
OfflineOf(c) == {r \in offline : r.chan = c}

Oldest(rows) == CHOOSE r \in rows : \A t \in rows : r.id <= t.id

(* The row a full queue gives up before the next one is inserted. *)
Evict(rows) == IF Cardinality(rows) >= QueueCapacity THEN {Oldest(rows)} ELSE {}

ReplayInit ==
  /\ Init
  /\ queue = {} /\ offline = {}
  /\ lastItem = [t \in Table |-> 0]
  /\ outbox = [s \in Sock |-> << >>]
  /\ flushed = {} /\ evicted = {}

(* queueStore.create with status 'pending'. *)
EnqueueQueue(c, p) ==
  /\ lastItem["queue"] < MaxItem
  /\ lastItem' = [lastItem EXCEPT !["queue"] = @ + 1]
  /\ LET gone == Evict(PendingOf(c)) IN
       /\ queue' = (queue \ gone) \cup
            {[id |-> lastItem'["queue"], chan |-> c, prio |-> p, status |-> "pending"]}
       /\ evicted' = evicted \cup {<<"queue", r.id>> : r \in gone}
  /\ UNCHANGED <<vars, offline, outbox, flushed>>

(* offlineQueueStore.create. *)
EnqueueOffline(c) ==
  /\ lastItem["offline"] < MaxItem
  /\ lastItem' = [lastItem EXCEPT !["offline"] = @ + 1]
  /\ LET gone == Evict(OfflineOf(c)) IN
       /\ offline' = (offline \ gone) \cup {[id |-> lastItem'["offline"], chan |-> c]}
       /\ evicted' = evicted \cup {<<"offline", r.id>> : r \in gone}
  /\ UNCHANGED <<vars, queue, outbox, flushed>>

(* The same for a message that is queued already: message_id is UNIQUE, and *)
(* the INSERT throws when the oldest row has made room for it.              *)
EnqueueOfflineAgain(c) ==
  /\ LET gone == Evict(OfflineOf(c)) IN
       /\ offline \ gone # {}
       /\ offline' = offline \ gone
       /\ evicted' = evicted \cup {<<"offline", r.id>> : r \in gone}
  /\ UNCHANGED <<vars, queue, lastItem, outbox, flushed>>

(* ORDER BY priority DESC, created_at ASC *)
QueueBefore(r, t) == r.prio > t.prio \/ (r.prio = t.prio /\ r.id < t.id)
IdBefore(r, t)    == r.id < t.id

FirstN(seq, n) == SubSeq(seq, 1, IF Len(seq) < n THEN Len(seq) ELSE n)

(* listPending of queueStore and of offlineQueueStore. *)
ListQueue(c)   == FirstN(Sorted(PendingOf(c), QueueBefore), QueueLimit)
ListOffline(c) == FirstN(Sorted(OfflineOf(c), IdBefore), OfflineLimit)

(* The frames replayPendingQueue writes, in order: no await comes between   *)
(* them, so the socket cannot leave OPEN half way.                          *)
Frames(table, rows) == [i \in DOMAIN rows |-> <<table, rows[i].id>>]
Replayed(c) == Frames("queue", ListQueue(c)) \o Frames("offline", ListOffline(c))

Connect(c) ==
  /\ HandleConnection(c)
  /\ outbox' = [outbox EXCEPT ![lastSock'] = Replayed(c)]
  /\ UNCHANGED <<queue, offline, lastItem, flushed, evicted>>

(* Mutant: a status message_queue does not have. *)
MutantUpdateStatus(items, status) ==
  queue' = {IF <<"queue", r.id>> \in items THEN [r EXCEPT !.status = "sent"] ELSE r
              : r \in queue}

(* UPDATE message_queue SET status = ? for the rows still there. *)
UpdateStatus(items, status) ==
  queue' = {IF <<"queue", r.id>> \in items THEN [r EXCEPT !.status = status] ELSE r
              : r \in queue}

(* Mutant: the success callback does not delete the offline row. *)
MutantFlushed(s) ==
  /\ sock[s] \in {"open", "closing"}
  /\ outbox[s] # << >>
  /\ UpdateStatus({Head(outbox[s])}, "processing")
  /\ flushed' = flushed \cup {Head(outbox[s])}
  /\ outbox' = [outbox EXCEPT ![s] = Tail(@)]
  /\ UNCHANGED <<vars, offline, lastItem, evicted>>

(* The send callback of the oldest outstanding frame reports success. *)
Flushed(s) ==
  /\ sock[s] \in {"open", "closing"}
  /\ outbox[s] # << >>
  /\ LET item == Head(outbox[s]) IN
       /\ UpdateStatus({item}, "processing")
       /\ offline' = {r \in offline : <<"offline", r.id>> # item}
       /\ flushed' = flushed \cup {item}
  /\ outbox' = [outbox EXCEPT ![s] = Tail(@)]
  /\ UNCHANGED <<vars, lastItem, evicted>>

(* Mutant: the offline row is deleted whatever the callback reports. *)
MutantFailedDropped(s) ==
  /\ sock[s] \in {"closing", "closed"}
  /\ outbox[s] # << >>
  /\ UpdateStatus(ToSet(outbox[s]), "failed")
  /\ offline' = {r \in offline : <<"offline", r.id>> \notin ToSet(outbox[s])}
  /\ outbox' = [outbox EXCEPT ![s] = << >>]
  /\ UNCHANGED <<vars, lastItem, flushed, evicted>>

(* Mutant: the callback ignores its error. *)
MutantErrorIgnored(s) ==
  /\ sock[s] \in {"closing", "closed"}
  /\ outbox[s] # << >>
  /\ UpdateStatus(ToSet(outbox[s]), "processing")
  /\ outbox' = [outbox EXCEPT ![s] = << >>]
  /\ UNCHANGED <<vars, offline, lastItem, flushed, evicted>>

(* The socket breaks with frames unsent: each callback reports an error. *)
SendFailed(s) ==
  /\ sock[s] \in {"closing", "closed"}
  /\ outbox[s] # << >>
  /\ UpdateStatus(ToSet(outbox[s]), "failed")
  /\ outbox' = [outbox EXCEPT ![s] = << >>]
  /\ UNCHANGED <<vars, offline, lastItem, flushed, evicted>>

(* Frames not yet taken die with the process; the tables are on disk. *)
CrashAndRestart ==
  /\ Restart
  /\ outbox' = [s \in Sock |-> << >>]
  /\ UNCHANGED <<queue, offline, lastItem, flushed, evicted>>

ReplayNext ==
  \/ \E c \in Channel :
       \/ Connect(c)
       \/ EnqueueOffline(c)
       \/ EnqueueOfflineAgain(c)
       \/ \E p \in Priority : EnqueueQueue(c, p)
       \/ DeleteChannel(c) /\ UNCHANGED queueVars
       \/ \E t \in Sock : OfflineTimer(c, t) /\ UNCHANGED queueVars
  \/ \E s \in Sock :
       \/ Flushed(s)
       \/ SendFailed(s)
       \/ (PeerCloses(s) \/ CloseEvent(s)) /\ UNCHANGED queueVars
  \/ CrashAndRestart

ReplaySpec == ReplayInit /\ [][ReplayNext]_replayVars

-----------------------------------------------------------------------------
ReplayTypeOK ==
  /\ TypeOK
  /\ queue \subseteq QueueRow
  /\ offline \subseteq OfflineRow
  /\ lastItem \in [Table -> 0..MaxItem]
  /\ outbox \in [Sock -> Seq(Item)]
  /\ flushed \subseteq Item
  /\ evicted \subseteq Item

(* A queued frontend message leaves offline_queue only when a transport has *)
(* taken it or the queue was full; breaks, crashes and takeovers keep it.   *)
OfflineItemNotLost ==
  \A i \in 1..lastItem["offline"] :
    \/ \E r \in offline : r.id = i
    \/ <<"offline", i>> \in flushed \cup evicted

(* A row marked 'processing' was taken by some transport, even if callbacks *)
(* of an older socket of the channel arrive after those of a newer one.     *)
ProcessingWasSent ==
  \A r \in queue : r.status = "processing" => <<"queue", r.id>> \in flushed

(* Once a transport has taken an item no later connection is given it.      *)
NoResendOnceSent ==
  [][lastSock' # lastSock => ToSet(outbox'[lastSock']) \cap flushed = {}]_replayVars
=============================================================================
