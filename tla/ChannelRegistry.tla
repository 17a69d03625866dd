-------------------------- MODULE ChannelRegistry --------------------------
(***************************************************************************)
(* The channels and who is connected: the handlers of http/server.ts that  *)
(* apply for, register, connect, disconnect and delete a channel, over the *)
(* channels table of db/channelStore.ts.                                   *)
(*                                                                         *)
(* The store's calls act at once and return resolved promises, so what     *)
(* follows an await runs as a microtask, in the order of the awaits and    *)
(* before any further input is read.  Requests that came in one read (they *)
(* were pipelined) all reach their first await before the first microtask  *)
(* runs.  `tasks' is that queue, and `draining' says it is being run.      *)
(*                                                                         *)
(* A channel is its number in creation order.  Generated secrets are       *)
(* unique and all stand as NoKey.  Requests that are refused without a     *)
(* change are left out, as are tokens, urls and what is only stored.       *)
(***************************************************************************)
EXTENDS Naturals, Sequences, FiniteSets

CONSTANTS
  Key,          \* keys of registrations
  Name,         \* names that are applied for
  QuickName,    \* 'channel-' and the first characters of a key
  NoKey,        \* a secret that was generated, a key or name that is not set
  Ip,           \* clients of quick-register
  RateWindow,   \* windowMs
  RateMax,      \* maxRequests
  MaxChannel,   \* bound: channels created
  MaxTask,      \* bound: requests of one read
  MaxPass,      \* bound: quick registrations of one process
  MaxClock      \* bound: the clock

ASSUME RegistryAssumption ==
  /\ NoKey \notin Key
  /\ RateWindow \in Nat \ {0} /\ RateMax \in Nat
  /\ MaxChannel \in Nat /\ MaxTask \in Nat /\ MaxPass \in Nat
  /\ MaxClock \in Nat \ {0}

VARIABLES
  lastChannel,  \* channels created so far
  name,         \* columns of the channels table: name,
  secret,       \* secret,
  key,          \* key,
  status,       \* and status, "none" when there is no row
  active,       \* connectedChannelId, NoRow for null
  tasks,        \* microtasks: handlers that are past an await
  draining,     \* the microtasks are being run
  dying,        \* a promise was rejected that nobody handles
  rateMap,      \* quickRegRateMap: the requests kept for each client
  clock,        \* Date.now()
  passed,       \* history: [ip, at] of the process's quick registrations
  answered      \* history: the channel last answered for a key, or NoRow

table   == <<lastChannel, name, secret, key, status>>
memory  == <<active, tasks, draining, dying>>
limiter == <<rateMap, clock, passed>>
regVars == <<table, memory, limiter, answered>>

Row    == 1..MaxChannel
NoRow  == 0
Pass   == 1..Len(passed)
AnyName == Name \cup Key \cup {QuickName[k] : k \in Key}
Status == {"none", "pending", "registered", "connected", "disconnected"}
Task   == [op : {"answer"}, key : Key, row : Row \cup {NoRow}]
            \cup [op : {"status"}, row : Row, to : {"registered", "connected", "disconnected"}]
            \cup [op : {"slot"}, row : Row, to : {"connected", "disconnected"}]

Live(c) == status[c] # "none"

-----------------------------------------------------------------------------
RegInit ==
  /\ lastChannel = 0
  /\ name = [c \in Row |-> NoKey]
  /\ secret = [c \in Row |-> NoKey]
  /\ key = [c \in Row |-> NoKey]
  /\ status = [c \in Row |-> "none"]
  /\ active = NoRow /\ tasks = << >> /\ draining = FALSE /\ dying = FALSE
  /\ rateMap = [ip \in Ip |-> {}]
  /\ clock = 1 /\ passed = << >>
  /\ answered = [k \in Key |-> NoRow]

(* Mutant: the columns are not UNIQUE. *)
MutantUnique(n, s) == TRUE

(* The UNIQUE columns let a row be inserted. *)
Unique(n, s) ==
  \A c \in Row : Live(c) => name[c] # n /\ (s # NoKey => secret[c] # s)

(* Mutant: a status the code does not know. *)
MutantCreate(n, s, k, st) ==
  /\ lastChannel < MaxChannel
  /\ lastChannel' = lastChannel + 1
  /\ name' = [name EXCEPT ![lastChannel'] = n]
  /\ secret' = [secret EXCEPT ![lastChannel'] = s]
  /\ key' = [key EXCEPT ![lastChannel'] = k]
  /\ status' = [status EXCEPT ![lastChannel'] = "active"]

(* channelStore.create, and setKey *)
Create(n, s, k, st) ==
  /\ lastChannel < MaxChannel
  /\ lastChannel' = lastChannel + 1
  /\ name' = [name EXCEPT ![lastChannel'] = n]
  /\ secret' = [secret EXCEPT ![lastChannel'] = s]
  /\ key' = [key EXCEPT ![lastChannel'] = k]
  /\ status' = [status EXCEPT ![lastChannel'] = st]

(* A request is handled up to its first await; the microtasks come after.   *)
Arrive(task) ==
  /\ ~draining
  /\ Len(tasks) < MaxTask
  /\ tasks' = Append(tasks, task)
  /\ UNCHANGED <<active, draining, dying>>

ApplyChannel(n) ==
  /\ ~draining
  /\ Unique(n, NoKey)
  /\ Create(n, NoKey, NoKey, "pending")
  /\ UNCHANGED <<memory, limiter, answered>>

(* getByKey finds no channel, and the name is free as well. *)
KeyFree(k) ==
  /\ \A c \in Row : Live(c) => key[c] # k
  /\ Unique(k, NoKey)

RegisterChannelByKey(k) ==
  /\ ~draining
  /\ KeyFree(k)
  /\ Create(k, NoKey, k, "pending")
  /\ UNCHANGED <<memory, limiter, answered>>

(* What the process had in memory is gone. *)
Die ==
  /\ active' = NoRow /\ tasks' = << >> /\ draining' = FALSE /\ dying' = FALSE
  /\ rateMap' = [ip \in Ip |-> {}]
  /\ passed' = << >>

(* The process dies and starts again, at times between create and setKey.   *)
Restart ==
  /\ \/ UNCHANGED table
     \/ \E k \in Key : ~draining /\ KeyFree(k) /\ Create(k, NoKey, NoKey, "pending")
  /\ Die
  /\ UNCHANGED <<clock, answered>>

(* Mutant: the window ends one tick early. *)
MutantInWindow(ip) == {r \in rateMap[ip] : clock - passed[r].at < RateWindow - 1}

(* The requests of a client still in the window. *)
InWindow(ip) == {r \in rateMap[ip] : clock - passed[r].at < RateWindow}

(* The rate limit lets the request through and remembers it. *)
LetThrough(ip) ==
  /\ Len(passed) < MaxPass
  /\ Cardinality(InWindow(ip)) < RateMax
  /\ passed' = Append(passed, [ip |-> ip, at |-> clock])
  /\ rateMap' = [rateMap EXCEPT ![ip] = InWindow(ip) \cup {Len(passed')}]
  /\ UNCHANGED clock

GetBySecret(k) ==
  IF \E c \in Row : Live(c) /\ secret[c] = k
  THEN CHOOSE c \in Row : Live(c) /\ secret[c] = k
  ELSE NoRow

(* quickRegisterChannel up to the lookup. *)
QuickRegisterChannel(ip, k) ==
  /\ LetThrough(ip)
  /\ Arrive([op |-> "answer", key |-> k, row |-> GetBySecret(k)])
  /\ UNCHANGED <<table, answered>>

(* One with a missing or malformed field is refused, and counts as well.    *)
RefuseQuickRegister(ip) ==
  /\ ~draining
  /\ LetThrough(ip)
  /\ UNCHANGED <<table, memory, answered>>

(* registerChannel, connectChannel, disconnectChannel up to the lookup.     *)
RequestStatus(c, to) ==
  /\ Live(c)
  /\ Arrive([op |-> "status", row |-> c, to |-> to])
  /\ UNCHANGED <<table, limiter, answered>>

DeleteChannel(c) ==
  /\ ~draining
  /\ Live(c)
  /\ name' = [name EXCEPT ![c] = NoKey]
  /\ secret' = [secret EXCEPT ![c] = NoKey]
  /\ key' = [key EXCEPT ![c] = NoKey]
  /\ status' = [status EXCEPT ![c] = "none"]
  /\ UNCHANGED <<lastChannel, memory, limiter, answered>>

-----------------------------------------------------------------------------
(* The first microtask runs, and may leave one more behind or throw.        *)
Run(op, more, throws) ==
  /\ tasks # << >>
  /\ Head(tasks).op = op
  /\ tasks' = Tail(tasks) \o more
  /\ dying' = (dying \/ throws)
  /\ draining' = (tasks' # << >> \/ dying')

(* A registered key is answered with its channel *)
AnswerExisting ==
  LET task == Head(tasks) IN
  /\ Run("answer", << >>, FALSE)
  /\ task.row # NoRow
  /\ answered' = [answered EXCEPT ![task.key] = task.row]
  /\ UNCHANGED <<table, active, limiter>>

(* or refused, if the url is not the channel's; *)
AnswerConflict ==
  /\ Run("answer", << >>, FALSE)
  /\ Head(tasks).row # NoRow
  /\ UNCHANGED <<table, active, limiter, answered>>

(* a new one is answered with a channel created for it, *)
AnswerCreated ==
  LET task == Head(tasks) IN
  /\ Run("answer", << >>, FALSE)
  /\ task.row = NoRow
  /\ Unique(QuickName[task.key], task.key)
  /\ Create(QuickName[task.key], task.key, NoKey, "registered")
  /\ answered' = [answered EXCEPT ![task.key] = lastChannel']
  /\ UNCHANGED <<active, limiter>>

(* unless the INSERT fails: nobody handles the rejected promise, *)
InsertFails(k) ==
  /\ Run("answer", << >>, TRUE)
  /\ Head(tasks).key = k /\ Head(tasks).row = NoRow
  /\ ~Unique(QuickName[k], k)
  /\ UNCHANGED <<table, active, limiter, answered>>

(* which ends the process when the microtasks have run. *)
RejectionEnds ==
  /\ dying /\ tasks = << >>
  /\ Die
  /\ UNCHANGED <<table, clock, answered>>

UpdateStatus(c, st) ==
  status' = [status EXCEPT ![c] = IF Live(c) THEN st ELSE @]

(* Mutant: a disconnect gives the slot up before it awaits the update. *)
MutantRunStatus ==
  LET task == Head(tasks) IN
  /\ Run("status", IF task.to # "connected" THEN << >>
                   ELSE <<[op |-> "slot", row |-> task.row, to |-> task.to]>>, FALSE)
  /\ UpdateStatus(task.row, task.to)
  /\ active' = IF task.to = "disconnected" /\ active = task.row THEN NoRow ELSE active
  /\ UNCHANGED <<lastChannel, name, secret, key, limiter, answered>>

(* The status is written; connecting and disconnecting await that. *)
RunStatus ==
  LET task == Head(tasks) IN
  /\ Run("status", IF task.to = "registered" THEN << >>
                   ELSE <<[op |-> "slot", row |-> task.row, to |-> task.to]>>, FALSE)
  /\ UpdateStatus(task.row, task.to)
  /\ UNCHANGED <<lastChannel, name, secret, key, active, limiter, answered>>

(* A connect takes the slot, a disconnect frees it if it is the channel's.  *)
RunSlot ==
  LET task == Head(tasks) IN
  /\ Run("slot", << >>, FALSE)
  /\ active' = CASE task.to = "connected" -> task.row
                 [] task.to = "disconnected" /\ active = task.row -> NoRow
                 [] OTHER -> active
  /\ UNCHANGED <<table, limiter, answered>>

Tick ==
  /\ ~draining
  /\ clock < MaxClock
  /\ clock' = clock + 1
  /\ UNCHANGED <<table, memory, rateMap, passed, answered>>

RegNext ==
  \/ \E n \in Name : ApplyChannel(n)
  \/ \E k \in Key :
       \/ RegisterChannelByKey(k)
       \/ \E ip \in Ip : QuickRegisterChannel(ip, k)
       \/ InsertFails(k)
  \/ \E c \in Row :
       \/ \E to \in {"registered", "connected", "disconnected"} : RequestStatus(c, to)
       \/ DeleteChannel(c)
  \/ \E ip \in Ip : RefuseQuickRegister(ip)
  \/ AnswerExisting \/ AnswerConflict \/ AnswerCreated \/ RunStatus \/ RunSlot
  \/ RejectionEnds \/ Restart \/ Tick

RegSpec == RegInit /\ [][RegNext]_regVars

-----------------------------------------------------------------------------
RegTypeOK ==
  /\ lastChannel \in 0..MaxChannel
  /\ name \in [Row -> AnyName \cup {NoKey}]
  /\ secret \in [Row -> Key \cup {NoKey}]
  /\ key \in [Row -> Key \cup {NoKey}]
  /\ status \in [Row -> Status]
  /\ active \in Row \cup {NoRow}
  /\ tasks \in Seq(Task)
  /\ draining \in BOOLEAN /\ dying \in BOOLEAN
  /\ rateMap \in [Ip -> SUBSET Pass]
  /\ clock \in 1..MaxClock
  /\ passed \in Seq([ip : Ip, at : 1..MaxClock])
  /\ answered \in [Key -> Row \cup {NoRow}]

(* Quick registration is idempotent: a key is answered with another channel *)
(* than before only if that one has been deleted, also when requests for    *)
(* the key race with each other, with deletions and with restarts.          *)
SameAnswer ==
  [][\A k \in Key :
       answered[k] # NoRow /\ answered'[k] # answered[k] =>
         ~Live(answered[k])]_regVars

(* The active channel is not one whose plugin has disconnected, whatever    *)
(* connects and disconnects were under way at the same time.                *)
ActiveNotDisconnected ==
  tasks = << >> /\ active # NoRow => status[active] # "disconnected"

(* In no window of the running process does a client get more than RateMax  *)
(* quick registrations through: the window slides.                          *)
RateLimited ==
  \A ip \in Ip, t \in 1..clock :
    Cardinality({r \in Pass : /\ passed[r].ip = ip
                              /\ passed[r].at \in (t - RateWindow + 1)..t}) <= RateMax

(* docs/api/channel-api.en.md:50: quick-register "creates channel if it     *)
(* doesn't exist": its INSERT fails only for a key that has its channel.    *)
QuickRegisterCreates ==
  [][\A k \in Key : InsertFails(k) => GetBySecret(k) # NoRow]_regVars
=============================================================================
