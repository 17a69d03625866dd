----------------------- MODULE ChannelRegistryProofs ------------------------
(***************************************************************************)
(* Proofs about ChannelRegistry for any number of channels, keys, clients  *)
(* and pipelined requests: quick registration is idempotent, the active    *)
(* channel is not a disconnected one, and the rate limit holds.            *)
(***************************************************************************)
EXTENDS ChannelRegistry, FiniteSetTheorems, SequenceTheorems, TLAPS

(* Rows are created in order; a key in the table belongs to one live row.   *)
OnlyCreatedLive == \A c \in Row : Live(c) => c <= lastChannel

SecretsUnique ==
  \A a, b \in Row :
    Live(a) /\ Live(b) /\ secret[a] \in Key /\ secret[a] = secret[b] => a = b

(* A channel that was answered for a key has that key while it lives. *)
AnswersHold ==
  \A k \in Key :
    answered[k] # NoRow =>
      /\ answered[k] <= lastChannel
      /\ Live(answered[k]) => secret[answered[k]] = k

(* A lookup that found a row is of the key's only live row, if there is one *)
FoundIsCurrent ==
  \A i \in 1..Len(tasks) :
    tasks[i].op = "answer" /\ tasks[i].row # NoRow =>
      /\ tasks[i].row <= lastChannel
      /\ Live(tasks[i].row) => secret[tasks[i].row] = tasks[i].key
      /\ \A c \in Row : Live(c) /\ secret[c] = tasks[i].key => c = tasks[i].row

(* one that found none is still right when the next request is read, and    *)
MissingIsCurrent ==
  ~draining =>
    \A i \in 1..Len(tasks) :
      tasks[i].op = "answer" /\ tasks[i].row = NoRow =>
        \A c \in Row : Live(c) => secret[c] # tasks[i].key

(* lookups made before one that found a row found that row as well. *)
FoundTogether ==
  \A i, j \in 1..Len(tasks) :
    /\ i < j
    /\ tasks[i].op = "answer" /\ tasks[j].op = "answer"
    /\ tasks[i].key = tasks[j].key
    /\ tasks[j].row # NoRow
    => tasks[i].row = tasks[j].row

AnswerInv ==
  /\ OnlyCreatedLive
  /\ SecretsUnique
  /\ AnswersHold
  /\ FoundIsCurrent
  /\ MissingIsCurrent
  /\ FoundTogether

(* A channel that is written as disconnected has the step that frees the    *)
(* slot ahead of it, after any step that takes the slot for it.             *)
IsSlot(i, c, to) ==
  tasks[i].op = "slot" /\ tasks[i].row = c /\ tasks[i].to = to

SlotFreed(c) ==
  /\ active = c => \E j \in 1..Len(tasks) : IsSlot(j, c, "disconnected")
  /\ \A i \in 1..Len(tasks) :
       IsSlot(i, c, "connected") =>
         \E j \in 1..Len(tasks) : i < j /\ IsSlot(j, c, "disconnected")

SlotWillBeFreed == \A c \in Row : status[c] = "disconnected" => SlotFreed(c)

(* The limiter remembers every request that is still in its window. *)
WindowKept ==
  \A r \in Pass :
    /\ passed[r].at <= clock
    /\ clock - passed[r].at < RateWindow => r \in rateMap[passed[r].ip]

RateInv == WindowKept /\ RateLimited

-----------------------------------------------------------------------------
(* The queue when a request is appended, and when its first task has run.   *)
LEMMA AppendTask ==
  ASSUME tasks \in Seq(Task), NEW task \in Task, tasks' = Append(tasks, task)
  PROVE  /\ tasks' \in Seq(Task)
         /\ Len(tasks') = Len(tasks) + 1
         /\ \A i \in 1..Len(tasks) : tasks'[i] = tasks[i]
         /\ tasks'[Len(tasks')] = task
  BY AppendProperties

LEMMA RunTask ==
  ASSUME tasks \in Seq(Task), tasks # << >>, NEW more \in Seq(Task),
         tasks' = Tail(tasks) \o more
  PROVE  /\ tasks' \in Seq(Task)
         /\ Head(tasks) = tasks[1] /\ tasks[1] \in Task
         /\ Len(tasks) \in Nat /\ 1 <= Len(tasks)
         /\ Len(tasks') = Len(tasks) - 1 + Len(more)
         /\ \A i \in 1..(Len(tasks) - 1) : tasks'[i] = tasks[i + 1]
         /\ \A i \in Len(tasks)..Len(tasks') : tasks'[i] = more[i - Len(tasks) + 1]
<1>1. /\ Len(tasks) \in Nat /\ 1 <= Len(tasks)
      /\ Tail(tasks) \in Seq(Task)
      /\ Len(Tail(tasks)) = Len(tasks) - 1
      /\ \A i \in 1..(Len(tasks) - 1) : Tail(tasks)[i] = tasks[i + 1]
      /\ Head(tasks) = tasks[1] /\ tasks[1] \in Task
  BY HeadTailProperties, EmptySeq
<1>2. /\ Len(more) \in Nat
      /\ tasks' \in Seq(Task)
      /\ Len(tasks') = Len(tasks) - 1 + Len(more)
      /\ \A i \in 1..(Len(tasks) - 1 + Len(more)) :
           tasks'[i] = IF i <= Len(tasks) - 1 THEN Tail(tasks)[i]
                                              ELSE more[i - (Len(tasks) - 1)]
  BY <1>1, ConcatProperties, LenProperties
<1> QED
  BY <1>1, <1>2

(* The case without a task left behind, as the handlers use it. *)
LEMMA RunLast ==
  ASSUME tasks \in Seq(Task), NEW op, NEW throws, Run(op, << >>, throws)
  PROVE  /\ tasks' \in Seq(Task)
         /\ Head(tasks) = tasks[1] /\ tasks[1] \in Task /\ tasks[1].op = op
         /\ Len(tasks) \in Nat /\ 1 <= Len(tasks) /\ 1 \in 1..Len(tasks)
         /\ Len(tasks') = Len(tasks) - 1
         /\ \A i \in 1..Len(tasks') : tasks'[i] = tasks[i + 1]
         /\ draining' \in BOOLEAN /\ dying' \in BOOLEAN
         /\ ~draining' => tasks' = << >>
<1>1. << >> \in Seq(Task) /\ Len(<< >>) = 0
  BY EmptySeq
<1>2. tasks # << >> /\ Head(tasks).op = op /\ tasks' = Tail(tasks) \o << >>
  BY DEF Run
<1>3. draining' \in BOOLEAN /\ dying' \in BOOLEAN /\ (~draining' => tasks' = << >>)
  BY Zenon DEF Run
<1> QED
  BY <1>1, <1>2, <1>3, RunTask

(* A status step runs, and leaves its slot step behind or nothing. *)
LEMMA RunStatusTask ==
  ASSUME tasks \in Seq(Task), RunStatus
  PROVE  LET task == tasks[1] IN
         /\ tasks' \in Seq(Task)
         /\ Head(tasks) = task /\ task \in Task
         /\ task.op = "status" /\ task.row \in Row
         /\ task.to \in {"registered", "connected", "disconnected"}
         /\ Len(tasks) \in Nat /\ 1 <= Len(tasks)
         /\ \A i \in 1..(Len(tasks) - 1) : tasks'[i] = tasks[i + 1]
         /\ Len(tasks') = IF task.to = "registered" THEN Len(tasks) - 1 ELSE Len(tasks)
         /\ task.to # "registered" =>
              tasks'[Len(tasks)] = [op |-> "slot", row |-> task.row, to |-> task.to]
         /\ draining' \in BOOLEAN /\ dying' \in BOOLEAN
         /\ ~draining' => tasks' = << >>
<1> DEFINE task == Head(tasks)
           slot == [op |-> "slot", row |-> task.row, to |-> task.to]
<1>1. tasks # << >> /\ task.op = "status"
  BY DEF RunStatus, Run
<1>2. task = tasks[1] /\ task \in Task
  BY <1>1, HeadTailProperties, EmptySeq
<1>3. task.row \in Row /\ task.to \in {"registered", "connected", "disconnected"}
  BY <1>1, <1>2 DEF Task
<1>4. CASE task.to = "registered"
  <2>1. Run("status", << >>, FALSE)
    BY <1>4 DEF RunStatus
  <2> QED
    BY <1>2, <1>3, <1>4, <2>1, RunLast
<1>5. CASE task.to # "registered"
  <2>1. Run("status", <<slot>>, FALSE)
    BY <1>5 DEF RunStatus
  <2>2. slot \in Task
    BY <1>3, <1>5 DEF Task
  <2>3. <<slot>> \in Seq(Task) /\ Len(<<slot>>) = 1 /\ <<slot>>[1] = slot
    <3> HIDE DEF slot
    <3> QED BY <2>2
  <2>4. tasks' = Tail(tasks) \o <<slot>>
    BY <2>1 DEF Run
  <2>6. draining' \in BOOLEAN /\ dying' \in BOOLEAN /\ (~draining' => tasks' = << >>)
    BY <2>1, Zenon DEF Run
  <2> HIDE DEF slot
  <2>5. /\ tasks' \in Seq(Task)
        /\ Len(tasks) \in Nat /\ 1 <= Len(tasks)
        /\ Len(tasks') = Len(tasks)
        /\ \A i \in 1..(Len(tasks) - 1) : tasks'[i] = tasks[i + 1]
        /\ tasks'[Len(tasks)] = slot
    BY <1>1, <2>3, <2>4, RunTask
  <2> QED
    BY <1>1, <1>2, <1>3, <1>5, <2>5, <2>6 DEF slot
<1> QED
  BY <1>4, <1>5

-----------------------------------------------------------------------------
(* What the types of the tables amount to. *)
TableType ==
  /\ lastChannel \in 0..MaxChannel
  /\ name \in [Row -> AnyName \cup {NoKey}]
  /\ secret \in [Row -> Key \cup {NoKey}]
  /\ key \in [Row -> Key \cup {NoKey}]
  /\ status \in [Row -> Status]

LEMMA CreateType ==
  ASSUME TableType,
         NEW n \in AnyName, NEW s \in Key \cup {NoKey}, NEW k \in Key \cup {NoKey},
         NEW st \in Status, Create(n, s, k, st)
  PROVE  TableType' /\ lastChannel' = lastChannel + 1 /\ lastChannel' \in Row
  BY RegistryAssumption DEF TableType, Create, Row

LEMMA PassAppended ==
  ASSUME passed \in Seq([ip : Ip, at : 1..MaxClock]), clock \in 1..MaxClock,
         rateMap \in [Ip -> SUBSET Pass],
         NEW ip \in Ip, LetThrough(ip)
  PROVE  LET new == [ip |-> ip, at |-> clock] IN
         /\ passed' \in Seq([ip : Ip, at : 1..MaxClock])
         /\ Len(passed) \in Nat
         /\ Len(passed') = Len(passed) + 1
         /\ \A r \in Pass : passed'[r] = passed[r]
         /\ passed'[Len(passed')] = new
         /\ rateMap' \in [Ip -> SUBSET Pass']
<1> DEFINE new == [ip |-> ip, at |-> clock]
<1>1. new \in [ip : Ip, at : 1..MaxClock]
  OBVIOUS
<1>2. passed' = Append(passed, new)
  BY DEF LetThrough
<1> HIDE DEF new
<1>3. /\ passed' \in Seq([ip : Ip, at : 1..MaxClock])
      /\ Len(passed) \in Nat
      /\ Len(passed') = Len(passed) + 1
      /\ \A r \in 1..Len(passed) : passed'[r] = passed[r]
      /\ passed'[Len(passed')] = new
  BY <1>1, <1>2, AppendProperties, LenProperties
<1>4. rateMap' \in [Ip -> SUBSET Pass']
  <2>1. Pass \subseteq Pass' /\ Len(passed') \in Pass'
    BY <1>3 DEF Pass
  <2>2. InWindow(ip) \in SUBSET Pass'
    BY <2>1 DEF InWindow
  <2>3. rateMap' = [rateMap EXCEPT ![ip] = InWindow(ip) \cup {Len(passed')}]
    BY DEF LetThrough
  <2> HIDE DEF Pass
  <2> QED
    BY <2>1, <2>2, <2>3
<1> QED
  BY <1>3, <1>4 DEF Pass, new

(* Dying leaves the types of what the process had in memory alone. *)
LEMMA DieType ==
  ASSUME Die
  PROVE  /\ active' = NoRow /\ tasks' = << >> /\ tasks' \in Seq(Task)
         /\ Len(tasks') = 0
         /\ draining' = FALSE /\ dying' = FALSE
         /\ rateMap' \in [Ip -> SUBSET Pass']
         /\ passed' \in Seq([ip : Ip, at : 1..MaxClock])
         /\ passed' = << >> /\ Pass' = {}
  BY DEF Die, Pass

-----------------------------------------------------------------------------
(* A step keeps the type of every variable. *)
LEMMA NextTypeOK == RegTypeOK /\ [RegNext]_regVars => RegTypeOK'
<1> SUFFICES ASSUME RegTypeOK, [RegNext]_regVars PROVE RegTypeOK'
  OBVIOUS
<1> USE RegistryAssumption
<1>t. RegTypeOK <=> /\ TableType
                    /\ active \in Row \cup {NoRow}
                    /\ tasks \in Seq(Task)
                    /\ draining \in BOOLEAN /\ dying \in BOOLEAN
                    /\ rateMap \in [Ip -> SUBSET Pass]
                    /\ clock \in 1..MaxClock
                    /\ passed \in Seq([ip : Ip, at : 1..MaxClock])
                    /\ answered \in [Key -> Row \cup {NoRow}]
  BY DEF RegTypeOK, TableType
<1>p. UNCHANGED passed => Pass' = Pass
  BY DEF Pass
<1>s. UNCHANGED table /\ TableType => TableType'
  BY DEF table, TableType
<1>1. ASSUME NEW n \in Name, ApplyChannel(n) PROVE RegTypeOK'
  <2>1. TableType'
    BY <1>1, <1>t, CreateType DEF ApplyChannel, AnyName, Status
  <2> QED
    BY <1>1, <1>t, <1>p, <2>1
       DEF ApplyChannel, memory, limiter, RegTypeOK, TableType
<1>2. ASSUME NEW k \in Key, RegisterChannelByKey(k) PROVE RegTypeOK'
  <2>1. TableType'
    BY <1>2, <1>t, CreateType DEF RegisterChannelByKey, AnyName, Status
  <2> QED
    BY <1>2, <1>t, <1>p, <2>1
       DEF RegisterChannelByKey, memory, limiter, RegTypeOK, TableType
<1>3. ASSUME NEW k \in Key, NEW ip \in Ip, QuickRegisterChannel(ip, k) PROVE RegTypeOK'
  <2> DEFINE task == [op |-> "answer", key |-> k, row |-> GetBySecret(k)]
  <2>1. TableType'
    BY <1>3, <1>t, <1>s DEF QuickRegisterChannel
  <2>2. task \in Task
    BY DEF Task, GetBySecret
  <2>3. tasks' \in Seq(Task)
    BY <1>3, <1>t, <2>2, AppendTask DEF QuickRegisterChannel, Arrive
  <2>4. /\ passed' \in Seq([ip : Ip, at : 1..MaxClock])
        /\ rateMap' \in [Ip -> SUBSET Pass']
    BY <1>3, <1>t, PassAppended DEF QuickRegisterChannel
  <2> HIDE DEF task
  <2>5. UNCHANGED <<active, draining, dying, clock, answered>>
    BY <1>3 DEF QuickRegisterChannel, Arrive, LetThrough
  <2> QED
    BY <1>t, <2>1, <2>3, <2>4, <2>5 DEF RegTypeOK, TableType
<1>4. ASSUME NEW k \in Key, InsertFails(k) PROVE RegTypeOK'
  <2>1. Run("answer", << >>, TRUE)
    BY <1>4 DEF InsertFails
  <2>2. tasks' \in Seq(Task) /\ draining' \in BOOLEAN /\ dying' \in BOOLEAN
    BY <1>t, <2>1, RunLast
  <2>3. TableType' /\ UNCHANGED <<active, limiter, answered>>
    BY <1>4, <1>t, <1>s DEF InsertFails
  <2> QED
    BY <1>t, <1>p, <2>2, <2>3 DEF limiter, RegTypeOK, TableType
<1>5. ASSUME NEW c \in Row, NEW to \in {"registered", "connected", "disconnected"},
             RequestStatus(c, to) PROVE RegTypeOK'
  <2> DEFINE task == [op |-> "status", row |-> c, to |-> to]
  <2>1. task \in Task
    BY DEF Task
  <2>2. tasks' \in Seq(Task)
    BY <1>5, <1>t, <2>1, AppendTask DEF RequestStatus, Arrive
  <2>3. TableType'
    BY <1>5, <1>t, <1>s DEF RequestStatus
  <2>4. UNCHANGED <<active, draining, dying, rateMap, clock, passed, answered>>
    BY <1>5 DEF RequestStatus, Arrive, limiter
  <2> QED
    BY <1>t, <1>p, <2>2, <2>3, <2>4 DEF RegTypeOK, TableType
<1>6. ASSUME NEW c \in Row, DeleteChannel(c) PROVE RegTypeOK'
  BY <1>6, <1>p DEF DeleteChannel, RegTypeOK, memory, limiter, Status
<1>7. CASE AnswerExisting
  <2>1. Run("answer", << >>, FALSE)
    BY <1>7 DEF AnswerExisting
  <2>2. /\ tasks' \in Seq(Task) /\ draining' \in BOOLEAN /\ dying' \in BOOLEAN
        /\ Head(tasks) \in Task /\ Head(tasks).op = "answer"
    BY <1>t, <2>1, RunLast
  <2>3. Head(tasks).row \in Row \cup {NoRow}
    BY <2>2 DEF Task
  <2>4. answered' \in [Key -> Row \cup {NoRow}]
    BY <1>7, <1>t, <2>3 DEF AnswerExisting
  <2>5. TableType' /\ UNCHANGED <<active, limiter>>
    BY <1>7, <1>t, <1>s DEF AnswerExisting
  <2> QED
    BY <1>t, <1>p, <2>2, <2>4, <2>5 DEF limiter, RegTypeOK, TableType
<1>8. CASE AnswerCreated
  <2> DEFINE k == Head(tasks).key
  <2>1. Run("answer", << >>, FALSE)
    BY <1>8 DEF AnswerCreated
  <2>2. /\ tasks' \in Seq(Task) /\ draining' \in BOOLEAN /\ dying' \in BOOLEAN
        /\ Head(tasks) \in Task /\ Head(tasks).op = "answer"
    BY <1>t, <2>1, RunLast
  <2>3. k \in Key
    BY <2>2 DEF Task
  <2>4. Create(QuickName[k], k, NoKey, "registered")
    BY <1>8 DEF AnswerCreated
  <2> HIDE DEF k
  <2>5. TableType' /\ lastChannel' \in Row
    BY <1>t, <2>3, <2>4, CreateType DEF AnyName, Status
  <2>6. answered' \in [Key -> Row \cup {NoRow}]
    BY <1>8, <1>t, <2>3, <2>5 DEF AnswerCreated
  <2>7. UNCHANGED <<active, limiter>>
    BY <1>8 DEF AnswerCreated
  <2> QED
    BY <1>t, <1>p, <2>2, <2>5, <2>6, <2>7 DEF limiter, RegTypeOK, TableType
<1>9. CASE RunStatus
  <2>1. /\ tasks' \in Seq(Task) /\ draining' \in BOOLEAN /\ dying' \in BOOLEAN
        /\ Head(tasks).to \in {"registered", "connected", "disconnected"}
    BY <1>9, <1>t, RunStatusTask
  <2>2. status' \in [Row -> Status]
    BY <1>9, <1>t, <2>1 DEF RunStatus, UpdateStatus, TableType, Status
  <2>3. UNCHANGED <<lastChannel, name, secret, key, active, limiter, answered>>
    BY <1>9 DEF RunStatus
  <2> QED
    BY <1>p, <2>1, <2>2, <2>3 DEF limiter, RegTypeOK
<1>10. CASE RunSlot
  <2>1. Run("slot", << >>, FALSE)
    BY <1>10 DEF RunSlot
  <2>2. /\ tasks' \in Seq(Task) /\ draining' \in BOOLEAN /\ dying' \in BOOLEAN
        /\ Head(tasks) \in Task /\ Head(tasks).op = "slot"
    BY <1>t, <2>1, RunLast
  <2>3. Head(tasks).row \in Row
    BY <2>2 DEF Task
  <2>4. active' \in Row \cup {NoRow}
    BY <1>10, <1>t, <2>3 DEF RunSlot
  <2>5. TableType' /\ UNCHANGED <<limiter, answered>>
    BY <1>10, <1>t, <1>s DEF RunSlot
  <2> QED
    BY <1>t, <1>p, <2>2, <2>4, <2>5 DEF limiter, RegTypeOK, TableType
<1>11. CASE Restart
  <2>1. TableType'
    <3>1. CASE UNCHANGED table
      BY <1>t, <1>s, <3>1
    <3>2. ASSUME NEW k \in Key, Create(k, NoKey, NoKey, "pending") PROVE TableType'
      BY <1>t, <3>2, CreateType DEF AnyName, Status
    <3> QED
      BY <1>11, <3>1, <3>2 DEF Restart
  <2> QED
    BY <1>11, <1>t, <2>1, DieType DEF Restart, RegTypeOK, TableType
<1>12. CASE Tick
  <2>1. clock' \in 1..MaxClock
    BY <1>12, <1>t DEF Tick
  <2> QED
    BY <1>12, <1>t, <1>p, <1>s, <2>1 DEF Tick, memory, RegTypeOK, TableType
<1>13. CASE UNCHANGED regVars
  BY <1>13, <1>p DEF regVars, table, memory, limiter, RegTypeOK
<1>14. ASSUME NEW ip \in Ip, RefuseQuickRegister(ip) PROVE RegTypeOK'
  <2>1. /\ passed' \in Seq([ip : Ip, at : 1..MaxClock])
        /\ rateMap' \in [Ip -> SUBSET Pass']
    BY <1>14, <1>t, PassAppended DEF RefuseQuickRegister
  <2>2. TableType' /\ UNCHANGED <<active, tasks, draining, dying, clock, answered>>
    BY <1>14, <1>t, <1>s DEF RefuseQuickRegister, LetThrough, memory
  <2> QED
    BY <1>t, <2>1, <2>2 DEF RegTypeOK, TableType
<1>15. CASE AnswerConflict
  <2>1. Run("answer", << >>, FALSE)
    BY <1>15 DEF AnswerConflict
  <2>2. tasks' \in Seq(Task) /\ draining' \in BOOLEAN /\ dying' \in BOOLEAN
    BY <1>t, <2>1, RunLast
  <2>3. TableType' /\ UNCHANGED <<active, limiter, answered>>
    BY <1>15, <1>t, <1>s DEF AnswerConflict
  <2> QED
    BY <1>t, <1>p, <2>2, <2>3 DEF limiter, RegTypeOK, TableType
<1>16. CASE RejectionEnds
  <2>1. TableType'
    BY <1>16, <1>t, <1>s DEF RejectionEnds
  <2> QED
    BY <1>16, <1>t, <2>1, DieType DEF RejectionEnds, RegTypeOK, TableType
<1> QED
  BY <1>1, <1>2, <1>3, <1>4, <1>5, <1>6, <1>7, <1>8, <1>9, <1>10, <1>11, <1>12, <1>13,
     <1>14, <1>15, <1>16
     DEF RegNext

-----------------------------------------------------------------------------
(* A new row is none of the rows there were before. *)
LEMMA CreateRow ==
  ASSUME RegTypeOK, OnlyCreatedLive,
         NEW n, NEW s \in Key \cup {NoKey}, NEW k, NEW st,
         Create(n, s, k, st), st # "none"
  PROVE  /\ lastChannel' = lastChannel + 1 /\ lastChannel' \in Row
         /\ \A c \in Row : c # lastChannel' =>
              (status'[c] # "none" <=> Live(c)) /\ secret'[c] = secret[c]
         /\ status'[lastChannel'] # "none" /\ secret'[lastChannel'] = s
         /\ ~Live(lastChannel')
         /\ OnlyCreatedLive'
<1> USE RegistryAssumption DEF Row, Live
<1>1. lastChannel' = lastChannel + 1 /\ lastChannel' \in Row
  BY DEF RegTypeOK, Create
<1>2. /\ status' = [status EXCEPT ![lastChannel'] = st]
      /\ secret' = [secret EXCEPT ![lastChannel'] = s]
  BY DEF Create
<1>3. DOMAIN status = Row /\ DOMAIN secret = Row
  BY DEF RegTypeOK
<1>4. ~Live(lastChannel')
  BY <1>1 DEF OnlyCreatedLive, RegTypeOK
<1>5. /\ status'[lastChannel'] = st /\ secret'[lastChannel'] = s
      /\ \A c \in Row : c # lastChannel' =>
           status'[c] = status[c] /\ secret'[c] = secret[c]
  BY <1>1, <1>2, <1>3
<1>6. OnlyCreatedLive'
  <2> SUFFICES ASSUME NEW c \in Row, c # lastChannel', status'[c] # "none"
               PROVE  c <= lastChannel'
    BY <1>1 DEF OnlyCreatedLive
  <2>1. c <= lastChannel
    BY <1>5 DEF OnlyCreatedLive
  <2>2. lastChannel \in Nat /\ c \in Nat
    BY DEF RegTypeOK
  <2> QED
    BY <1>1, <2>1, <2>2
<1> QED
  BY <1>1, <1>4, <1>5, <1>6

(* A channel without a key is created, or channels change no key: of what   *)
(* was known before, no more than a row's life is lost.                     *)
NoKeyGained ==
  /\ lastChannel <= lastChannel'
  /\ \A c \in Row :
       status'[c] # "none" /\ secret'[c] \in Key => Live(c) /\ secret'[c] = secret[c]
  /\ \A c \in Row :
       c <= lastChannel /\ status'[c] # "none" => Live(c) /\ secret'[c] = secret[c]
  /\ OnlyCreatedLive'

LEMMA NoKeyGainedKeeps ==
  ASSUME RegTypeOK, RegTypeOK', AnswerInv, NoKeyGained
  PROVE  /\ SecretsUnique'
         /\ UNCHANGED answered => AnswersHold'
         /\ \A k \in Key, c \in Row :
              status'[c] # "none" /\ secret'[c] = k => Live(c) /\ secret[c] = k
<1> USE DEF Live
<1>1. \A k \in Key, c \in Row :
        status'[c] # "none" /\ secret'[c] = k => Live(c) /\ secret[c] = k
  BY DEF NoKeyGained
<1>2. SecretsUnique'
  BY <1>1 DEF AnswerInv, SecretsUnique
<1>3. ASSUME UNCHANGED answered PROVE AnswersHold'
  <2> SUFFICES ASSUME NEW k \in Key, answered[k] # NoRow
               PROVE  /\ answered[k] <= lastChannel'
                      /\ status'[answered[k]] # "none" => secret'[answered[k]] = k
    BY <1>3 DEF AnswersHold
  <2>1. answered[k] \in Row /\ answered[k] <= lastChannel
    BY DEF AnswerInv, AnswersHold, RegTypeOK
  <2>2. status'[answered[k]] # "none" => secret'[answered[k]] = k
    BY <2>1 DEF NoKeyGained, AnswerInv, AnswersHold
  <2> QED
    BY <2>1, <2>2, RegistryAssumption DEF NoKeyGained, RegTypeOK, Row
<1> QED
  BY <1>1, <1>2, <1>3

(* The queue keeps what it knows when no key is gained and tasks are only   *)
(* taken from its front, or steps added that answer nobody.                 *)
LEMMA QueueKeeps ==
  ASSUME RegTypeOK, RegTypeOK', AnswerInv, NoKeyGained,
         draining' \/ Len(tasks') = 0 \/ ~draining,
         NEW d \in {0, 1},
         \A i \in 1..Len(tasks') :
           tasks'[i].op = "answer" =>
             i + d \in 1..Len(tasks) /\ tasks'[i] = tasks[i + d]
  PROVE  FoundIsCurrent' /\ MissingIsCurrent' /\ FoundTogether'
<1> USE DEF Live
<1>1. \A k \in Key, c \in Row :
        status'[c] # "none" /\ secret'[c] = k => Live(c) /\ secret[c] = k
  BY NoKeyGainedKeeps
<1>2. \A i \in 1..Len(tasks') :
        tasks'[i].op = "answer" =>
          tasks'[i].key \in Key /\ tasks'[i].row \in Row \cup {NoRow}
  <2>1. \A i \in 1..Len(tasks') : tasks'[i] \in Task
    BY DEF RegTypeOK
  <2> QED
    BY <2>1 DEF Task
<1>3. FoundIsCurrent'
  <2> SUFFICES ASSUME NEW i \in 1..Len(tasks'),
                      tasks'[i].op = "answer", tasks'[i].row # NoRow
               PROVE  /\ tasks'[i].row <= lastChannel'
                      /\ status'[tasks'[i].row] # "none" => secret'[tasks'[i].row] = tasks'[i].key
                      /\ \A c \in Row :
                           status'[c] # "none" /\ secret'[c] = tasks'[i].key => c = tasks'[i].row
    BY DEF FoundIsCurrent
  <2> DEFINE r == tasks'[i].row
             k == tasks'[i].key
  <2>1. /\ r \in Row /\ k \in Key /\ r <= lastChannel
        /\ Live(r) => secret[r] = k
        /\ \A c \in Row : Live(c) /\ secret[c] = k => c = r
    BY <1>2 DEF AnswerInv, FoundIsCurrent
  <2> HIDE DEF r, k
  <2>2. r <= lastChannel'
    BY <2>1, RegistryAssumption DEF NoKeyGained, RegTypeOK, Row
  <2>3. status'[r] # "none" => secret'[r] = k
    BY <2>1 DEF NoKeyGained
  <2>4. \A c \in Row : status'[c] # "none" /\ secret'[c] = k => c = r
    BY <1>1, <2>1
  <2> QED
    BY <2>2, <2>3, <2>4 DEF r, k
<1>4. MissingIsCurrent'
  <2> SUFFICES ASSUME ~draining', NEW i \in 1..Len(tasks'),
                      tasks'[i].op = "answer", tasks'[i].row = NoRow,
                      NEW c \in Row, status'[c] # "none", secret'[c] = tasks'[i].key
               PROVE  FALSE
    BY DEF MissingIsCurrent
  <2>1. ~draining
    BY DEF RegTypeOK
  <2>2. Live(c) /\ secret[c] = tasks'[i].key
    BY <1>1, <1>2
  <2> QED
    BY <2>1, <2>2 DEF AnswerInv, MissingIsCurrent
<1>5. FoundTogether'
  <2> SUFFICES ASSUME NEW i \in 1..Len(tasks'), NEW j \in 1..Len(tasks'), i < j,
                      tasks'[i].op = "answer", tasks'[j].op = "answer",
                      tasks'[i].key = tasks'[j].key, tasks'[j].row # NoRow
               PROVE  tasks'[i].row = tasks'[j].row
    BY DEF FoundTogether
  <2>1. /\ i + d \in 1..Len(tasks) /\ tasks'[i] = tasks[i + d]
        /\ j + d \in 1..Len(tasks) /\ tasks'[j] = tasks[j + d]
        /\ i + d < j + d
    OBVIOUS
  <2> QED
    BY <2>1 DEF AnswerInv, FoundTogether
<1> QED
  BY <1>3, <1>4, <1>5

(* The steps that gain no key. *)
LEMMA UnchangedGainsNoKey ==
  ASSUME RegTypeOK, AnswerInv, UNCHANGED <<lastChannel, secret, status>>
  PROVE  NoKeyGained
  BY DEF NoKeyGained, AnswerInv, OnlyCreatedLive, RegTypeOK, Row, Live

LEMMA CreateGainsNoKey ==
  ASSUME RegTypeOK, AnswerInv, NEW n, NEW k, Create(n, NoKey, k, "pending")
  PROVE  NoKeyGained
<1>1. /\ lastChannel' = lastChannel + 1 /\ lastChannel' \in Row
      /\ \A c \in Row : c # lastChannel' =>
           (status'[c] # "none" <=> Live(c)) /\ secret'[c] = secret[c]
      /\ secret'[lastChannel'] = NoKey
      /\ OnlyCreatedLive'
  BY CreateRow DEF AnswerInv
<1>2. ASSUME NEW c \in Row, c # lastChannel', status'[c] # "none"
      PROVE  Live(c) /\ secret'[c] = secret[c]
  BY <1>1, <1>2
<1>3. secret'[lastChannel'] \notin Key
  BY <1>1, RegistryAssumption
<1>4. lastChannel <= lastChannel' /\ ~(lastChannel' <= lastChannel)
  BY <1>1 DEF RegTypeOK
<1> QED
  BY <1>1, <1>2, <1>3, <1>4 DEF NoKeyGained

LEMMA DeleteGainsNoKey ==
  ASSUME RegTypeOK, AnswerInv, NEW d \in Row, DeleteChannel(d)
  PROVE  NoKeyGained
<1>1. /\ lastChannel' = lastChannel
      /\ status'[d] = "none"
      /\ \A c \in Row : c # d => status'[c] = status[c] /\ secret'[c] = secret[c]
  BY DEF DeleteChannel, RegTypeOK
<1> QED
  BY <1>1 DEF NoKeyGained, AnswerInv, OnlyCreatedLive, RegTypeOK, Row, Live

LEMMA StatusGainsNoKey ==
  ASSUME RegTypeOK, AnswerInv, RunStatus
  PROVE  NoKeyGained
<1> DEFINE task == Head(tasks)
<1>1. task.row \in Row /\ task.to \in {"registered", "connected", "disconnected"}
  BY RunStatusTask DEF RegTypeOK
<1>2. /\ UNCHANGED <<lastChannel, secret>>
      /\ status' = [status EXCEPT ![task.row] = IF Live(task.row) THEN task.to ELSE @]
  BY DEF RunStatus, UpdateStatus
<1> HIDE DEF task
<1>3. \A c \in Row : status'[c] # "none" <=> Live(c)
  BY <1>1, <1>2 DEF RegTypeOK, Live
<1> QED
  BY <1>2, <1>3 DEF NoKeyGained, AnswerInv, OnlyCreatedLive, RegTypeOK, Row, Live

(* A lookup joins the queue. *)
LEMMA LookupKeeps ==
  ASSUME RegTypeOK, AnswerInv, NEW k \in Key, UNCHANGED table,
         Arrive([op |-> "answer", key |-> k, row |-> GetBySecret(k)])
  PROVE  FoundIsCurrent' /\ MissingIsCurrent' /\ FoundTogether'
<1> USE DEF Live
<1> DEFINE r == GetBySecret(k)
           task == [op |-> "answer", key |-> k, row |-> r]
<1>1. r \in Row \cup {NoRow}
  BY DEF GetBySecret
<1>2. r # NoRow => r \in Row /\ Live(r) /\ secret[r] = k /\ r <= lastChannel
  BY DEF GetBySecret, NoRow, Row, AnswerInv, OnlyCreatedLive
<1>3. r # NoRow => \A c \in Row : Live(c) /\ secret[c] = k => c = r
  BY <1>2 DEF AnswerInv, SecretsUnique
<1>4. r = NoRow => \A c \in Row : Live(c) => secret[c] # k
  BY DEF GetBySecret, NoRow, Row
<1>5. task \in Task
  BY <1>1 DEF Task
<1>6. /\ Len(tasks) \in Nat /\ Len(tasks') = Len(tasks) + 1
      /\ \A i \in 1..Len(tasks) : tasks'[i] = tasks[i]
      /\ tasks'[Len(tasks')] = task
  BY <1>5, AppendTask, LenProperties DEF Arrive, RegTypeOK
<1>7. task.op = "answer" /\ task.key = k /\ task.row = r
  OBVIOUS
<1> HIDE DEF r, task
<1>8. \A i \in 1..Len(tasks') : i \in 1..Len(tasks) \/ i = Len(tasks')
  BY <1>6
<1>9. UNCHANGED <<lastChannel, secret, status, draining>> /\ ~draining
  BY DEF table, Arrive
<1>10. FoundIsCurrent'
  BY <1>2, <1>3, <1>6, <1>7, <1>8, <1>9 DEF AnswerInv, FoundIsCurrent
<1>11. MissingIsCurrent'
  BY <1>4, <1>6, <1>7, <1>8, <1>9 DEF AnswerInv, MissingIsCurrent
<1>12. FoundTogether'
  <2> SUFFICES ASSUME NEW i \in 1..Len(tasks'), NEW j \in 1..Len(tasks'), i < j,
                      tasks'[i].op = "answer", tasks'[j].op = "answer",
                      tasks'[i].key = tasks'[j].key, tasks'[j].row # NoRow
               PROVE  tasks'[i].row = tasks'[j].row
    BY DEF FoundTogether
  <2>1. i \in 1..Len(tasks)
    BY <1>6, <1>8
  <2>2. CASE j \in 1..Len(tasks)
    BY <1>6, <2>1, <2>2 DEF AnswerInv, FoundTogether
  <2>3. CASE j = Len(tasks')
    <3>1. tasks[i].op = "answer" /\ tasks[i].key = k /\ tasks'[i].row = tasks[i].row
      BY <1>6, <1>7, <2>1, <2>3
    <3>2. r \in Row /\ Live(r) /\ secret[r] = k /\ tasks'[j].row = r
      BY <1>2, <1>6, <1>7, <2>3
    <3>3. tasks[i].row # NoRow
      BY <1>9, <2>1, <3>1, <3>2 DEF AnswerInv, MissingIsCurrent
    <3>4. tasks[i].row = r
      BY <2>1, <3>1, <3>2, <3>3 DEF AnswerInv, FoundIsCurrent
    <3> QED
      BY <3>1, <3>2, <3>4
  <2> QED
    BY <1>8, <2>2, <2>3
<1> QED
  BY <1>10, <1>11, <1>12

(* The channel that is created for a key is its only one. *)
LEMMA CreatedKeeps ==
  ASSUME RegTypeOK, RegTypeOK', AnswerInv, AnswerCreated
  PROVE  AnswerInv'
<1> USE DEF Live
<1> DEFINE k == tasks[1].key
           n == lastChannel'
<1>1. /\ Head(tasks) = tasks[1] /\ tasks[1] \in Task /\ tasks[1].op = "answer"
      /\ Len(tasks) \in Nat /\ 1 <= Len(tasks) /\ Len(tasks') = Len(tasks) - 1
      /\ \A i \in 1..Len(tasks') : tasks'[i] = tasks[i + 1]
      /\ ~draining' => tasks' = << >>
  BY RunLast DEF AnswerCreated, RegTypeOK
<1>2. k \in Key /\ tasks[1].row = NoRow
  BY <1>1 DEF Task, AnswerCreated
<1>3. \A c \in Row : Live(c) => secret[c] # k
  BY <1>1, <1>2, RegistryAssumption DEF AnswerCreated, Unique
<1>4. /\ n = lastChannel + 1 /\ n \in Row
      /\ \A c \in Row : c # n =>
           (status'[c] # "none" <=> Live(c)) /\ secret'[c] = secret[c]
      /\ status'[n] # "none" /\ secret'[n] = k
      /\ OnlyCreatedLive'
  <2>1. Create(QuickName[k], k, NoKey, "registered")
    BY <1>1 DEF AnswerCreated
  <2> HIDE DEF k
  <2> QED
    BY <1>2, <2>1, CreateRow DEF AnswerInv
<1>5. answered' = [answered EXCEPT ![k] = n]
  BY <1>1 DEF AnswerCreated
<1> HIDE DEF k, n
<1>6. SecretsUnique'
  BY <1>2, <1>3, <1>4 DEF AnswerInv, SecretsUnique
<1>7. AnswersHold'
  <2> SUFFICES ASSUME NEW x \in Key, answered'[x] # NoRow
               PROVE  /\ answered'[x] <= lastChannel'
                      /\ status'[answered'[x]] # "none" => secret'[answered'[x]] = x
    BY DEF AnswersHold
  <2>1. CASE x = k
    BY <1>2, <1>4, <1>5, <2>1 DEF n, RegTypeOK, Row
  <2>2. CASE x # k
    <3>1. answered'[x] = answered[x] /\ answered[x] \in Row /\ answered[x] <= lastChannel
      BY <1>2, <1>5, <2>2 DEF RegTypeOK, AnswerInv, AnswersHold
    <3>2. answered[x] # n
      BY <1>4, <3>1 DEF RegTypeOK, Row
    <3> QED
      BY <1>4, <3>1, <3>2 DEF n, RegTypeOK, Row, AnswerInv, AnswersHold
  <2> QED
    BY <2>1, <2>2
<1>8. ASSUME NEW i \in 1..Len(tasks'), tasks'[i].op = "answer", tasks'[i].row # NoRow
      PROVE  /\ i + 1 \in 1..Len(tasks) /\ tasks'[i] = tasks[i + 1]
             /\ tasks'[i].key # k
             /\ tasks'[i].row \in Row /\ tasks'[i].row # n
  <2>1. i + 1 \in 1..Len(tasks) /\ tasks'[i] = tasks[i + 1] /\ 1 < i + 1
    BY <1>1, <1>8
  <2>2. 1 \in 1..Len(tasks)
    BY <1>1
  <2>3. tasks'[i].key # k
    BY <1>1, <1>2, <1>8, <2>1, <2>2 DEF AnswerInv, FoundTogether, k
  <2>4. tasks'[i] \in Task
    BY <2>1 DEF RegTypeOK
  <2>5. tasks'[i].row \in Row /\ tasks'[i].row <= lastChannel
    BY <1>8, <2>1, <2>4 DEF Task, AnswerInv, FoundIsCurrent
  <2> QED
    BY <1>4, <2>1, <2>3, <2>5 DEF RegTypeOK, Row
<1>9. FoundIsCurrent'
  <2> SUFFICES ASSUME NEW i \in 1..Len(tasks'),
                      tasks'[i].op = "answer", tasks'[i].row # NoRow
               PROVE  /\ tasks'[i].row <= lastChannel'
                      /\ status'[tasks'[i].row] # "none" =>
                           secret'[tasks'[i].row] = tasks'[i].key
                      /\ \A c \in Row :
                           status'[c] # "none" /\ secret'[c] = tasks'[i].key =>
                             c = tasks'[i].row
    BY DEF FoundIsCurrent
  <2> DEFINE r == tasks'[i].row
             x == tasks'[i].key
  <2>1. r \in Row /\ r # n /\ x # k
    BY <1>8
  <2>2. /\ r <= lastChannel
        /\ Live(r) => secret[r] = x
        /\ \A c \in Row : Live(c) /\ secret[c] = x => c = r
    BY <1>8 DEF AnswerInv, FoundIsCurrent
  <2> HIDE DEF r, x
  <2>3. r <= lastChannel'
    BY <1>4, <2>1, <2>2 DEF n, RegTypeOK, Row
  <2>4. \A c \in Row : status'[c] # "none" /\ secret'[c] = x => c = r
    BY <1>4, <2>1, <2>2
  <2> QED
    BY <1>4, <2>1, <2>2, <2>3, <2>4 DEF r, x
<1>10. MissingIsCurrent'
  <2>1. SUFFICES ASSUME ~draining', NEW i \in 1..Len(tasks') PROVE FALSE
    BY DEF MissingIsCurrent
  <2>2. Len(tasks') = 0
    BY <1>1, <2>1, EmptySeq
  <2> QED
    BY <2>2
<1>11. FoundTogether'
  <2> SUFFICES ASSUME NEW i \in 1..Len(tasks'), NEW j \in 1..Len(tasks'), i < j,
                      tasks'[i].op = "answer", tasks'[j].op = "answer",
                      tasks'[i].key = tasks'[j].key, tasks'[j].row # NoRow
               PROVE  tasks'[i].row = tasks'[j].row
    BY DEF FoundTogether
  <2>1. /\ i + 1 \in 1..Len(tasks) /\ tasks'[i] = tasks[i + 1]
        /\ j + 1 \in 1..Len(tasks) /\ tasks'[j] = tasks[j + 1]
        /\ i + 1 < j + 1
    BY <1>1
  <2> QED
    BY <2>1 DEF AnswerInv, FoundTogether
<1> QED
  BY <1>4, <1>6, <1>7, <1>9, <1>10, <1>11 DEF AnswerInv

-----------------------------------------------------------------------------
(* The initial state has all the invariants. *)
LEMMA InitCorrect ==
  RegInit => RegTypeOK /\ AnswerInv /\ SlotWillBeFreed /\ RateInv
<1> SUFFICES ASSUME RegInit PROVE RegTypeOK /\ AnswerInv /\ SlotWillBeFreed /\ RateInv
  OBVIOUS
<1> USE RegistryAssumption DEF RegInit
<1>1. tasks \in Seq(Task) /\ Len(tasks) = 0
      /\ passed \in Seq([ip : Ip, at : 1..MaxClock]) /\ Len(passed) = 0
  BY EmptySeq
<1>2. RegTypeOK
  <2>1. lastChannel \in 0..MaxChannel /\ clock \in 1..MaxClock
    OBVIOUS
  <2>2. /\ name \in [Row -> AnyName \cup {NoKey}]
        /\ secret \in [Row -> Key \cup {NoKey}]
        /\ key \in [Row -> Key \cup {NoKey}]
        /\ status \in [Row -> Status]
    BY DEF Status
  <2>3. /\ active \in Row \cup {NoRow} /\ draining \in BOOLEAN
        /\ rateMap \in [Ip -> SUBSET Pass]
        /\ answered \in [Key -> Row \cup {NoRow}]
    OBVIOUS
  <2> QED
    BY <1>1, <2>1, <2>2, <2>3 DEF RegTypeOK
<1>3. AnswerInv
  BY <1>1 DEF AnswerInv, OnlyCreatedLive, SecretsUnique, AnswersHold,
              FoundIsCurrent, MissingIsCurrent, FoundTogether, Live, NoRow
<1>4. SlotWillBeFreed
  BY DEF SlotWillBeFreed
<1>5. Pass = {}
  BY <1>1 DEF Pass
<1>6. RateLimited
  BY <1>5, FS_EmptySet DEF RateLimited
<1> QED
  BY <1>2, <1>3, <1>4, <1>5, <1>6 DEF RateInv, WindowKept

(* A step keeps what is known of the keys and of the answers under way. *)
LEMMA NextAnswerInv ==
  RegTypeOK /\ RegTypeOK' /\ AnswerInv /\ [RegNext]_regVars => AnswerInv'
<1> SUFFICES ASSUME RegTypeOK, RegTypeOK', AnswerInv, [RegNext]_regVars
             PROVE  AnswerInv'
  OBVIOUS
<1>k. ASSUME NoKeyGained, UNCHANGED answered,
             FoundIsCurrent' /\ MissingIsCurrent' /\ FoundTogether'
      PROVE  AnswerInv'
  BY <1>k, NoKeyGainedKeeps DEF AnswerInv, NoKeyGained
<1>u. ASSUME NoKeyGained, UNCHANGED <<tasks, draining, answered>>
      PROVE  AnswerInv'
  <2>1. \A i \in 1..Len(tasks) : i + 0 \in 1..Len(tasks) /\ tasks[i] = tasks[i + 0]
    OBVIOUS
  <2>2. draining' \/ Len(tasks') = 0 \/ ~draining
    BY <1>u DEF RegTypeOK
  <2> QED
    BY <1>k, <1>u, <2>1, <2>2, QueueKeeps
<1>d. ASSUME NoKeyGained, Die, UNCHANGED answered PROVE AnswerInv'
  <2>1. Len(tasks') = 0
    BY <1>d, DieType
  <2>2. FoundIsCurrent' /\ MissingIsCurrent' /\ FoundTogether'
    BY <1>d, <2>1, QueueKeeps
  <2> QED
    BY <1>d, <1>k, <2>2
<1>r. ASSUME NoKeyGained, NEW op, NEW throws, Run(op, << >>, throws)
      PROVE  FoundIsCurrent' /\ MissingIsCurrent' /\ FoundTogether'
  <2>1. /\ Len(tasks) \in Nat /\ Len(tasks') = Len(tasks) - 1
        /\ \A i \in 1..Len(tasks') : tasks'[i] = tasks[i + 1]
        /\ draining' \/ Len(tasks') = 0
    BY <1>r, RunLast, EmptySeq DEF RegTypeOK
  <2>2. \A i \in 1..Len(tasks') : i + 1 \in 1..Len(tasks) /\ tasks'[i] = tasks[i + 1]
    BY <2>1
  <2> QED
    BY <1>r, <2>1, <2>2, QueueKeeps
<1>1. ASSUME NEW n \in Name, ApplyChannel(n) PROVE AnswerInv'
  BY <1>1, <1>u, CreateGainsNoKey DEF ApplyChannel, memory
<1>2. ASSUME NEW k \in Key, RegisterChannelByKey(k) PROVE AnswerInv'
  BY <1>2, <1>u, CreateGainsNoKey DEF RegisterChannelByKey, memory
<1>3. ASSUME NEW k \in Key, NEW ip \in Ip, QuickRegisterChannel(ip, k) PROVE AnswerInv'
  BY <1>3, <1>k, UnchangedGainsNoKey, LookupKeeps DEF QuickRegisterChannel, table
<1>4. ASSUME NEW k \in Key, InsertFails(k) PROVE AnswerInv'
  BY <1>4, <1>k, <1>r, UnchangedGainsNoKey DEF InsertFails, table
<1>5. ASSUME NEW c \in Row, NEW to \in {"registered", "connected", "disconnected"},
             RequestStatus(c, to) PROVE AnswerInv'
  <2> DEFINE task == [op |-> "status", row |-> c, to |-> to]
  <2>1. task \in Task /\ task.op # "answer"
    BY DEF Task
  <2>2. tasks' = Append(tasks, task) /\ ~draining /\ UNCHANGED <<draining, answered, table>>
    BY <1>5 DEF RequestStatus, Arrive
  <2> HIDE DEF task
  <2>3. /\ Len(tasks) \in Nat /\ Len(tasks') = Len(tasks) + 1
        /\ \A i \in 1..Len(tasks) : tasks'[i] = tasks[i]
        /\ tasks'[Len(tasks')] = task
    BY <2>1, <2>2, AppendTask, LenProperties DEF RegTypeOK
  <2>4. \A i \in 1..Len(tasks') :
          tasks'[i].op = "answer" => i + 0 \in 1..Len(tasks) /\ tasks'[i] = tasks[i + 0]
    BY <2>1, <2>3
  <2>5. NoKeyGained
    BY <2>2, UnchangedGainsNoKey DEF table
  <2> QED
    BY <1>k, <2>2, <2>4, <2>5, QueueKeeps
<1>6. ASSUME NEW c \in Row, DeleteChannel(c) PROVE AnswerInv'
  BY <1>6, <1>u, DeleteGainsNoKey DEF DeleteChannel, memory
<1>7. CASE AnswerExisting
  <2> DEFINE r == tasks[1].row
             k == tasks[1].key
  <2>1. Run("answer", << >>, FALSE) /\ UNCHANGED table
    BY <1>7 DEF AnswerExisting
  <2>2. NoKeyGained
    BY <2>1, UnchangedGainsNoKey DEF table
  <2>3. /\ Head(tasks) = tasks[1] /\ tasks[1] \in Task /\ tasks[1].op = "answer"
        /\ 1 \in 1..Len(tasks)
    BY <2>1, RunLast DEF RegTypeOK
  <2>4. /\ r \in Row /\ r # NoRow /\ k \in Key
        /\ answered' = [answered EXCEPT ![k] = r]
    BY <1>7, <2>3 DEF Task, AnswerExisting, NoRow
  <2>5. r <= lastChannel /\ (status[r] # "none" => secret[r] = k)
    BY <2>3, <2>4 DEF AnswerInv, FoundIsCurrent, Live
  <2> HIDE DEF r, k
  <2>6. \A x \in Key : answered'[x] = IF x = k THEN r ELSE answered[x]
    BY <2>4 DEF RegTypeOK
  <2>7. AnswersHold'
    BY <2>1, <2>5, <2>6 DEF AnswerInv, AnswersHold, Live, table
  <2> QED
    BY <1>r, <2>1, <2>2, <2>7, NoKeyGainedKeeps DEF AnswerInv, NoKeyGained
<1>8. CASE AnswerCreated
  BY <1>8, CreatedKeeps
<1>9. CASE RunStatus
  <2>1. NoKeyGained
    BY <1>9, StatusGainsNoKey
  <2>2. /\ Len(tasks) \in Nat /\ 1 <= Len(tasks)
        /\ \A i \in 1..(Len(tasks) - 1) : tasks'[i] = tasks[i + 1]
        /\ \/ Len(tasks') = Len(tasks) - 1
           \/ Len(tasks') = Len(tasks) /\ tasks'[Len(tasks)].op = "slot"
        /\ draining' \/ tasks' = << >>
    BY <1>9, RunStatusTask DEF RegTypeOK
  <2>3. \A i \in 1..Len(tasks') :
          tasks'[i].op = "answer" => i + 1 \in 1..Len(tasks) /\ tasks'[i] = tasks[i + 1]
    <3> SUFFICES ASSUME NEW i \in 1..Len(tasks'), tasks'[i].op = "answer"
                 PROVE  i + 1 \in 1..Len(tasks) /\ tasks'[i] = tasks[i + 1]
      OBVIOUS
    <3>1. i # Len(tasks)
      BY <2>2
    <3> QED
      BY <2>2, <3>1
  <2>4. draining' \/ Len(tasks') = 0
    BY <2>2, EmptySeq
  <2>5. UNCHANGED answered
    BY <1>9 DEF RunStatus
  <2> QED
    BY <1>k, <2>1, <2>3, <2>4, <2>5, QueueKeeps
<1>10. CASE RunSlot
  BY <1>10, <1>k, <1>r, UnchangedGainsNoKey DEF RunSlot, table
<1>11. CASE Restart
  <2>1. NoKeyGained
    BY <1>11, UnchangedGainsNoKey, CreateGainsNoKey DEF Restart, table
  <2> QED
    BY <1>11, <1>d, <2>1 DEF Restart
<1>12. CASE Tick
  BY <1>12, <1>u, UnchangedGainsNoKey DEF Tick, table, memory
<1>13. CASE UNCHANGED regVars
  BY <1>13, <1>u, UnchangedGainsNoKey DEF regVars, table, memory
<1>14. ASSUME NEW ip \in Ip, RefuseQuickRegister(ip) PROVE AnswerInv'
  BY <1>14, <1>u, UnchangedGainsNoKey DEF RefuseQuickRegister, table, memory
<1>15. CASE AnswerConflict
  BY <1>15, <1>k, <1>r, UnchangedGainsNoKey DEF AnswerConflict, table
<1>16. CASE RejectionEnds
  BY <1>16, <1>d, UnchangedGainsNoKey DEF RejectionEnds, table
<1> QED
  BY <1>1, <1>2, <1>3, <1>4, <1>5, <1>6, <1>7, <1>8, <1>9, <1>10, <1>11, <1>12, <1>13,
     <1>14, <1>15, <1>16
     DEF RegNext

-----------------------------------------------------------------------------
(* A promise about the slot outlives the queue's first task, if that is not *)
(* the step the promise needs, and new tasks that do not take the slot.     *)
LEMMA SlotShift ==
  ASSUME RegTypeOK, SlotWillBeFreed, NEW c \in Row, status[c] = "disconnected",
         NEW d \in {0, 1},
         active' = c => \E j \in 1..Len(tasks) : j # d /\ IsSlot(j, c, "disconnected"),
         \A i \in 1..Len(tasks') :
           IsSlot(i, c, "connected")' => i + d \in 1..Len(tasks) /\ tasks'[i] = tasks[i + d],
         \A j \in 1..Len(tasks) :
           j # d => j - d \in 1..Len(tasks') /\ tasks'[j - d] = tasks[j]
  PROVE  SlotFreed(c)'
<1> USE DEF IsSlot
<1>1. ASSUME active' = c
      PROVE  \E j \in 1..Len(tasks') : IsSlot(j, c, "disconnected")'
  BY <1>1
<1>2. ASSUME NEW i \in 1..Len(tasks'), IsSlot(i, c, "connected")'
      PROVE  \E j \in 1..Len(tasks') : i < j /\ IsSlot(j, c, "disconnected")'
  <2>1. i + d \in 1..Len(tasks) /\ IsSlot(i + d, c, "connected")
    BY <1>2
  <2>2. PICK j \in 1..Len(tasks) : i + d < j /\ IsSlot(j, c, "disconnected")
    BY <2>1 DEF SlotWillBeFreed, SlotFreed
  <2>3. j # d /\ i < j - d
    BY <2>2
  <2> QED
    BY <2>2, <2>3
<1> QED
  BY <1>1, <1>2 DEF SlotFreed

(* A step keeps the promise that the slot of a disconnected channel will be *)
(* given up.                                                                *)
LEMMA NextSlotInv ==
  RegTypeOK /\ RegTypeOK' /\ SlotWillBeFreed /\ [RegNext]_regVars => SlotWillBeFreed'
<1> SUFFICES ASSUME RegTypeOK, RegTypeOK', SlotWillBeFreed, [RegNext]_regVars,
                    NEW c \in Row, status'[c] = "disconnected"
             PROVE  SlotFreed(c)'
  BY DEF SlotWillBeFreed
<1> USE DEF IsSlot
<1>t. Len(tasks) \in Nat /\ Len(tasks') \in Nat
  BY LenProperties DEF RegTypeOK
<1>b. status[c] = "disconnected" /\ active = c =>
        \E j \in 1..Len(tasks) : IsSlot(j, c, "disconnected")
  BY DEF SlotWillBeFreed, SlotFreed
<1>u. ASSUME status[c] = "disconnected", UNCHANGED <<active, tasks>> PROVE SlotFreed(c)'
  BY <1>u DEF SlotWillBeFreed, SlotFreed
<1>d. ASSUME Die PROVE SlotFreed(c)'
  BY <1>d, DieType DEF SlotFreed, NoRow, Row
<1>a. ASSUME NEW task \in Task, task.op # "slot", Arrive(task), UNCHANGED status
      PROVE  SlotFreed(c)'
  <2>1. /\ Len(tasks') = Len(tasks) + 1
        /\ \A i \in 1..Len(tasks) : tasks'[i] = tasks[i]
        /\ tasks'[Len(tasks')].op # "slot"
        /\ UNCHANGED active
    BY <1>a, AppendTask DEF Arrive, RegTypeOK
  <2>2. \A i \in 1..Len(tasks') : i + 0 \in 1..Len(tasks) \/ i = Len(tasks')
    BY <1>t, <2>1
  <2>3. \A j \in 1..Len(tasks) : j - 0 \in 1..Len(tasks') /\ j # 0 /\ j - 0 = j /\ j + 0 = j
    BY <1>t, <2>1
  <2>4. \A j \in 1..Len(tasks) :
          j # 0 => j - 0 \in 1..Len(tasks') /\ tasks'[j - 0] = tasks[j]
    BY <2>1, <2>3
  <2>5. \A i \in 1..Len(tasks') :
          IsSlot(i, c, "connected")' => i + 0 \in 1..Len(tasks) /\ tasks'[i] = tasks[i + 0]
    BY <2>1, <2>2, <2>3
  <2>6. status[c] = "disconnected"
    BY <1>a
  <2> QED
    BY <1>b, <2>1, <2>3, <2>4, <2>5, <2>6, SlotShift
<1>r. ASSUME NEW op, NEW throws, Run(op, << >>, throws), status[c] = "disconnected",
             active' = c => \E j \in 1..Len(tasks) : j # 1 /\ IsSlot(j, c, "disconnected")
      PROVE  SlotFreed(c)'
  <2>1. /\ Len(tasks') = Len(tasks) - 1
        /\ \A i \in 1..Len(tasks') : tasks'[i] = tasks[i + 1]
    BY <1>r, RunLast DEF RegTypeOK
  <2>2. \A i \in 1..Len(tasks') : i + 1 \in 1..Len(tasks) /\ tasks'[i] = tasks[i + 1]
    BY <1>t, <2>1
  <2>3. \A j \in 1..Len(tasks) :
          j # 1 => j - 1 \in 1..Len(tasks') /\ tasks'[j - 1] = tasks[j]
    BY <1>t, <2>1
  <2> QED
    BY <1>r, <2>2, <2>3, SlotShift
<1>n. ASSUME NEW op, NEW throws, Run(op, << >>, throws), status[c] = "disconnected", UNCHANGED active,
             op # "slot"
      PROVE  SlotFreed(c)'
  <2>1. tasks[1].op # "slot"
    BY <1>n, RunLast DEF RegTypeOK
  <2> QED
    BY <1>b, <1>n, <1>r, <2>1
<1>c. ASSUME NEW n, NEW s \in Key \cup {NoKey}, NEW k, NEW st \in {"pending", "registered"},
             Create(n, s, k, st)
      PROVE  status[c] = "disconnected"
  BY <1>c, RegistryAssumption DEF Create, RegTypeOK, Row
<1>1. ASSUME NEW n \in Name, ApplyChannel(n) PROVE SlotFreed(c)'
  BY <1>1, <1>c, <1>u DEF ApplyChannel, memory
<1>2. ASSUME NEW k \in Key, RegisterChannelByKey(k) PROVE SlotFreed(c)'
  BY <1>2, <1>c, <1>u DEF RegisterChannelByKey, memory
<1>3. ASSUME NEW k \in Key, NEW ip \in Ip, QuickRegisterChannel(ip, k) PROVE SlotFreed(c)'
  <2> DEFINE task == [op |-> "answer", key |-> k, row |-> GetBySecret(k)]
  <2>1. task \in Task /\ task.op # "slot"
    BY DEF Task, GetBySecret
  <2>2. Arrive(task) /\ UNCHANGED status
    BY <1>3 DEF QuickRegisterChannel, table
  <2> HIDE DEF task
  <2> QED
    BY <1>a, <2>1, <2>2
<1>4. ASSUME NEW k \in Key, InsertFails(k) PROVE SlotFreed(c)'
  BY <1>4, <1>n DEF InsertFails, table
<1>5. ASSUME NEW d \in Row, NEW to \in {"registered", "connected", "disconnected"},
             RequestStatus(d, to) PROVE SlotFreed(c)'
  <2> DEFINE task == [op |-> "status", row |-> d, to |-> to]
  <2>1. task \in Task /\ task.op # "slot"
    BY DEF Task
  <2>2. Arrive(task) /\ UNCHANGED status
    BY <1>5 DEF RequestStatus, table
  <2> HIDE DEF task
  <2> QED
    BY <1>a, <2>1, <2>2
<1>6. ASSUME NEW d \in Row, DeleteChannel(d) PROVE SlotFreed(c)'
  <2>1. status[c] = "disconnected"
    BY <1>6 DEF DeleteChannel, RegTypeOK
  <2> QED
    BY <1>6, <1>u, <2>1 DEF DeleteChannel, memory
<1>7. CASE AnswerExisting
  BY <1>7, <1>n DEF AnswerExisting, table
<1>8. CASE AnswerCreated
  <2>1. Run("answer", << >>, FALSE) /\ UNCHANGED active
    BY <1>8 DEF AnswerCreated
  <2>2. Head(tasks) \in Task /\ Head(tasks).op = "answer"
    BY <2>1, RunLast DEF RegTypeOK
  <2>4. Head(tasks).key \in Key
    BY <2>2 DEF Task
  <2>3. status[c] = "disconnected"
    BY <1>8, <1>c, <2>4 DEF AnswerCreated
  <2> QED
    BY <1>n, <2>1, <2>3
<1>9. CASE RunStatus
  <2> DEFINE task == tasks[1]
  <2>1. /\ Head(tasks) = task /\ task.op = "status" /\ task.row \in Row
        /\ task.to \in {"registered", "connected", "disconnected"}
        /\ 1 <= Len(tasks)
        /\ \A i \in 1..(Len(tasks) - 1) : tasks'[i] = tasks[i + 1]
        /\ Len(tasks') = IF task.to = "registered" THEN Len(tasks) - 1 ELSE Len(tasks)
        /\ task.to # "registered" =>
             tasks'[Len(tasks)] = [op |-> "slot", row |-> task.row, to |-> task.to]
    BY <1>9, RunStatusTask DEF RegTypeOK
  <2>2. /\ status' = [status EXCEPT ![task.row] = IF Live(task.row) THEN task.to ELSE @]
        /\ UNCHANGED active
    BY <1>9, <2>1 DEF RunStatus, UpdateStatus
  <2> HIDE DEF task
  <2>3. CASE task.row = c
    <3>1. task.to = "disconnected"
      BY <2>1, <2>2, <2>3 DEF RegTypeOK, Live
    <3>2. PICK n \in 1..Len(tasks') :
            /\ n = Len(tasks')
            /\ tasks'[n] = [op |-> "slot", row |-> c, to |-> "disconnected"]
      BY <1>t, <2>1, <2>3, <3>1
    <3>3. IsSlot(n, c, "disconnected")'
      BY <3>2
    <3>4. \A i \in 1..Len(tasks') : IsSlot(i, c, "connected")' => i < n
      BY <1>t, <3>2
    <3> QED
      BY <3>3, <3>4 DEF SlotFreed
  <2>4. CASE task.row # c
    <3>1. status[c] = "disconnected"
      BY <2>2, <2>4 DEF RegTypeOK
    <3>2. \A i \in 1..Len(tasks') :
            IsSlot(i, c, "connected")' =>
              i + 1 \in 1..Len(tasks) /\ tasks'[i] = tasks[i + 1]
      <4> SUFFICES ASSUME NEW i \in 1..Len(tasks'), IsSlot(i, c, "connected")'
                   PROVE  i + 1 \in 1..Len(tasks) /\ tasks'[i] = tasks[i + 1]
        OBVIOUS
      <4>1. i \in 1..(Len(tasks) - 1)
        BY <1>t, <2>1, <2>4
      <4> QED
        BY <1>t, <2>1, <4>1
    <3>3. \A j \in 1..Len(tasks) :
            j # 1 => j - 1 \in 1..Len(tasks') /\ tasks'[j - 1] = tasks[j]
      <4> SUFFICES ASSUME NEW j \in 1..Len(tasks), j # 1
                   PROVE  j - 1 \in 1..Len(tasks') /\ tasks'[j - 1] = tasks[j]
        OBVIOUS
      <4>1. j - 1 \in 1..(Len(tasks) - 1) /\ (j - 1) + 1 = j /\ j - 1 \in 1..Len(tasks')
        BY <1>t, <2>1
      <4> QED
        BY <2>1, <4>1
    <3>4. active' = c => \E j \in 1..Len(tasks) : j # 1 /\ IsSlot(j, c, "disconnected")
      BY <1>b, <2>1, <2>2, <3>1 DEF task
    <3> QED
      BY <3>1, <3>2, <3>3, <3>4, SlotShift
  <2> QED
    BY <2>3, <2>4
<1>10. CASE RunSlot
  <2> DEFINE task == tasks[1]
  <2>1. Run("slot", << >>, FALSE) /\ UNCHANGED status
    BY <1>10 DEF RunSlot, table
  <2>2. /\ Head(tasks) = task /\ task \in Task /\ task.op = "slot"
        /\ 1 \in 1..Len(tasks)
    BY <2>1, RunLast DEF RegTypeOK
  <2>3. task.row \in Row /\ task.to \in {"connected", "disconnected"}
    BY <2>2 DEF Task
  <2>4. /\ status[c] = "disconnected"
        /\ task.to = "connected" => active' = task.row
        /\ task.to = "disconnected" =>
             active' = IF active = task.row THEN NoRow ELSE active
    BY <1>10, <2>1, <2>2, <2>3 DEF RunSlot
  <2>5. ASSUME active' = c
        PROVE  \E j \in 1..Len(tasks) : j # 1 /\ IsSlot(j, c, "disconnected")
    <3>1. CASE task.to = "connected"
      <4>1. IsSlot(1, c, "connected")
        BY <2>2, <2>4, <2>5, <3>1
      <4> QED
        BY <2>2, <2>4, <4>1 DEF SlotWillBeFreed, SlotFreed
    <3>2. CASE task.to = "disconnected"
      <4>1. active = c /\ task.row # c
        BY <2>4, <2>5, <3>2 DEF NoRow, Row
      <4> QED
        BY <1>b, <2>4, <4>1
    <3> QED
      BY <2>3, <3>1, <3>2
  <2> QED
    BY <1>r, <2>1, <2>4, <2>5
<1>11. CASE Restart
  BY <1>11, <1>d DEF Restart
<1>12. CASE Tick
  BY <1>12, <1>u DEF Tick, table, memory
<1>13. CASE UNCHANGED regVars
  BY <1>13, <1>u DEF regVars, table, memory
<1>14. ASSUME NEW ip \in Ip, RefuseQuickRegister(ip) PROVE SlotFreed(c)'
  BY <1>14, <1>u DEF RefuseQuickRegister, table, memory
<1>15. CASE AnswerConflict
  BY <1>15, <1>n DEF AnswerConflict, table
<1>16. CASE RejectionEnds
  BY <1>16, <1>d DEF RejectionEnds
<1> QED
  BY <1>1, <1>2, <1>3, <1>4, <1>5, <1>6, <1>7, <1>8, <1>9, <1>10, <1>11, <1>12, <1>13,
     <1>14, <1>15, <1>16
     DEF RegNext

-----------------------------------------------------------------------------
(* What a client got through in the window that ends at t. *)
Through(ip, t) ==
  {r \in Pass : passed[r].ip = ip /\ passed[r].at \in (t - RateWindow + 1)..t}

LEMMA FinitePass ==
  ASSUME RegTypeOK, NEW S \in SUBSET Pass
  PROVE  IsFiniteSet(S) /\ Cardinality(S) \in Nat
<1>1. IsFiniteSet(Pass)
  BY FS_Interval, LenProperties DEF Pass, RegTypeOK
<1> QED
  BY <1>1, FS_Subset, FS_CardinalityType

LEMMA PassType ==
  ASSUME RegTypeOK, NEW r \in Pass
  PROVE  passed[r].ip \in Ip /\ passed[r].at \in 1..MaxClock
<1>1. passed[r] \in [ip : Ip, at : 1..MaxClock]
  BY ElementOfSeq DEF Pass, RegTypeOK
<1> QED
  BY <1>1

(* The window that ends now holds no more than the limit, also when a       *)
(* request has just been let through.                                       *)
LEMMA ThroughNow ==
  ASSUME RegTypeOK, RegTypeOK', RateInv, NEW ip \in Ip, LetThrough(ip)
  PROVE  RateInv'
<1> DEFINE n == Len(passed')
<1>1. /\ Len(passed) \in Nat /\ n = Len(passed) + 1
      /\ \A r \in Pass : passed'[r] = passed[r]
      /\ passed'[n] = [ip |-> ip, at |-> clock]
  BY PassAppended DEF RegTypeOK
<1>2. /\ UNCHANGED clock /\ clock \in 1..MaxClock /\ clock \in Nat
      /\ Cardinality(InWindow(ip)) < RateMax
      /\ rateMap' = [rateMap EXCEPT ![ip] = InWindow(ip) \cup {n}]
      /\ RateWindow \in Nat \ {0} /\ RateMax \in Nat
  BY RegistryAssumption DEF LetThrough, RegTypeOK
<1> HIDE DEF n
<1>3. /\ \A r \in Pass' : r \in Pass \/ r = n
      /\ Pass \subseteq Pass' /\ n \in Pass' /\ n \notin Pass
  BY <1>1 DEF Pass, n
<1>4. \A r \in Pass : passed[r].ip \in Ip /\ passed[r].at \in 1..MaxClock
  BY PassType
<1>5. WindowKept'
  <2> SUFFICES ASSUME NEW r \in Pass'
               PROVE  /\ passed'[r].at <= clock
                      /\ clock - passed'[r].at < RateWindow => r \in rateMap'[passed'[r].ip]
    BY <1>2 DEF WindowKept
  <2>1. CASE r = n
    BY <1>1, <1>2, <2>1 DEF RegTypeOK
  <2>2. CASE r \in Pass /\ passed[r].ip = ip
    BY <1>1, <1>2, <2>2 DEF RateInv, WindowKept, InWindow, RegTypeOK
  <2>3. CASE r \in Pass /\ passed[r].ip # ip
    BY <1>1, <1>2, <1>4, <2>3 DEF RateInv, WindowKept, RegTypeOK
  <2> QED
    BY <1>3, <2>1, <2>2, <2>3
<1>6. ASSUME NEW p \in Ip, NEW t \in 1..clock
      PROVE  Cardinality(Through(p, t)') <= RateMax
  <2>1. Cardinality(Through(p, t)) <= RateMax
    BY <1>6 DEF RateInv, RateLimited, Through
  <2>2. CASE p # ip \/ t # clock
    <3>1. Through(p, t)' = Through(p, t)
      <4>1. n \notin Through(p, t)'
        BY <1>1, <1>2, <2>2 DEF Through
      <4>2. \A r \in Pass : r \in Through(p, t)' <=> r \in Through(p, t)
        BY <1>1, <1>3 DEF Through
      <4>3. Through(p, t) \subseteq Pass /\ Through(p, t)' \subseteq Pass'
        BY DEF Through
      <4> QED
        BY <1>3, <4>1, <4>2, <4>3
    <3> QED
      BY <2>1, <3>1
  <2>3. CASE p = ip /\ t = clock
    <3>1. Through(ip, clock) \subseteq InWindow(ip)
      <4> SUFFICES ASSUME NEW r \in Through(ip, clock) PROVE r \in InWindow(ip)
        OBVIOUS
      <4>1. /\ r \in Pass /\ passed[r].ip = ip
            /\ passed[r].at \in (clock - RateWindow + 1)..clock
        BY DEF Through
      <4>2. clock - passed[r].at < RateWindow
        BY <1>2, <1>4, <4>1
      <4> QED
        BY <4>1, <4>2 DEF InWindow, RateInv, WindowKept
    <3>2. InWindow(ip) \in SUBSET Pass
      BY DEF InWindow, RegTypeOK
    <3>3. IsFiniteSet(InWindow(ip)) /\ Cardinality(InWindow(ip)) \in Nat
      BY <3>2, FinitePass
    <3>4. IsFiniteSet(InWindow(ip) \cup {n})
          /\ Cardinality(InWindow(ip) \cup {n}) <= Cardinality(InWindow(ip)) + 1
      BY <3>3, FS_AddElement
    <3>5. Through(ip, clock)' \subseteq InWindow(ip) \cup {n}
      <4> SUFFICES ASSUME NEW r \in Through(ip, clock)', r # n PROVE r \in Through(ip, clock)
        BY <3>1
      <4>1. r \in Pass /\ passed'[r] = passed[r]
        BY <1>1, <1>3 DEF Through
      <4> QED
        BY <1>2, <4>1 DEF Through
    <3>6. Cardinality(Through(ip, clock)') <= Cardinality(InWindow(ip) \cup {n})
          /\ Cardinality(Through(ip, clock)') \in Nat
          /\ Cardinality(InWindow(ip) \cup {n}) \in Nat
      BY <3>4, <3>5, FS_Subset, FS_CardinalityType
    <3>7. Cardinality(Through(ip, clock)') <= RateMax
      BY <1>2, <3>3, <3>4, <3>6
    <3>8. Through(p, t)' = Through(ip, clock)'
      BY <1>2, <2>3 DEF Through
    <3> QED
      BY <3>7, <3>8
  <2> QED
    BY <2>2, <2>3
<1>7. RateLimited'
  BY <1>2, <1>6 DEF RateLimited, Through
<1> QED
  BY <1>5, <1>7 DEF RateInv

(* A step keeps what the limiter remembers and promises. *)
LEMMA NextRateInv ==
  RegTypeOK /\ RegTypeOK' /\ RateInv /\ [RegNext]_regVars => RateInv'
<1> SUFFICES ASSUME RegTypeOK, RegTypeOK', RateInv, [RegNext]_regVars PROVE RateInv'
  OBVIOUS
<1>u. ASSUME UNCHANGED limiter PROVE RateInv'
  BY <1>u DEF limiter, RateInv, WindowKept, RateLimited, Pass
<1>d. ASSUME Die PROVE RateInv'
  <2>1. Pass' = {}
    BY <1>d, DieType
  <2>2. Cardinality({}) = 0 /\ RateMax \in Nat
    BY FS_EmptySet, RegistryAssumption
  <2> QED
    BY <2>1, <2>2 DEF RateInv, WindowKept, RateLimited
<1>1. ASSUME NEW k \in Key, NEW ip \in Ip, QuickRegisterChannel(ip, k) PROVE RateInv'
  BY <1>1, ThroughNow DEF QuickRegisterChannel
<1>2. CASE Tick
  <2>1. /\ clock' = clock + 1 /\ UNCHANGED <<rateMap, passed>> /\ Pass' = Pass
        /\ clock \in Nat /\ RateWindow \in Nat \ {0} /\ RateMax \in Nat
    BY <1>2, RegistryAssumption DEF Tick, Pass, RegTypeOK
  <2>2. \A r \in Pass : passed[r].at \in 1..MaxClock /\ passed[r].at <= clock
    BY PassType DEF RateInv, WindowKept
  <2>3. WindowKept'
    BY <2>1, <2>2 DEF RateInv, WindowKept
  <2>4. ASSUME NEW ip \in Ip, NEW t \in 1..clock'
        PROVE  Cardinality(Through(ip, t)') <= RateMax
    <3>1. Through(ip, t)' = Through(ip, t)
      BY <2>1 DEF Through
    <3>2. CASE t \in 1..clock
      BY <3>1, <3>2 DEF RateInv, RateLimited, Through
    <3>3. CASE t = clock + 1
      <4>1. Through(ip, t) \subseteq Through(ip, clock)
        BY <2>1, <2>2, <3>3 DEF Through
      <4>2. Through(ip, clock) \in SUBSET Pass
        BY DEF Through
      <4>3. IsFiniteSet(Through(ip, clock)) /\ Cardinality(Through(ip, clock)) \in Nat
        BY <4>2, FinitePass
      <4>4. /\ Cardinality(Through(ip, t)) <= Cardinality(Through(ip, clock))
            /\ Cardinality(Through(ip, t)) \in Nat
        BY <4>1, <4>3, FS_Subset, FS_CardinalityType
      <4>5. clock \in 1..clock
        BY DEF RegTypeOK
      <4>6. Cardinality(Through(ip, clock)) <= RateMax
        BY <4>5 DEF RateInv, RateLimited, Through
      <4> QED
        BY <2>1, <3>1, <4>3, <4>4, <4>6
    <3> QED
      BY <2>1, <3>2, <3>3
  <2>5. RateLimited'
    BY <2>4 DEF RateLimited, Through
  <2> QED
    BY <2>3, <2>5 DEF RateInv
<1>3. CASE RejectionEnds
  BY <1>3, <1>d DEF RejectionEnds
<1>4. CASE Restart
  BY <1>4, <1>d DEF Restart
<1>6. ASSUME NEW ip \in Ip, RefuseQuickRegister(ip) PROVE RateInv'
  BY <1>6, ThroughNow DEF RefuseQuickRegister
<1>5. \/ UNCHANGED limiter \/ Tick \/ Restart \/ RejectionEnds
      \/ \E ip \in Ip : RefuseQuickRegister(ip)
      \/ \E k \in Key, ip \in Ip : QuickRegisterChannel(ip, k)
  BY DEF RegNext, ApplyChannel, RegisterChannelByKey, RequestStatus, DeleteChannel,
         AnswerExisting, AnswerConflict, AnswerCreated, RunStatus, RunSlot, InsertFails, regVars
<1> QED
  BY <1>u, <1>1, <1>2, <1>3, <1>4, <1>5, <1>6

-----------------------------------------------------------------------------
(* Every variable keeps its type: channels, tasks and the limiter hold what *)
(* the code can put there.                                                  *)
THEOREM RegTypeCorrect == RegSpec => []RegTypeOK
  BY InitCorrect, NextTypeOK, PTL DEF RegSpec

(* Quick registration gives a key the same channel as before for as long as *)
(* that lives, for any number of racing requests, deletions and restarts.   *)
THEOREM SameAnswerHolds == RegSpec => SameAnswer
<1>1. RegTypeOK /\ AnswerInv /\ [RegNext]_regVars =>
        [\A k \in Key :
           answered[k] # NoRow /\ answered'[k] # answered[k] =>
             ~Live(answered[k])]_regVars
  <2> SUFFICES ASSUME RegTypeOK, AnswerInv, [RegNext]_regVars,
                      NEW k \in Key, answered[k] # NoRow, answered'[k] # answered[k],
                      Live(answered[k])
               PROVE  FALSE
    OBVIOUS
  <2>1. answered[k] \in Row /\ secret[answered[k]] = k
    BY DEF AnswerInv, AnswersHold, RegTypeOK
  <2>2. CASE AnswerExisting
    <3> DEFINE task == tasks[1]
    <3>0. Run("answer", << >>, FALSE)
      BY <2>2 DEF AnswerExisting
    <3>1. /\ Head(tasks) = task /\ task \in Task /\ task.op = "answer"
          /\ 1 \in 1..Len(tasks)
      BY <3>0, RunLast DEF RegTypeOK
    <3>2. task.row # NoRow /\ answered' = [answered EXCEPT ![task.key] = task.row]
      BY <2>2, <3>1 DEF AnswerExisting
    <3>3. task.key = k /\ task.row = answered'[k]
      BY <3>2 DEF RegTypeOK
    <3> QED
      BY <2>1, <3>1, <3>2, <3>3 DEF AnswerInv, FoundIsCurrent
  <2>3. CASE AnswerCreated
    <3> DEFINE x == Head(tasks).key
    <3>1. answered' = [answered EXCEPT ![x] = lastChannel']
      BY <2>3 DEF AnswerCreated
    <3>2. x = k
      BY <3>1 DEF RegTypeOK
    <3>3. Unique(QuickName[k], k)
      BY <2>3, <3>2 DEF AnswerCreated
    <3> QED
      BY <2>1, <3>3, RegistryAssumption DEF Unique
  <2>4. AnswerExisting \/ AnswerCreated \/ UNCHANGED answered
    BY DEF RegNext, ApplyChannel, RegisterChannelByKey, QuickRegisterChannel, InsertFails,
           RefuseQuickRegister, AnswerConflict, RequestStatus, DeleteChannel, RunStatus, RunSlot,
           RejectionEnds, Restart, Tick, regVars
  <2> QED
    BY <2>2, <2>3, <2>4
<1>2. RegSpec => [](RegTypeOK /\ AnswerInv)
  BY InitCorrect, NextTypeOK, NextAnswerInv, PTL DEF RegSpec
<1> QED
  BY <1>1, <1>2, PTL DEF RegSpec, SameAnswer

(* Between reads the connected channel is not one whose plugin has          *)
(* disconnected, whatever was pipelined.                                    *)
THEOREM ActiveNotDisconnectedHolds == RegSpec => []ActiveNotDisconnected
<1>1. RegTypeOK /\ SlotWillBeFreed => ActiveNotDisconnected
  <2> SUFFICES ASSUME RegTypeOK, SlotWillBeFreed,
                      tasks = << >>, active # NoRow, status[active] = "disconnected"
               PROVE  FALSE
    BY DEF ActiveNotDisconnected
  <2>1. active \in Row /\ Len(tasks) = 0
    BY EmptySeq DEF RegTypeOK
  <2> QED
    BY <2>1 DEF SlotWillBeFreed, SlotFreed
<1> QED
  BY <1>1, InitCorrect, NextTypeOK, NextSlotInv, PTL DEF RegSpec

(* No window of a running process lets a client do more than RateMax quick  *)
(* registrations.                                                           *)
THEOREM RateLimitHolds == RegSpec => []RateLimited
<1>1. RateInv => RateLimited
  BY DEF RateInv
<1> QED
  BY <1>1, InitCorrect, NextTypeOK, NextRateInv, PTL DEF RegSpec
=============================================================================
