----------------------------- MODULE StreamRelay -----------------------------
(***************************************************************************)
(* Streamed replies: handleStreamChunk and handleStreamDone of             *)
(* http/server.ts.  The plugin sends a reply in numbered pieces, which are *)
(* kept in memory and relayed to the tabs at once; `done' joins what is    *)
(* kept, stores it as one message and relays the whole.                    *)
(*                                                                         *)
(* The plugin is external: its requests come in any order, repeated, late  *)
(* or never.  Each handler awaits one lookup, and the lookups resolve in   *)
(* the order of the requests, so the rest of a handler is one step.  A     *)
(* piece is its place in the log of what was relayed.  The ids of replies  *)
(* are the plugin's uuids: the channel is left out, as are the refused     *)
(* requests and totalSeq, which is only passed on.                         *)
(*                                                                         *)
(* A message is in the database in memory first; the save that follows its *)
(* INSERT, or one after any later statement, takes it to the file, which   *)
(* is what a restart finds.  A file that was cut is Persistence's matter.  *)
(***************************************************************************)
EXTENDS Naturals, Sequences, FiniteSets, Functions

CONSTANTS
  MessageId,  \* ids of streamed replies
  MaxSeqNo,   \* bound: the plugin's numbers of pieces
  MaxLog      \* bound: requests and restarts

ASSUME StreamAssumption == MaxSeqNo \in Nat /\ MaxLog \in Nat

VARIABLES
  streamChunkBuffer,  \* pieces kept, by id and number
  rows,               \* streamed replies in the messages table, each with the
                      \* place of its `done' in the log
  saved,              \* up to this `done' they are known to be in the file
  log                 \* history: requests handled and restarts, in order

streamVars == <<streamChunkBuffer, rows, saved, log>>

SeqNo   == 0..MaxSeqNo
Time    == 1..Len(log)
NoChunk == 0

(* What becomes of a `done''s INSERT: it is saved, only its save fails, or  *)
(* it fails itself.                                                         *)
Result == {"stored", "unsaved", "failed"}

StreamInit ==
  /\ streamChunkBuffer = [m \in MessageId |-> [q \in SeqNo |-> NoChunk]]
  /\ rows = {} /\ saved = 0
  /\ log = << >>

Record(event) == Len(log) < MaxLog /\ log' = Append(log, event)

(* A piece is kept, in the place of an earlier one of its number.           *)
HandleStreamChunk(m, q) ==
  /\ Record([op |-> "chunk", msg |-> m, seq |-> q])
  /\ streamChunkBuffer' = [streamChunkBuffer EXCEPT ![m][q] = Len(log')]
  /\ UNCHANGED <<rows, saved>>

Kept(m) == {q \in SeqNo : streamChunkBuffer[m][q] # NoChunk}

(* Mutant: in the order in which they came. *)
MutantFullContent(m) ==
  LET came == {streamChunkBuffer[m][q] : q \in Kept(m)}
  IN [i \in 1..Cardinality(came) |->
        CHOOSE k \in came : Cardinality({j \in came : j < k}) = i - 1]

(* The pieces in the order of their numbers. *)
FullContent(m) ==
  [i \in 1..Cardinality(Kept(m)) |->
     streamChunkBuffer[m][CHOOSE q \in Kept(m) : Cardinality({p \in Kept(m) : p < q}) = i - 1]]

(* The row is inserted and saved, or not; the handler goes on all the same. *)
Insert(m, result) ==
  /\ rows' = IF result = "failed" THEN rows
             ELSE rows \cup {[at |-> Len(log'), msg |-> m, content |-> FullContent(m)]}
  /\ saved' = IF result = "stored" THEN Len(log') ELSE saved

(* Mutant: the buffer is only given up when the message could be stored.    *)
MutantHandleStreamDone(m, result) ==
  /\ Record([op |-> "done", msg |-> m, content |-> FullContent(m), result |-> result])
  /\ Insert(m, result)
  /\ streamChunkBuffer' =
       IF result = "stored" THEN [streamChunkBuffer EXCEPT ![m] = [q \in SeqNo |-> NoChunk]]
       ELSE streamChunkBuffer

(* The buffer is given up first; a failing create is logged and ignored.    *)
HandleStreamDone(m, result) ==
  /\ Record([op |-> "done", msg |-> m, content |-> FullContent(m), result |-> result])
  /\ Insert(m, result)
  /\ streamChunkBuffer' = [streamChunkBuffer EXCEPT ![m] = [q \in SeqNo |-> NoChunk]]

(* What another handler saved since the last stored `done' is left open.    *)
RestartStream ==
  /\ Record([op |-> "restart"])
  /\ streamChunkBuffer' = [m \in MessageId |-> [q \in SeqNo |-> NoChunk]]
  /\ \E t \in saved..Len(log) : rows' = {r \in rows : r.at <= t}
  /\ saved' = Len(log')

StreamNext ==
  \/ \E m \in MessageId :
       \/ \E q \in SeqNo : HandleStreamChunk(m, q)
       \/ \E result \in Result : HandleStreamDone(m, result)
  \/ RestartStream

StreamSpec == StreamInit /\ [][StreamNext]_streamVars

-----------------------------------------------------------------------------
StreamTypeOK ==
  /\ streamChunkBuffer \in [MessageId -> [SeqNo -> Time \cup {NoChunk}]]
  /\ \A r \in rows :
       r.at \in Time /\ r.msg \in MessageId /\ Range(r.content) \subseteq Time
  /\ saved \in 0..Len(log)
  /\ Len(log) <= MaxLog

IsPiece(m, i) == log[i].op = "chunk" /\ log[i].msg = m

(* What ends the life of piece i in the buffer: another one of its number,  *)
(* the reply's `done', a restart.                                           *)
Ends(k, i) ==
  /\ k > i
  /\ \/ IsPiece(log[i].msg, k) /\ log[k].seq = log[i].seq
     \/ log[k].op = "done" /\ log[k].msg = log[i].msg
     \/ log[k].op = "restart"

(* The text a `done' brings is the one a tab has put together from the      *)
(* pieces it was shown since the reply's last `done', in their order and    *)
(* with repeated ones replaced, however the plugin's requests came.         *)
DoneIsWhatWasShown ==
  \A j \in Time :
    log[j].op = "done" =>
      /\ Range(log[j].content) =
           {i \in 1..(j - 1) :
              IsPiece(log[j].msg, i) /\ \A k \in 1..(j - 1) : ~Ends(k, i)}
      /\ \A a, b \in 1..Len(log[j].content) :
           a < b => log[log[j].content[a]].seq < log[log[j].content[b]].seq

(* A message whose own save failed is gone if the process ended before a   *)
(* later statement was saved; of those only `done's are in the log.         *)
MayBeLost(k) ==
  /\ log[k].result = "unsaved"
  /\ \E j \in Time :
       /\ k < j /\ log[j].op = "restart"
       /\ \A i \in Time : k < i /\ i < j /\ log[i].op = "done" => log[i].result # "stored"

(* Of every piece the hub accepted there is one of three to say: it is      *)
(* kept, also when it came after its reply's `done'; or what came first of  *)
(* what ends its life was a `done' whose INSERT succeeded, and it is in     *)
(* that one message, unless that may be lost; or it was replaced or lost,   *)
(* and is in no message at all.                                             *)
EveryPieceHasOneFate ==
  \A i \in Time :
    log[i].op = "chunk" =>
      LET kept == streamChunkBuffer[log[i].msg][log[i].seq] = i
          in   == {r \in rows : i \in Range(r.content)}
          ends == {k \in Time : Ends(k, i)}
          done == {k \in ends : /\ \A j \in ends : k <= j
                                /\ log[k].op = "done" /\ log[k].result # "failed"}
      IN /\ kept <=> ends = {}
         /\ Cardinality(in) <= Cardinality(done)
         /\ in = {} => \A k \in done : MayBeLost(k)
         /\ \A r \in in : r.at \in done /\ r.msg = log[i].msg
=============================================================================
