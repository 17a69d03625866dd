----------------------------- MODULE Persistence -----------------------------
(***************************************************************************)
(* The database file under every store: db/schema.ts keeps the SQLite      *)
(* database in memory (sql.js) and rewrites the whole file in place after  *)
(* every statement.  A process killed during the rewrite leaves a prefix.  *)
(*                                                                         *)
(* A request is some statements, each with its own rewrite (sending a      *)
(* message is an INSERT and the UPDATE of the channel's counters); nothing *)
(* groups them in a transaction.  Rows written by older versions are       *)
(* migrated by every start.                                                *)
(*                                                                         *)
(* A failing rewrite throws into the handler, after the statement has run. *)
(* What comes of it is the handler's matter: most answer 500 from a catch, *)
(* handleStreamDone logs it and answers ok, and those without a try (the   *)
(* reactions, receipts, edits, connects, quick registrations, and the      *)
(* plugin sockets' events and timers) end the process: at once, or, when   *)
(* it is a promise that was rejected, after the microtasks that were due.  *)
(*                                                                         *)
(* initDatabase runs twice at start-up, from the import of schema.ts and   *)
(* from main(): both calls find no handle, and both open the file, migrate *)
(* it and write it back, one after the other, before a request comes in.   *)
(***************************************************************************)
EXTENDS Naturals

CONSTANTS
  Request,    \* requests that write to the database
  NoRequest,  \* the save at the end of initDatabase
  Steps,      \* statements of each request
  OnFailure,  \* what its handler makes of a failing save: it answers "error"
              \* or "ok", or it has no try, and the process is to "end"
  Legacy,     \* messages an older version left in the file
  MaxCrash,   \* bound: times the process is killed
  MaxFault    \* bound: rewrites that fail (no space, no file handle)

ASSUME PersistenceAssumption ==
  /\ NoRequest \notin Request
  /\ Steps \in [Request -> Nat \ {0}]
  /\ OnFailure \in [Request -> {"error", "ok", "end"}]
  /\ \A r \in Request : OnFailure[r] = "ok" => Steps[r] = 1
  /\ MaxCrash \in Nat /\ MaxFault \in Nat

VARIABLES
  proc,       \* "down", "booting", "up" or, past an unhandled error, "ending"
  inits,      \* calls of initDatabase still to run
  initFailed, \* one of them was rejected
  saving,     \* "opening" or "writing" inside writeFileSync, else "none"
  saver,      \* the request whose statement is being saved
  done,       \* statements each request has run
  outcome,    \* what its client was told; "cut" when the process ended first
  mem,        \* statements the database in memory reflects
  memRows,    \* the legacy rows in memory
  file,       \* "absent", "empty" (truncated), "torn" (a prefix) or "whole"
  fileStmts,  \* statements a whole file reflects
  fileRows,   \* the legacy rows of a whole file
  crashes,    \* processes killed so far
  faults,     \* rewrites failed so far
  cut,        \* history: a start was left a file that is not whole
  dropped,    \* history: answered requests a start found no trace of
  unsaved     \* history: statements whose save failed and that no later one took

boot  == <<proc, inits, initFailed>>
reqs  == <<done, outcome>>
disk  == <<file, fileStmts, fileRows>>
hist  == <<crashes, faults, cut, dropped, unsaved>>
vars  == <<boot, saving, saver, reqs, mem, memRows, disk, hist>>

Stmts(r) == {r} \X (1..Steps[r])
Stmt     == {s \in Request \X Nat : s[2] \in 1..Steps[s[1]]}
Serving  == proc \in {"up", "ending"}

(* A legacy row: how it keeps its sender and the message it replies to. A  *)
(* plain-text id that happens to be JSON (a number) is "literal".          *)
SenderForm == {"none", "columns", "json"}
ReplyForm  == {"none", "text", "literal", "object", "nested"}
Row        == [sender : SenderForm, replyTo : ReplyForm]
NoRow      == [sender |-> "none", replyTo |-> "none"]
NoRows     == [m \in Legacy |-> NoRow]
OldRow     == [sender : SenderForm, replyTo : ReplyForm \ {"nested"}]

-----------------------------------------------------------------------------
Init ==
  /\ proc = "down" /\ inits = 0 /\ initFailed = FALSE
  /\ saving = "none" /\ saver = NoRequest
  /\ done = [r \in Request |-> 0]
  /\ outcome = [r \in Request |-> "open"]
  /\ mem = {} /\ memRows = NoRows
  /\ file \in {"absent", "whole"}
  /\ fileStmts = {}
  /\ fileRows \in IF file = "whole" THEN [Legacy -> OldRow] ELSE {NoRows}
  /\ crashes = 0 /\ faults = 0 /\ cut = FALSE /\ dropped = {} /\ unsaved = {}

(* Mutant: whatever reply_to holds is wrapped, not only what is no JSON.   *)
MutantMigrateRow(row) ==
  [sender  |-> IF row.sender = "columns" THEN "json" ELSE row.sender,
   replyTo |-> CASE row.replyTo = "none" -> "none"
                 [] row.replyTo = "text" -> "object"
                 [] OTHER                -> "nested"]

(* The UPDATEs that turn sender_id/sender_name and a plain reply_to to JSON *)
MigrateRow(row) ==
  [sender  |-> IF row.sender = "columns" THEN "json" ELSE row.sender,
   replyTo |-> IF row.replyTo = "text" THEN "object" ELSE row.replyTo]

(* Docker starts the container (restart: unless-stopped). *)
Start ==
  /\ proc = "down"
  /\ proc' = "booting" /\ inits' = 2 /\ initFailed' = FALSE
  /\ UNCHANGED <<saving, saver, reqs, mem, memRows, disk, hist>>

(* Mutant: the file of the previous process is not read. *)
MutantLoad ==
  /\ proc = "booting" /\ inits > 0 /\ saving = "none"
  /\ mem' = {}
  /\ memRows' = NoRows
  /\ dropped' = dropped \cup {r \in Request : outcome[r] = "ok" /\ ~ Stmts(r) \subseteq mem'}
  /\ saving' = "opening" /\ saver' = NoRequest
  /\ UNCHANGED <<boot, reqs, disk, crashes, faults, cut, unsaved>>

(* Mutant: an empty file is taken for a broken one. *)
MutantUnreadable == file \in {"empty", "torn"}

(* A truncated database is malformed; a file of no bytes is an empty one.  *)
Unreadable == file = "torn"

(* initDatabase up to its writeFileSync: open the file, migrate the rows.  *)
Load ==
  /\ proc = "booting" /\ inits > 0 /\ saving = "none"
  /\ ~ Unreadable
  /\ mem' = IF file = "whole" THEN fileStmts ELSE {}
  /\ memRows' = IF file = "whole" THEN [m \in Legacy |-> MigrateRow(fileRows[m])] ELSE NoRows
  /\ dropped' = dropped \cup {r \in Request : outcome[r] = "ok" /\ ~ Stmts(r) \subseteq mem'}
  /\ saving' = "opening" /\ saver' = NoRequest
  /\ UNCHANGED <<boot, reqs, disk, crashes, faults, cut, unsaved>>

(* The first CREATE TABLE throws, and the call is rejected. *)
LoadFails ==
  /\ proc = "booting" /\ inits > 0 /\ saving = "none"
  /\ Unreadable
  /\ inits' = inits - 1 /\ initFailed' = TRUE
  /\ UNCHANGED <<proc, saving, saver, reqs, mem, memRows, disk, hist>>

(* A process that ends while the file is not whole leaves it so. *)
Ends(f) ==
  /\ proc' = "down" /\ inits' = 0 /\ initFailed' = FALSE
  /\ saving' = "none" /\ saver' = NoRequest
  /\ mem' = {} /\ memRows' = NoRows
  /\ cut' = (cut \/ f \in {"empty", "torn"})
  /\ outcome' = [r \in Request |->
                   IF outcome[r] = "open" /\ done[r] > 0 THEN "cut" ELSE outcome[r]]

(* main() goes on to listen, or a rejection ends the process. *)
BootEnds ==
  /\ proc = "booting" /\ inits = 0
  /\ IF initFailed
     THEN Ends(file)
     ELSE proc' = "up" /\ UNCHANGED <<inits, initFailed, saving, saver, mem, memRows, cut, outcome>>
  /\ UNCHANGED <<done, disk, crashes, faults, dropped, unsaved>>

(* A handler's rejection, which nobody handles, ends the process when the   *)
(* microtasks have run.                                                     *)
RejectionEnds ==
  /\ proc = "ending" /\ saving = "none"
  /\ Ends(file)
  /\ UNCHANGED <<done, disk, crashes, faults, dropped, unsaved>>

(* Mutant: the file is rewritten once per request, with its last statement. *)
MutantRunStatement(r) ==
  /\ Serving /\ saving = "none"
  /\ outcome[r] = "open"
  /\ done' = [done EXCEPT ![r] = @ + 1]
  /\ mem' = mem \cup {<<r, done'[r]>>}
  /\ IF done'[r] = Steps[r] THEN saving' = "opening" /\ saver' = r
     ELSE UNCHANGED <<saving, saver>>
  /\ UNCHANGED <<boot, outcome, memRows, disk, hist>>

(* A handler runs its next statement; its save follows at once. *)
RunStatement(r) ==
  /\ Serving /\ saving = "none"
  /\ outcome[r] = "open"
  /\ done' = [done EXCEPT ![r] = @ + 1]
  /\ mem' = mem \cup {<<r, done'[r]>>}
  /\ saving' = "opening" /\ saver' = r
  /\ UNCHANGED <<boot, outcome, memRows, disk, hist>>

(* writeFileSync opens the file, which truncates it ... *)
OpenFile ==
  /\ saving = "opening"
  /\ saving' = "writing"
  /\ file' = "empty" /\ fileStmts' = {} /\ fileRows' = NoRows
  /\ UNCHANGED <<boot, saver, reqs, mem, memRows, hist>>

(* Mutant: off by one at the last statement. *)
MutantSaveReturns ==
  /\ saving' = "none" /\ saver' = NoRequest
  /\ IF saver = NoRequest
     THEN inits' = inits - 1 /\ UNCHANGED outcome
     ELSE /\ outcome' = [outcome EXCEPT ![saver] = IF done[saver] > Steps[saver] THEN "ok" ELSE @]
          /\ UNCHANGED inits

(* The save returned: the call of initDatabase, or the statement, is over, *)
(* and with its last statement a request is answered.                      *)
SaveReturns ==
  /\ saving' = "none" /\ saver' = NoRequest
  /\ IF saver = NoRequest
     THEN inits' = inits - 1 /\ UNCHANGED outcome
     ELSE /\ outcome' = [outcome EXCEPT ![saver] = IF done[saver] = Steps[saver] THEN "ok" ELSE @]
          /\ UNCHANGED inits

(* ... and writes the image of the database in memory to it. *)
WriteFile ==
  /\ saving = "writing"
  /\ file' = "whole" /\ fileStmts' = mem /\ fileRows' = memRows
  /\ SaveReturns
  /\ unsaved' = unsaved \ mem
  /\ UNCHANGED <<proc, initFailed, done, mem, memRows, crashes, faults, cut, dropped>>

(* Mutant: the handlers with a catch answer as if the save had returned.    *)
MutantHandlerFails(r) ==
  /\ outcome' = [outcome EXCEPT ![r] = IF OnFailure[r] = "end" THEN "cut" ELSE "ok"]
  /\ proc' = IF OnFailure[r] = "end" THEN "ending" ELSE proc

(* The handler stops at the statement whose save threw.  Without a try its  *)
(* client is never answered.                                                *)
HandlerFails(r) ==
  /\ outcome' = [outcome EXCEPT ![r] = IF OnFailure[r] = "end" THEN "cut" ELSE OnFailure[r]]
  /\ proc' = IF OnFailure[r] = "end" THEN "ending" ELSE proc

(* The save threw: a call of initDatabase is rejected, a handler fails. The *)
(* memory keeps the statement.                                              *)
SaveThrows ==
  /\ saving' = "none" /\ saver' = NoRequest
  /\ IF saver = NoRequest
     THEN inits' = inits - 1 /\ initFailed' = TRUE /\ UNCHANGED <<proc, outcome, unsaved>>
     ELSE /\ HandlerFails(saver)
          /\ unsaved' = unsaved \cup {<<saver, done[saver]>>}
          /\ UNCHANGED <<inits, initFailed>>

(* The file cannot be opened, or the disk is full half-way.  At start-up    *)
(* the second initDatabase reads what the first one's save has left.        *)
WriteFails ==
  /\ faults < MaxFault /\ faults' = faults + 1
  /\ \/ saving = "opening" /\ UNCHANGED disk
     \/ /\ saving = "writing" /\ file' \in {"empty", "torn"}
        /\ UNCHANGED <<fileStmts, fileRows>>
  /\ cut' = (cut \/ (proc = "booting" /\ saving = "writing"))
  /\ SaveThrows
  /\ UNCHANGED <<done, mem, memRows, crashes, dropped>>

(* The process is killed (out of memory, power, SIGKILL after docker's     *)
(* grace period); a write under way stops where it is.                     *)
Crash ==
  /\ proc # "down"
  /\ crashes < MaxCrash /\ crashes' = crashes + 1
  /\ file' \in IF saving = "writing" THEN {"empty", "torn"} ELSE {file}
  /\ Ends(file')
  /\ UNCHANGED <<done, fileStmts, fileRows, faults, dropped, unsaved>>

Next ==
  \/ Start \/ Load \/ LoadFails \/ BootEnds \/ RejectionEnds
  \/ \E r \in Request : RunStatement(r)
  \/ OpenFile \/ WriteFile \/ WriteFails
  \/ Crash

(* Docker restarts the container, and synchronous code runs to its end.    *)
Fairness ==
  /\ WF_vars(Start) /\ WF_vars(Load \/ LoadFails)
  /\ WF_vars(BootEnds) /\ WF_vars(RejectionEnds)
  /\ WF_vars(OpenFile) /\ WF_vars(WriteFile)

Spec == Init /\ [][Next]_vars /\ Fairness

-----------------------------------------------------------------------------
DbTypeOK ==
  /\ proc \in {"down", "booting", "up", "ending"} /\ inits \in 0..2 /\ initFailed \in BOOLEAN
  /\ saving \in {"none", "opening", "writing"}
  /\ saver \in Request \cup {NoRequest}
  /\ done \in [Request -> Nat] /\ \A r \in Request : done[r] <= Steps[r]
  /\ outcome \in [Request -> {"open", "ok", "error", "cut"}]
  /\ mem \subseteq Stmt /\ memRows \in [Legacy -> Row]
  /\ file \in {"absent", "empty", "torn", "whole"}
  /\ fileStmts \subseteq Stmt /\ fileRows \in [Legacy -> Row]
  /\ crashes \in 0..MaxCrash /\ faults \in 0..MaxFault
  /\ cut \in BOOLEAN /\ dropped \subseteq Request /\ unsaved \subseteq Stmt

Answered == {r \in Request : outcome[r] = "ok"}

(* The exception: a handler that answers ok whatever becomes of its save,   *)
(* while neither its own save nor a later one has taken its statement.      *)
Swallowed == {r \in Request : OnFailure[r] = "ok" /\ Stmts(r) \cap unsaved # {}}

(* What a client was told is stored is in every whole file and in every     *)
(* serving process, across failed saves, kills, unhandled rejections and    *)
(* starts, unless a start lost it with the whole file.                      *)
AnsweredSurvives ==
  \A r \in Answered \ (dropped \cup Swallowed) :
    /\ file = "whole" => Stmts(r) \subseteq fileStmts
    /\ Serving => Stmts(r) \subseteq mem

(* An answered request disappears only after the end of a process, or the   *)
(* failing save of a start, left the file truncated: no failed save that a  *)
(* later statement repaired, no second initDatabase and no start from a     *)
(* whole file does it, but for a streamed reply whose own save failed.      *)
DropsOnlyAfterCut == dropped \subseteq Swallowed \/ cut

(* Between statements the memory holds what the file holds, and beyond it   *)
(* only statements whose own save failed, of requests that were answered    *)
(* with an error or swallowed it: the second initDatabase replaces the      *)
(* first one's handle by an equal one.                                      *)
AheadOnlyByFailedSaves ==
  proc = "up" /\ saving = "none" /\ file = "whole" =>
    /\ memRows = fileRows
    /\ fileStmts \subseteq mem
    /\ mem \ fileStmts \subseteq unsaved
    /\ \A s \in mem \ fileStmts : outcome[s[1]] = "error" \/ s[1] \in Swallowed

(* Migrating is idempotent over any number of starts, kills in the middle   *)
(* of one, and the two calls of each: no reply is wrapped twice.            *)
MigratedOnce ==
  /\ \A m \in Legacy : memRows[m].replyTo # "nested" /\ fileRows[m].replyTo # "nested"
  /\ proc = "up" => \A m \in Legacy :
       memRows[m].sender # "columns" /\ memRows[m].replyTo # "text"

(* However its saves fail and wherever it is killed, the service comes      *)
(* back without help, unless a kill or a full disk left part of a file.     *)
ComesBackUnlessTorn == <>[](proc = "up") \/ <>[](file = "torn")
=============================================================================
