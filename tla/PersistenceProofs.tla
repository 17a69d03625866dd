-------------------------- MODULE PersistenceProofs --------------------------
(***************************************************************************)
(* Proofs about Persistence for any number of requests, statements, kills  *)
(* and failing saves.  One inductive invariant, DbInv, carries the type    *)
(* and the safety properties: what is answered is in every place that can  *)
(* be read next, the memory of a serving process or a whole file.          *)
(***************************************************************************)
EXTENDS Persistence, TLAPS

(* Where a save can be under way, for whom, and what the file is meanwhile. *)
Phases ==
  /\ proc = "down" => saving = "none" /\ inits = 0
  /\ saving = "none" => saver = NoRequest
  /\ saving = "writing" => file = "empty"
  /\ saver # NoRequest => Serving /\ outcome[saver] = "open" /\ done[saver] > 0
  /\ Serving => inits = 0 /\ (saving # "none" => saver # NoRequest)
  /\ file # "whole" => fileStmts = {}
  /\ proc = "booting" /\ saving # "none" => inits > 0

(* An unanswered request runs in the serving process, whose memory has all  *)
(* its statements; the last one is the one being saved.                     *)
OpenRequests ==
  \A r \in Request : outcome[r] = "open" =>
    /\ done[r] = Steps[r] => saver = r
    /\ done[r] > 0 => Serving
    /\ \A k \in 1..done[r] : <<r, k>> \in mem

(* What is answered is wherever the next reader looks. *)
Kept == Answered \ (dropped \cup Swallowed)
AnsweredInFile ==
  \A r \in Kept : file = "whole" => Stmts(r) \subseteq fileStmts
AnsweredInMemory ==
  \A r \in Kept : Serving \/ saving # "none" => Stmts(r) \subseteq mem
AbsentMeansNew == file = "absent" => Answered \subseteq Swallowed

(* What is dropped stays so: its handler is over. *)
DroppedIsGone ==
  \A r \in dropped : /\ outcome[r] = "ok"
                     /\ ~ Stmts(r) \subseteq mem /\ ~ Stmts(r) \subseteq fileStmts

(* A start whose calls all succeeded has written what it read. *)
BootSaved ==
  proc = "booting" /\ inits < 2 /\ ~ initFailed /\ saving = "none" =>
    file = "whole" /\ fileStmts = mem /\ fileRows = memRows

(* The memory is ahead of a whole file by statements whose save failed, and *)
(* by the one whose save has not opened the file yet.                       *)
FailedStmt(s) == s \in unsaved /\ (outcome[s[1]] = "error" \/ OnFailure[s[1]] = "ok")
AheadBySaver ==
  proc = "up" /\ file = "whole" =>
    /\ memRows = fileRows
    /\ fileStmts \subseteq mem
    /\ \A s \in mem \ fileStmts :
         FailedStmt(s) \/ (saving = "opening" /\ s = <<saver, done[saver]>>)

(* Without a cut, a start finds no broken file. *)
BrokenMeansCut ==
  file \in {"empty", "torn"} /\ ~ cut =>
    Serving \/ (proc = "booting" /\ saving = "writing")

(* Rows in memory are migrated, and nothing is ever wrapped twice. *)
RowsMigrated ==
  \A m \in Legacy :
    /\ memRows[m].sender # "columns"
    /\ memRows[m].replyTo \notin {"text", "nested"}
    /\ fileRows[m].replyTo # "nested"

DbInv ==
  /\ DbTypeOK
  /\ Phases
  /\ OpenRequests
  /\ AnsweredInFile
  /\ AnsweredInMemory
  /\ AbsentMeansNew
  /\ DroppedIsGone
  /\ BootSaved
  /\ AheadBySaver
  /\ BrokenMeansCut
  /\ RowsMigrated
  /\ DropsOnlyAfterCut

-----------------------------------------------------------------------------
(* Stmts as a quantifier over the statement numbers. *)
LEMMA StmtsIn ==
  ASSUME NEW r, NEW S
  PROVE  Stmts(r) \subseteq S <=> \A k \in 1..Steps[r] : <<r, k>> \in S
BY DEF Stmts

(* A request has statements, and one that swallows errors has just one.     *)
LEMMA StmtsOf ==
  ASSUME NEW r \in Request
  PROVE  /\ Stmts(r) # {}
         /\ OnFailure[r] = "ok" => Stmts(r) = {<<r, 1>>}
<1>1. Steps[r] \in Nat \ {0}
  BY PersistenceAssumption
<1>2. <<r, 1>> \in Stmts(r)
  BY <1>1 DEF Stmts
<1>3. OnFailure[r] = "ok" => Steps[r] = 1
  BY PersistenceAssumption
<1>4. OnFailure[r] = "ok" => Stmts(r) = {<<r, 1>>}
  BY <1>3 DEF Stmts
<1> QED
  BY <1>2, <1>4

(* Migrating a row a file may hold gives a migrated row. *)
LEMMA MigrateRowType ==
  ASSUME NEW row \in Row, row.replyTo # "nested"
  PROVE  /\ MigrateRow(row) \in Row
         /\ MigrateRow(row).sender # "columns"
         /\ MigrateRow(row).replyTo \notin {"text", "nested"}
BY DEF MigrateRow, Row, SenderForm, ReplyForm

LEMMA NoRowsType ==
  /\ NoRows \in [Legacy -> Row]
  /\ \A m \in Legacy : /\ NoRows[m].sender # "columns"
                       /\ NoRows[m].replyTo \notin {"text", "nested"}
BY DEF NoRows, NoRow, Row, SenderForm, ReplyForm

LEMMA DbInit == Init => DbInv
<1> SUFFICES ASSUME Init PROVE DbInv
  OBVIOUS
<1> USE PersistenceAssumption, NoRowsType DEF Init
<1>1. fileRows \in [Legacy -> Row] /\ \A m \in Legacy : fileRows[m].replyTo # "nested"
  <2>1. OldRow \subseteq Row /\ \A row \in OldRow : row.replyTo # "nested"
    BY DEF OldRow, Row, ReplyForm
  <2>2. fileRows \in [Legacy -> OldRow] \/ fileRows = NoRows
    OBVIOUS
  <2> QED BY <2>1, <2>2
<1>2. DbTypeOK
  <2>1. initFailed \in BOOLEAN /\ cut \in BOOLEAN
    BY Zenon
  <2> QED BY <1>1, <2>1 DEF DbTypeOK, Stmt
<1>3. Answered = {}
  BY DEF Answered
<1> QED
  BY <1>1, <1>2, <1>3 DEF DbInv, Kept, Serving,
     DbTypeOK, Phases, OpenRequests, AnsweredInFile, AnsweredInMemory, AbsentMeansNew,
     DroppedIsGone, BootSaved, AheadBySaver, BrokenMeansCut, RowsMigrated, DropsOnlyAfterCut

(* A process that ends leaves everything to the file. *)
LEMMA EndsKeeps ==
  ASSUME DbInv, DbTypeOK', NEW f, f = file', Ends(f), proc # "down",
         UNCHANGED <<done, fileStmts, fileRows, dropped, unsaved>>,
         file' = file \/ (saving = "writing" /\ file' \in {"empty", "torn"})
  PROVE  DbInv'
<1> USE PersistenceAssumption, NoRowsType DEF DbInv, Answered, Ends, Serving, Kept, Swallowed
<1>1. \A r \in Request : outcome'[r] = "ok" <=> outcome[r] = "ok"
  BY DEF DbTypeOK
<1>2. OpenRequests'
  BY DEF DbTypeOK, OpenRequests, Phases
<1>3. AnsweredInFile' /\ AnsweredInMemory' /\ AbsentMeansNew'
  BY <1>1 DEF AnsweredInFile, AnsweredInMemory, AbsentMeansNew
<1>4. BrokenMeansCut' /\ DropsOnlyAfterCut'
  BY DEF BrokenMeansCut, DropsOnlyAfterCut
<1>5. DroppedIsGone'
  <2> SUFFICES ASSUME NEW r \in dropped PROVE outcome'[r] = "ok" /\ ~ Stmts(r) \subseteq mem' /\ ~ Stmts(r) \subseteq fileStmts'
    BY DEF DroppedIsGone
  <2>1. r \in Request
    BY DEF DbTypeOK
  <2> QED
    BY <1>1, <2>1, StmtsOf DEF DroppedIsGone
<1> QED
  BY <1>2, <1>3, <1>4, <1>5 DEF Phases, BootSaved, AheadBySaver, RowsMigrated

LEMMA DbNext == DbInv /\ [Next]_vars => DbInv'
<1> SUFFICES ASSUME DbInv, [Next]_vars PROVE DbInv'
  OBVIOUS
<1> USE PersistenceAssumption DEF DbInv, Answered, Serving, Kept, Swallowed
<1>1. CASE Start
  <2>0. initFailed' \in BOOLEAN
    BY <1>1, Zenon DEF Start
  <2>1. DbTypeOK'
    BY <1>1, <2>0 DEF Start, DbTypeOK, reqs, disk, hist
  <2> QED
    BY <1>1, <2>1 DEF Start, reqs, disk, hist,
     DbTypeOK, Phases, OpenRequests, AnsweredInFile, AnsweredInMemory, AbsentMeansNew,
     DroppedIsGone, BootSaved, AheadBySaver, BrokenMeansCut, RowsMigrated, DropsOnlyAfterCut
<1>2. CASE Load
  <2> USE <1>2 DEF Load, boot, reqs, disk, Unreadable
  <2>1. memRows' \in [Legacy -> Row] /\ RowsMigrated'
    BY MigrateRowType, NoRowsType DEF DbTypeOK, RowsMigrated
  <2>2. DbTypeOK'
    BY <2>1 DEF DbTypeOK
  <2>3. AnsweredInMemory' /\ AnsweredInFile'
    BY DEF AnsweredInMemory, AnsweredInFile, Phases, DbTypeOK
  <2>4. DropsOnlyAfterCut'
    <3> SUFFICES ASSUME NEW r \in Answered \ (dropped \cup Swallowed), ~ Stmts(r) \subseteq mem' PROVE cut
      BY DEF DropsOnlyAfterCut
    <3>1. file # "whole"
      BY DEF AnsweredInFile
    <3>2. file = "empty"
      BY <3>1 DEF DbTypeOK, AbsentMeansNew
    <3> QED
      BY <3>2 DEF BrokenMeansCut
  <2>5. OpenRequests'
    BY DEF OpenRequests, DbTypeOK, Phases
  <2>6. DroppedIsGone'
    <3> SUFFICES ASSUME NEW r \in dropped'
                 PROVE  outcome[r] = "ok" /\ ~ Stmts(r) \subseteq mem' /\ ~ Stmts(r) \subseteq fileStmts
      BY DEF DroppedIsGone
    <3>1. r \in Request /\ Stmts(r) # {}
      BY StmtsOf DEF DbTypeOK
    <3>2. mem' = fileStmts
      BY DEF Phases
    <3> QED
      BY <3>1, <3>2 DEF DroppedIsGone
  <2> QED
    BY <2>1, <2>2, <2>3, <2>4, <2>5, <2>6
    DEF DbTypeOK, Phases, AbsentMeansNew, BootSaved, AheadBySaver, BrokenMeansCut
<1>3. CASE LoadFails
  <2>1. DbTypeOK'
    BY <1>3 DEF LoadFails, DbTypeOK, reqs, disk, hist
  <2> QED
    BY <1>3, <2>1 DEF LoadFails, reqs, disk, hist,
     DbTypeOK, Phases, OpenRequests, AnsweredInFile, AnsweredInMemory, AbsentMeansNew,
     DroppedIsGone, BootSaved, AheadBySaver, BrokenMeansCut, RowsMigrated, DropsOnlyAfterCut
<1>4. CASE BootEnds
  <2>1. CASE initFailed
    <3>1. DbTypeOK'
      <4>1. outcome' \in [Request -> {"open", "ok", "error", "cut"}]
        BY <1>4, <2>1 DEF BootEnds, Ends, DbTypeOK
      <4>2. cut' \in BOOLEAN
        BY <1>4, <2>1, Zenon DEF BootEnds, Ends
      <4> QED
        BY <1>4, <2>1, <4>1, <4>2, NoRowsType DEF BootEnds, Ends, DbTypeOK, disk
    <3>2. Ends(file') /\ proc # "down" /\ file' = file
      BY <1>4, <2>1 DEF BootEnds, disk
    <3> QED
      BY <1>4, <3>1, <3>2, EndsKeeps DEF BootEnds, disk
  <2>2. CASE ~ initFailed
    <3>1. DbTypeOK'
      BY <1>4, <2>2 DEF BootEnds, DbTypeOK, disk
    <3> QED
      BY <1>4, <2>2, <3>1 DEF BootEnds, disk,
     DbTypeOK, Phases, OpenRequests, AnsweredInFile, AnsweredInMemory, AbsentMeansNew,
     DroppedIsGone, BootSaved, AheadBySaver, BrokenMeansCut, RowsMigrated, DropsOnlyAfterCut
  <2> QED BY <2>1, <2>2
<1>5. CASE RejectionEnds
  <2>1. outcome' \in [Request -> {"open", "ok", "error", "cut"}]
    BY <1>5 DEF RejectionEnds, Ends, DbTypeOK
  <2>2. cut' \in BOOLEAN /\ initFailed' \in BOOLEAN
    BY <1>5, Zenon DEF RejectionEnds, Ends
  <2>3. DbTypeOK'
    BY <1>5, <2>1, <2>2, NoRowsType DEF RejectionEnds, Ends, DbTypeOK, disk
  <2>4. Ends(file') /\ proc # "down" /\ file' = file
    BY <1>5 DEF RejectionEnds, disk
  <2> QED
    BY <1>5, <2>3, <2>4, EndsKeeps DEF RejectionEnds, disk
<1>6. ASSUME NEW r \in Request, RunStatement(r) PROVE DbInv'
  <2> DEFINE new == <<r, done[r] + 1>>
  <2> USE <1>6 DEF RunStatement, boot, disk, hist
  <2>1. done[r] \in Nat /\ done[r] < Steps[r] /\ Steps[r] \in Nat /\ saver = NoRequest
    BY DEF DbTypeOK, OpenRequests, Phases
  <2>2. done' = [done EXCEPT ![r] = @ + 1] /\ done'[r] = done[r] + 1 /\ mem' = mem \cup {new}
    BY DEF DbTypeOK
  <2>3. new \in Stmt
    BY <2>1 DEF Stmt
  <2>4. DbTypeOK'
    BY <2>1, <2>2, <2>3 DEF DbTypeOK
  <2>5. OpenRequests' /\ Phases'
    BY <2>1, <2>2 DEF OpenRequests, Phases, DbTypeOK
  <2>6. AnsweredInFile' /\ AnsweredInMemory' /\ AbsentMeansNew' /\ BootSaved' /\ DropsOnlyAfterCut'
    BY <2>2 DEF AnsweredInFile, AnsweredInMemory, AbsentMeansNew, BootSaved, DropsOnlyAfterCut
  <2>7. DroppedIsGone'
    <3> SUFFICES ASSUME NEW q \in dropped, Stmts(q) \subseteq mem' PROVE FALSE
      BY DEF DroppedIsGone
    <3>1. q # r /\ ~ Stmts(q) \subseteq mem
      BY DEF DroppedIsGone
    <3>2. new \notin Stmts(q)
      BY <3>1 DEF Stmts
    <3> QED
      BY <2>2, <3>1, <3>2
  <2>8. AheadBySaver'
    BY <2>2 DEF AheadBySaver, FailedStmt, Phases
  <2> QED
    BY <2>4, <2>5, <2>6, <2>7, <2>8 DEF BrokenMeansCut, RowsMigrated
<1>7. CASE OpenFile
  <2> USE <1>7 DEF OpenFile, boot, reqs, hist
  <2>1. DbTypeOK'
    BY NoRowsType DEF DbTypeOK
  <2>2. DroppedIsGone'
    <3> SUFFICES ASSUME NEW r \in dropped PROVE ~ Stmts(r) \subseteq {}
      BY DEF DroppedIsGone
    <3> QED
      BY StmtsOf DEF DbTypeOK
  <2>3. OpenRequests' /\ AnsweredInFile' /\ AnsweredInMemory' /\ AbsentMeansNew'
    BY DEF OpenRequests, AnsweredInFile, AnsweredInMemory, AbsentMeansNew
  <2>4. Phases' /\ BootSaved' /\ AheadBySaver' /\ BrokenMeansCut'
    BY DEF DbTypeOK, Phases, BootSaved, AheadBySaver, BrokenMeansCut
  <2>5. RowsMigrated' /\ DropsOnlyAfterCut'
    BY NoRowsType DEF RowsMigrated, DropsOnlyAfterCut
  <2> QED
    BY <2>1, <2>2, <2>3, <2>4, <2>5
<1>8. CASE WriteFile
  <2> USE <1>8 DEF WriteFile, SaveReturns
  <2>1. DbTypeOK'
    BY DEF DbTypeOK, Phases
  <2>2. OpenRequests'
    BY DEF DbTypeOK, OpenRequests, Phases
  <2>3. ASSUME NEW r \in Answered', r \notin dropped, r \notin Swallowed' PROVE Stmts(r) \subseteq mem
    <3>1. r \in Request
      OBVIOUS
    <3>2. CASE r \in Swallowed
      <4>1. <<r, 1>> \in unsaved /\ Stmts(r) = {<<r, 1>>} /\ <<r, 1>> \notin unsaved'
        BY <2>3, <3>1, <3>2, StmtsOf
      <4> QED
        BY <4>1
    <3>3. CASE r \notin Swallowed /\ r \in Answered
      BY <2>3, <3>3 DEF AnsweredInMemory
    <3>4. CASE r \notin Answered
      <4>1. r = saver /\ done[r] = Steps[r] /\ outcome[r] = "open"
        BY <2>3, <3>1, <3>4 DEF DbTypeOK, Phases
      <4> QED
        BY <4>1, <3>1, StmtsIn DEF OpenRequests
    <3> QED
      BY <3>2, <3>3, <3>4
  <2>4. AnsweredInFile' /\ AnsweredInMemory' /\ AbsentMeansNew'
    BY <2>3 DEF AnsweredInFile, AnsweredInMemory, AbsentMeansNew
  <2>5. DroppedIsGone'
    BY DEF DroppedIsGone, Phases, DbTypeOK
  <2>6. DropsOnlyAfterCut'
    <3> SUFFICES ASSUME NEW r \in dropped, r \in Swallowed PROVE r \in Swallowed'
      BY DEF DropsOnlyAfterCut
    <3>1. r \in Request /\ Stmts(r) = {<<r, 1>>} /\ ~ Stmts(r) \subseteq mem
      BY StmtsOf DEF DroppedIsGone
    <3> QED
      BY <3>1
  <2> QED
    BY <2>1, <2>2, <2>4, <2>5, <2>6
    DEF Phases, BootSaved, AheadBySaver, BrokenMeansCut, RowsMigrated, DbTypeOK
<1>9. CASE WriteFails
  <2>1. /\ cut' \in BOOLEAN
        /\ cut => cut'
        /\ proc = "booting" /\ saving = "writing" => cut'
    BY <1>9, Zenon DEF WriteFails
  <2>2. initFailed' \in BOOLEAN
    <3>1. CASE saver = NoRequest
      BY <1>9, <3>1, Zenon DEF WriteFails, SaveThrows
    <3>2. CASE saver # NoRequest
      BY <1>9, <3>2 DEF WriteFails, SaveThrows, DbTypeOK
    <3> QED BY <3>1, <3>2
  <2> USE <1>9 DEF WriteFails, SaveThrows, HandlerFails, disk
  <2>3. saver # NoRequest => saver \in Request /\ <<saver, done[saver]>> \in Stmt
    BY DEF DbTypeOK, Phases, Stmt
  <2>4. /\ inits' \in 0..2
        /\ outcome' \in [Request -> {"open", "ok", "error", "cut"}]
        /\ proc' \in {"down", "booting", "up", "ending"}
        /\ unsaved' \subseteq Stmt /\ unsaved \subseteq unsaved'
    BY <2>3 DEF DbTypeOK, Phases
  <2>5. file' \in {"absent", "empty", "torn", "whole"}
    BY DEF DbTypeOK
  <2>6. DbTypeOK'
    BY <2>1, <2>2, <2>4, <2>5 DEF DbTypeOK
  <2>7. Swallowed \subseteq Swallowed'
    BY <2>4
  <2>8. /\ proc' = proc \/ (proc \in {"up", "ending"} /\ proc' = "ending")
        /\ \A r \in Request : r # saver => outcome'[r] = outcome[r]
    BY DEF DbTypeOK, Phases
  <2>9. OpenRequests'
    BY <2>8 DEF DbTypeOK, OpenRequests, Phases
  <2>10. Phases' /\ BrokenMeansCut' /\ BootSaved'
    BY <2>1, <2>8 DEF DbTypeOK, Phases, BrokenMeansCut, BootSaved
  <2>11. ASSUME NEW r \in Answered', r \notin Swallowed' PROVE r \in Answered
    <3> SUFFICES ASSUME r = saver, r # NoRequest PROVE FALSE
      BY <2>8, <2>11, PersistenceAssumption
    <3>1. r \in Request /\ OnFailure[r] = "ok" /\ done[r] = 1
      BY <2>3, <2>11 DEF DbTypeOK, Phases
    <3>2. <<r, 1>> \in unsaved' /\ Stmts(r) = {<<r, 1>>}
      BY <3>1, StmtsOf
    <3> QED
      BY <2>11, <3>1, <3>2
  <2>12. AnsweredInFile' /\ AnsweredInMemory' /\ AbsentMeansNew'
    <3>1. AnsweredInFile'
      BY <2>7, <2>11 DEF AnsweredInFile
    <3>2. AnsweredInMemory'
      BY <2>7, <2>8, <2>11 DEF AnsweredInMemory
    <3>3. AbsentMeansNew'
      BY <2>7, <2>11 DEF AbsentMeansNew
    <3> QED BY <3>1, <3>2, <3>3
  <2>13. DroppedIsGone'
    BY <2>8 DEF DroppedIsGone, Phases, DbTypeOK
  <2>14. AheadBySaver'
    <3> SUFFICES ASSUME proc' = "up", file' = "whole" PROVE AheadBySaver'
      BY DEF AheadBySaver
    <3>1. saving = "opening" /\ file = "whole" /\ proc = "up" /\ saver \in Request
      BY <2>3, <2>8 DEF DbTypeOK, Phases
    <3>2. outcome'[saver] = "error" \/ OnFailure[saver] = "ok"
      BY <3>1 DEF DbTypeOK
    <3>3. ASSUME NEW s \in mem \ fileStmts PROVE FailedStmt(s)'
      <4>1. CASE s = <<saver, done[saver]>>
        BY <3>1, <3>2, <4>1 DEF FailedStmt
      <4>2. CASE FailedStmt(s)
        <5>1. s[1] \in Request
          BY DEF DbTypeOK, Stmt
        <5> QED
          BY <2>4, <2>8, <3>1, <3>2, <4>2, <5>1 DEF FailedStmt
      <4> QED
        BY <3>1, <3>3, <4>1, <4>2 DEF AheadBySaver
    <3> QED
      BY <3>1, <3>3 DEF AheadBySaver
  <2>15. DropsOnlyAfterCut'
    BY <2>1, <2>7 DEF DropsOnlyAfterCut
  <2> QED
    BY <2>6, <2>9, <2>10, <2>12, <2>13, <2>14, <2>15 DEF RowsMigrated
<1>10. CASE Crash
  <2>1. DbTypeOK'
    <3>1. outcome' \in [Request -> {"open", "ok", "error", "cut"}]
      BY <1>10 DEF Crash, Ends, DbTypeOK
    <3>2. cut' \in BOOLEAN /\ initFailed' \in BOOLEAN
      BY <1>10, Zenon DEF Crash, Ends
    <3>3. file' \in {"absent", "empty", "torn", "whole"} /\ crashes' \in 0..MaxCrash
      BY <1>10 DEF Crash, DbTypeOK
    <3> QED
      BY <1>10, <3>1, <3>2, <3>3, NoRowsType DEF Crash, Ends, DbTypeOK
  <2> QED
    BY <1>10, <2>1, EndsKeeps DEF Crash
<1>11. CASE UNCHANGED vars
  BY <1>11 DEF vars, boot, reqs, disk, hist, FailedStmt,
     DbTypeOK, Phases, OpenRequests, AnsweredInFile, AnsweredInMemory, AbsentMeansNew,
     DroppedIsGone, BootSaved, AheadBySaver, BrokenMeansCut, RowsMigrated, DropsOnlyAfterCut
<1> QED
  BY <1>1, <1>2, <1>3, <1>4, <1>5, <1>6, <1>7, <1>8, <1>9, <1>10, <1>11 DEF Next

-----------------------------------------------------------------------------
THEOREM DbInvariant == Spec => []DbInv
<1> QED BY DbInit, DbNext, PTL DEF Spec

(* Every variable keeps its type: no request runs past its last statement.  *)
THEOREM DbTypeCorrect == Spec => []DbTypeOK
<1>1. DbInv => DbTypeOK
  BY DEF DbInv
<1> QED BY <1>1, DbInvariant, PTL

(* What a client was told is stored survives failing saves, kills, ends of  *)
(* the process and starts, except for what a start lost with the whole file *)
(* and for streamed replies whose own save failed, until a later one.       *)
THEOREM AnsweredSurvivesHolds == Spec => []AnsweredSurvives
<1>1. DbInv => AnsweredSurvives
  BY DEF DbInv, AnsweredInFile, AnsweredInMemory, AnsweredSurvives, Kept
<1> QED BY <1>1, DbInvariant, PTL

(* A start loses answered requests only when the file it was left is cut,   *)
(* or with them the failure of their own save was swallowed.                *)
THEOREM DropsOnlyAfterCutHolds == Spec => []DropsOnlyAfterCut
<1>1. DbInv => DropsOnlyAfterCut
  BY DEF DbInv
<1> QED BY <1>1, DbInvariant, PTL

(* The memory of a serving process is ahead of the file by statements whose *)
(* own save failed, of requests answered with an error or swallowing it.    *)
THEOREM AheadOnlyByFailedSavesHolds == Spec => []AheadOnlyByFailedSaves
<1>1. DbInv => AheadOnlyByFailedSaves
  <2> SUFFICES ASSUME DbInv, proc = "up", saving = "none", file = "whole",
                      NEW s \in mem \ fileStmts
               PROVE  s \in unsaved /\ (outcome[s[1]] = "error" \/ s[1] \in Swallowed)
    BY DEF DbInv, AheadBySaver, AheadOnlyByFailedSaves
  <2>1. FailedStmt(s)
    BY DEF DbInv, AheadBySaver
  <2>2. s[1] \in Request /\ s \in Stmts(s[1])
    BY DEF DbInv, DbTypeOK, Stmt, Stmts
  <2> QED
    BY <2>1, <2>2 DEF FailedStmt, Swallowed
<1> QED BY <1>1, DbInvariant, PTL

(* No number of starts wraps a reply twice or leaves a row unmigrated.      *)
THEOREM MigratedOnceHolds == Spec => []MigratedOnce
<1>1. DbInv => MigratedOnce
  BY DEF DbInv, RowsMigrated, MigratedOnce
<1> QED BY <1>1, DbInvariant, PTL
=============================================================================
