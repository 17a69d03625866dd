------------------------ MODULE SessionCommandsProofs ------------------------
(***************************************************************************)
(* Proofs about SessionCommands for any number of channels, senders and    *)
(* commands: at most one command of a sender is outstanding, and when none *)
(* is, the frontend's current session is the plugin's.                     *)
(***************************************************************************)
EXTENDS SessionCommands, TLAPS

(* Rows exist for 1..lastCmd, each with an owner. *)
RowsNumbered ==
  \A n \in Cmd :
    /\ n <= lastCmd <=> status[n] # "none"
    /\ n <= lastCmd <=> owner[n] \in Owner
    /\ n > lastCmd => owner[n] = NoOwner

(* Only the latest command of an owner can be outstanding. *)
PendingIsLatest ==
  \A i, n \in Cmd :
    status[n] = "pending" /\ i <= lastCmd /\ owner[i] = owner[n] => i <= n

(* The plugin's side: what it polled is outstanding, what it finished has a *)
(* row, and a row's final status is how the execution ended.                *)
PluginAgrees ==
  \A n \in Cmd :
    /\ n \in inbox => status[n] = "pending" /\ outcome[n] = "none"
    /\ outcome[n] # "none" => n <= lastCmd
    /\ status[n] = "done" => outcome[n] = "ok"
    /\ status[n] = "failed" => outcome[n] = "error"

LastRunIsLatest ==
  \A o \in Owner :
    /\ lastRun[o] # NoCmd => owner[lastRun[o]] = o /\ outcome[lastRun[o]] = "ok"
    /\ \A n \in Cmd : owner[n] = o /\ outcome[n] = "ok" => n <= lastRun[o]

IInv == RowsNumbered /\ PendingIsLatest /\ PluginAgrees /\ LastRunIsLatest

-----------------------------------------------------------------------------
(* The owner of a row not there yet is nobody's. *)
LEMMA OwnerIsPair == NoOwner \notin Owner
  BY DEF NoOwner, Owner

(* An empty table satisfies the invariant. *)
LEMMA InitCorrect == CmdInit => CmdTypeOK /\ IInv
  BY CommandAssumption, OwnerIsPair
     DEF CmdInit, CmdTypeOK, IInv, RowsNumbered, PendingIsLatest, PluginAgrees,
         LastRunIsLatest, Cmd, NoCmd

(* A step keeps the type of every variable. *)
LEMMA NextTypeOK == CmdTypeOK /\ [CmdNext]_cmdVars => CmdTypeOK'
<1> SUFFICES ASSUME CmdTypeOK, [CmdNext]_cmdVars PROVE CmdTypeOK'
  OBVIOUS
<1> USE CommandAssumption DEF CmdTypeOK, Cmd, NoCmd
<1>1. ASSUME NEW o \in Owner, Enqueue(o) PROVE CmdTypeOK'
  BY <1>1 DEF Enqueue, plugin
<1>2. ASSUME NEW c \in Channel, GetPendingCommands(c) PROVE CmdTypeOK'
  BY <1>2 DEF GetPendingCommands, PendingCommands, commands
<1>3. ASSUME NEW n \in Cmd, NEW result \in {"ok", "error"}, Execute(n, result)
      PROVE CmdTypeOK'
  BY <1>3 DEF Execute, commands
<1>4. ASSUME NEW n \in Cmd, AckCommand(n) PROVE CmdTypeOK'
  BY <1>4 DEF AckCommand, Ack, plugin
<1>5. CASE UNCHANGED cmdVars
  BY <1>5 DEF cmdVars, commands, plugin
<1> QED
  BY <1>1, <1>2, <1>3, <1>4, <1>5 DEF CmdNext

(* A new command is its owner's latest, and only one outstanding. *)
LEMMA EnqueueKeeps ==
  ASSUME CmdTypeOK, IInv, NEW o \in Owner, Enqueue(o)
  PROVE  IInv'
<1> USE CommandAssumption, OwnerIsPair DEF CmdTypeOK, Cmd, NoCmd
<1>1. lastCmd' = lastCmd + 1 /\ lastCmd' \in Cmd
      /\ UNCHANGED <<inbox, outcome, lastRun>>
  BY DEF Enqueue, plugin
<1>2. \A n \in Cmd : /\ status'[n] = IF n = lastCmd' THEN "pending" ELSE status[n]
                     /\ owner'[n] = IF n = lastCmd' THEN o ELSE owner[n]
  BY <1>1 DEF Enqueue
<1>3. \A n \in Cmd : owner[n] = o => status[n] # "pending"
  BY DEF Enqueue, HasPending
<1>4. RowsNumbered'
  BY <1>1, <1>2 DEF RowsNumbered, IInv
<1>5. PendingIsLatest'
  <2> SUFFICES ASSUME NEW i \in Cmd, NEW n \in Cmd, status'[n] = "pending",
                      i <= lastCmd', owner'[i] = owner'[n]
               PROVE  i <= n
    BY DEF PendingIsLatest
  <2>1. CASE n = lastCmd'
    BY <2>1
  <2>2. CASE n # lastCmd' /\ i = lastCmd'
    BY <1>2, <1>3, <2>2
  <2>3. CASE n # lastCmd' /\ i # lastCmd'
    <3>1. i <= lastCmd
      BY <1>1, <2>3
    <3> QED
      BY <1>2, <2>3, <3>1 DEF PendingIsLatest, IInv
  <2> QED
    BY <2>1, <2>2, <2>3
<1>6. PluginAgrees'
  BY <1>1, <1>2 DEF PluginAgrees, RowsNumbered, IInv
<1>7. outcome[lastCmd'] = "none"
  BY <1>1 DEF PluginAgrees, IInv
<1>8. ASSUME NEW q \in Owner PROVE lastRun[q] # NoCmd => lastRun[q] # lastCmd'
  BY <1>7 DEF LastRunIsLatest, IInv
<1>9. ASSUME NEW q \in Owner, NEW n \in Cmd, owner'[n] = q, outcome[n] = "ok"
      PROVE  n <= lastRun[q]
  BY <1>2, <1>7, <1>9 DEF LastRunIsLatest, IInv
<1>10. LastRunIsLatest'
  BY <1>1, <1>2, <1>8, <1>9 DEF LastRunIsLatest, IInv
<1> QED
  BY <1>4, <1>5, <1>6, <1>10 DEF IInv

(* What the plugin executes is its owner's latest command. *)
LEMMA ExecuteKeeps ==
  ASSUME CmdTypeOK, IInv, NEW n \in Cmd, NEW result \in {"ok", "error"},
         Execute(n, result)
  PROVE  IInv'
<1> USE CommandAssumption, OwnerIsPair DEF CmdTypeOK, Cmd, NoCmd
<1>1. UNCHANGED <<lastCmd, owner, status>> /\ inbox' = inbox \ {n}
  BY DEF Execute, commands
<1>2. \A i \in Cmd : outcome'[i] = IF i = n THEN result ELSE outcome[i]
  BY DEF Execute
<1>3. status[n] = "pending" /\ n <= lastCmd /\ owner[n] \in Owner
  BY DEF Execute, PluginAgrees, RowsNumbered, IInv
<1>4. RowsNumbered' /\ PendingIsLatest'
  BY <1>1 DEF RowsNumbered, PendingIsLatest, IInv
<1>5. PluginAgrees'
  BY <1>1, <1>2, <1>3 DEF PluginAgrees, IInv
<1>6. \A o \in Owner :
        lastRun'[o] = IF result = "ok" /\ o = owner[n] THEN n ELSE lastRun[o]
  BY <1>3 DEF Execute
<1>7. \A i \in Cmd : owner[i] = owner[n] /\ outcome[i] = "ok" => i <= n
  BY <1>3 DEF PendingIsLatest, PluginAgrees, IInv
<1>8. outcome[n] = "none"
  BY DEF Execute, PluginAgrees, IInv
<1>9. LastRunIsLatest'
  BY <1>1, <1>2, <1>3, <1>6, <1>7, <1>8 DEF LastRunIsLatest, IInv
<1> QED
  BY <1>4, <1>5, <1>9 DEF IInv

(* An acknowledgement, first or repeated, writes how the execution ended. *)
LEMMA AckKeeps ==
  ASSUME CmdTypeOK, IInv, NEW n \in Cmd, AckCommand(n)
  PROVE  IInv'
<1> USE CommandAssumption, OwnerIsPair DEF CmdTypeOK, Cmd, NoCmd
<1>1. UNCHANGED <<lastCmd, owner, inbox, outcome, lastRun>>
  BY DEF AckCommand, plugin
<1>2. \A i \in Cmd : status'[i] = IF i # n THEN status[i]
                                  ELSE IF outcome[n] = "ok" THEN "done" ELSE "failed"
  BY DEF AckCommand, Ack
<1>3. n <= lastCmd /\ outcome[n] \in {"ok", "error"} /\ n \notin inbox
  BY DEF AckCommand, PluginAgrees, IInv
<1>4. RowsNumbered' /\ PendingIsLatest'
  BY <1>1, <1>2, <1>3 DEF RowsNumbered, PendingIsLatest, IInv
<1>5. PluginAgrees'
  BY <1>1, <1>2, <1>3 DEF PluginAgrees, IInv
<1>6. LastRunIsLatest'
  BY <1>1 DEF LastRunIsLatest, IInv
<1> QED
  BY <1>4, <1>5, <1>6 DEF IInv

(* Every step of the specification keeps the invariant. *)
LEMMA NextIInv == CmdTypeOK /\ IInv /\ [CmdNext]_cmdVars => IInv'
<1> SUFFICES ASSUME CmdTypeOK, IInv, [CmdNext]_cmdVars PROVE IInv'
  OBVIOUS
<1>1. ASSUME NEW c \in Channel, GetPendingCommands(c) PROVE IInv'
  BY <1>1 DEF GetPendingCommands, PendingCommands, commands, IInv, RowsNumbered,
     PendingIsLatest, PluginAgrees, LastRunIsLatest, CmdTypeOK
<1>2. CASE UNCHANGED cmdVars
  BY <1>2 DEF cmdVars, commands, plugin, IInv, RowsNumbered, PendingIsLatest,
     PluginAgrees, LastRunIsLatest
<1> QED
  BY <1>1, <1>2, EnqueueKeeps, ExecuteKeeps, AckKeeps DEF CmdNext

(* The inductive invariant of every reachable state. *)
THEOREM Invariant == CmdSpec => [](CmdTypeOK /\ IInv)
  BY InitCorrect, NextTypeOK, NextIInv, PTL DEF CmdSpec

-----------------------------------------------------------------------------
(* Two outstanding commands of one owner would both be its latest. *)
LEMMA IInvOnePending == CmdTypeOK /\ IInv => OnePendingPerSender
<1> SUFFICES ASSUME CmdTypeOK, IInv, NEW i \in Cmd, NEW j \in Cmd,
                    owner[i] = owner[j], status[i] = "pending", status[j] = "pending"
             PROVE  i = j
  BY DEF OnePendingPerSender
<1>1. i <= lastCmd /\ j <= lastCmd
  BY DEF IInv, RowsNumbered
<1>2. i <= j /\ j <= i
  BY <1>1 DEF IInv, PendingIsLatest
<1> QED
  BY <1>2, CommandAssumption DEF Cmd

(* The last command run is done as soon as nothing is outstanding. *)
LEMMA IInvCurrent == CmdTypeOK /\ IInv => CurrentMatchesPlugin
<1> SUFFICES ASSUME CmdTypeOK, IInv, NEW o \in Owner, ~HasPending(o)
             PROVE  IF lastRun[o] = NoCmd THEN DoneOf(o) = {} ELSE IsCurrent(o, lastRun[o])
  BY DEF CurrentMatchesPlugin
<1>1. \A n \in DoneOf(o) : n \in Cmd /\ n <= lastRun[o]
  BY DEF DoneOf, IInv, PluginAgrees, LastRunIsLatest
<1>2. CASE lastRun[o] = NoCmd
  BY <1>1, <1>2, CommandAssumption DEF NoCmd, Cmd
<1>3. CASE lastRun[o] # NoCmd
  <2>1. lastRun[o] \in Cmd /\ owner[lastRun[o]] = o /\ outcome[lastRun[o]] = "ok"
    BY <1>3 DEF CmdTypeOK, IInv, LastRunIsLatest
  <2>2. status[lastRun[o]] = "done"
    BY <2>1 DEF HasPending, CmdTypeOK, IInv, RowsNumbered, PluginAgrees
  <2> QED
    BY <1>1, <1>3, <2>1, <2>2 DEF IsCurrent, DoneOf
<1> QED
  BY <1>2, <1>3

(* Every variable keeps its type, for every value of the constants. *)
THEOREM TypeCorrect == CmdSpec => []CmdTypeOK
  BY Invariant, PTL

(* At most one command of a sender is ever outstanding. *)
THEOREM OnePending == CmdSpec => []OnePendingPerSender
  BY Invariant, IInvOnePending, PTL

(* With nothing outstanding, the current session is the plugin's. *)
THEOREM CurrentSession == CmdSpec => []CurrentMatchesPlugin
  BY Invariant, IInvCurrent, PTL

(* A command that is done stays so and stays its owner's: the only step     *)
(* that writes a status after the INSERT repeats how the execution ended.   *)
LEMMA DoneStays ==
  ASSUME CmdTypeOK, IInv, [CmdNext]_cmdVars,
         NEW n \in Cmd, status[n] = "done"
  PROVE  status'[n] = "done" /\ owner'[n] = owner[n]
<1> USE DEF CmdTypeOK
<1>1. ASSUME NEW o \in Owner, Enqueue(o) PROVE status'[n] = "done" /\ owner'[n] = owner[n]
  <2>1. n # lastCmd'
    BY <1>1, CommandAssumption DEF Enqueue, IInv, RowsNumbered, Cmd
  <2> QED
    BY <1>1, <2>1 DEF Enqueue
<1>2. ASSUME NEW c \in Channel, GetPendingCommands(c)
      PROVE  status'[n] = "done" /\ owner'[n] = owner[n]
  BY <1>2 DEF GetPendingCommands, commands
<1>3. ASSUME NEW i \in Cmd, NEW result \in {"ok", "error"}, Execute(i, result)
      PROVE  status'[n] = "done" /\ owner'[n] = owner[n]
  BY <1>3 DEF Execute, commands
<1>4. ASSUME NEW i \in Cmd, AckCommand(i)
      PROVE  status'[n] = "done" /\ owner'[n] = owner[n]
  <2>1. outcome[n] = "ok"
    BY DEF IInv, PluginAgrees
  <2> QED
    BY <1>4, <2>1 DEF AckCommand, Ack
<1>5. CASE UNCHANGED cmdVars
  BY <1>5 DEF cmdVars, commands
<1> QED
  BY <1>1, <1>2, <1>3, <1>4, <1>5 DEF CmdNext

(* So a step leaves the current session, or puts a newer one in its place.  *)
LEMMA StepNeverGoesBack ==
  ASSUME CmdTypeOK, IInv, [CmdNext]_cmdVars
  PROVE  [\A o \in Owner, n \in Cmd :
            IsCurrent(o, n) => \E i \in DoneOf(o)' : i >= n]_cmdVars
<1> SUFFICES ASSUME NEW o \in Owner, NEW n \in Cmd, IsCurrent(o, n)
             PROVE  \E i \in DoneOf(o)' : i >= n
  OBVIOUS
<1>1. n \in Cmd /\ owner[n] = o /\ status[n] = "done"
  BY DEF IsCurrent, DoneOf
<1>2. n \in DoneOf(o)'
  BY <1>1, DoneStays DEF DoneOf, Cmd
<1>3. n >= n
  BY CommandAssumption DEF Cmd
<1> QED
  BY <1>2, <1>3

(* The session listed as current never goes back to an older one, however   *)
(* late or often the plugin acknowledges.                                   *)
THEOREM NeverGoesBack == CmdSpec => CurrentNeverGoesBack
  BY Invariant, StepNeverGoesBack, PTL DEF CmdSpec, CurrentNeverGoesBack
=============================================================================
