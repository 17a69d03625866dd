-------------------------- MODULE SessionCommands ---------------------------
(***************************************************************************)
(* Session commands (reset, switch): the frontend queues one for a sender  *)
(* of a channel, the plugin polls, executes and acknowledges it, and the   *)
(* list of sessions is derived from the commands that are done.  The code  *)
(* is the session handlers of http/server.ts over the session_commands     *)
(* table of db/sessionCommandStore.ts; both the table and the confirmation *)
(* messages are on disk.                                                   *)
(*                                                                         *)
(* A command is its number in creation order (created_at).  The plugin is  *)
(* external: it executes a command it polled once, and repeats its         *)
(* acknowledgement as often as its retries want, arbitrarily late.         *)
(* Refused requests (bad token, unknown channel, 409) change nothing.      *)
(***************************************************************************)
EXTENDS Naturals, FiniteSets

CONSTANTS
  Channel,     \* channel ids
  Sender,      \* sender ids
  PendingLimit,\* getPending's LIMIT
  MaxCmd,      \* bound: commands queued
  MaxAck       \* bound: acknowledgements of one command

ASSUME CommandAssumption ==
  /\ PendingLimit \in Nat \ {0}
  /\ MaxCmd \in Nat
  /\ MaxAck \in Nat

VARIABLES
  lastCmd,       \* commands queued so far
  owner,         \* columns channel_id and sender_id, <<channel, sender>>
  status,        \* column status; "none" before the row exists
  confirmations, \* system messages stored for each command
  inbox,         \* plugin: commands polled and not executed yet
  outcome,       \* plugin: how executing a command ended
  lastRun        \* history: last command executed with success, per owner

commands == <<lastCmd, owner, status, confirmations>>
plugin   == <<inbox, outcome, lastRun>>
cmdVars  == <<commands, plugin>>

Cmd     == 1..MaxCmd
Owner   == Channel \X Sender
NoCmd   == 0
NoOwner == << >>

-----------------------------------------------------------------------------
CmdInit ==
  /\ lastCmd = 0
  /\ owner = [n \in Cmd |-> NoOwner]
  /\ status = [n \in Cmd |-> "none"]
  /\ confirmations = [n \in Cmd |-> 0]
  /\ inbox = {}
  /\ outcome = [n \in Cmd |-> "none"]
  /\ lastRun = [o \in Owner |-> NoCmd]

HasPending(o) == \E n \in Cmd : owner[n] = o /\ status[n] = "pending"

(* resetSession and switchSession differ in the payload only.  No await     *)
(* comes between the check and the insert.                                  *)
Enqueue(o) ==
  /\ lastCmd < MaxCmd
  /\ ~HasPending(o)
  /\ lastCmd' = lastCmd + 1
  /\ owner' = [owner EXCEPT ![lastCmd'] = o]
  /\ status' = [status EXCEPT ![lastCmd'] = "pending"]
  /\ UNCHANGED <<confirmations, plugin>>

(* getPending: the channel's oldest pending commands. *)
PendingCommands(c) ==
  LET rows == {n \in Cmd : status[n] = "pending" /\ owner[n][1] = c}
  IN {n \in rows : Cardinality({i \in rows : i < n}) < PendingLimit}

GetPendingCommands(c) ==
  /\ inbox' = inbox \cup {n \in PendingCommands(c) : outcome[n] = "none"}
  /\ inbox' # inbox
  /\ UNCHANGED <<commands, outcome, lastRun>>

(* The plugin acts on a command. *)
Execute(n, result) ==
  /\ n \in inbox
  /\ inbox' = inbox \ {n}
  /\ outcome' = [outcome EXCEPT ![n] = result]
  /\ lastRun' = IF result = "ok" THEN [lastRun EXCEPT ![owner[n]] = n] ELSE lastRun
  /\ UNCHANGED commands

(* Mutant: a repeated acknowledgement fails the command. *)
MutantAck(n, success) ==
  status' = [status EXCEPT ![n] = IF success /\ @ = "pending" THEN "done" ELSE "failed"]

(* Mutant: only a success is written, a failed command stays pending. *)
MutantAckSuccessOnly(n, success) ==
  status' = [status EXCEPT ![n] = IF success THEN "done" ELSE @]

(* Mutant: a status the table does not have. *)
MutantAckName(n, success) ==
  status' = [status EXCEPT ![n] = IF success THEN "acked" ELSE "failed"]

(* sessionCommandStore.ack, whatever status the row has. *)
Ack(n, success) ==
  status' = [status EXCEPT ![n] = IF success THEN "done" ELSE "failed"]

(* An acknowledgement arrives; each successful one is confirmed to the      *)
(* frontend with a system message.                                          *)
AckCommand(n) ==
  /\ outcome[n] # "none"
  /\ confirmations[n] < MaxAck
  /\ Ack(n, outcome[n] = "ok")
  /\ confirmations' = IF outcome[n] = "ok" THEN [confirmations EXCEPT ![n] = @ + 1]
                      ELSE confirmations
  /\ UNCHANGED <<lastCmd, owner, plugin>>

(* listSessions: of a sender's commands that are done, the last created is  *)
(* the current session.                                                     *)
DoneOf(o) == {n \in Cmd : owner[n] = o /\ status[n] = "done"}
IsCurrent(o, n) == n \in DoneOf(o) /\ \A i \in DoneOf(o) : i <= n

CmdNext ==
  \/ \E o \in Owner : Enqueue(o)
  \/ \E c \in Channel : GetPendingCommands(c)
  \/ \E n \in Cmd :
       \/ \E result \in {"ok", "error"} : Execute(n, result)
       \/ AckCommand(n)

(* A plugin that keeps polling, executing and acknowledging. *)
CmdFairness ==
  /\ \A c \in Channel : WF_cmdVars(GetPendingCommands(c))
  /\ \A n \in Cmd :
       /\ WF_cmdVars(\E result \in {"ok", "error"} : Execute(n, result))
       /\ WF_cmdVars(AckCommand(n))

CmdSpec == CmdInit /\ [][CmdNext]_cmdVars /\ CmdFairness

-----------------------------------------------------------------------------
CmdTypeOK ==
  /\ lastCmd \in 0..MaxCmd
  /\ owner \in [Cmd -> Owner \cup {NoOwner}]
  /\ status \in [Cmd -> {"none", "pending", "done", "failed"}]
  /\ confirmations \in [Cmd -> 0..MaxAck]
  /\ inbox \subseteq Cmd
  /\ outcome \in [Cmd -> {"none", "ok", "error"}]
  /\ lastRun \in [Owner -> Cmd \cup {NoCmd}]

(* However frontends race and acknowledgements are delayed or repeated, a   *)
(* sender of a channel has at most one command outstanding.                 *)
OnePendingPerSender ==
  \A i, j \in Cmd :
    i # j /\ owner[i] = owner[j] =>
      ~(status[i] = "pending" /\ status[j] = "pending")

(* With nothing outstanding for a sender, the session the frontend sees as  *)
(* current is the one the plugin entered last.                              *)
CurrentMatchesPlugin ==
  \A o \in Owner :
    ~HasPending(o) =>
      IF lastRun[o] = NoCmd THEN DoneOf(o) = {} ELSE IsCurrent(o, lastRun[o])

(* The current session never goes back to an older one.                     *)
CurrentNeverGoesBack ==
  [][\A o \in Owner, n \in Cmd : IsCurrent(o, n) => \E i \in DoneOf(o)' : i >= n]_cmdVars

(* A queued command does not block its sender's next one for ever.          *)
PendingGetsSettled ==
  \A n \in Cmd : status[n] = "pending" ~> status[n] \in {"done", "failed"}
=============================================================================
