------------------------------- MODULE TaskLog -------------------------------
(***************************************************************************)
(* What the audit log of a task promises: results are appended, never      *)
(* changed, and a seal names the last of them and how many there are, after*)
(* which nothing is appended.                                              *)
(***************************************************************************)
EXTENDS Integers, Sequences

CONSTANTS
  LogTasks,    \* the tasks whose log is promised
  Results,     \* results of skill invocations
  Genesis,     \* what a seal names when nothing was logged
  NoSeal

VARIABLES
  log,         \* what each task logged, in order
  sealed       \* the last result and their number, or NoSeal

logVars == <<log, sealed>>

LastOf(entries) == IF entries = <<>> THEN Genesis ELSE entries[Len(entries)]

LogInit ==
  /\ log = [t \in LogTasks |-> <<>>]
  /\ sealed = [t \in LogTasks |-> NoSeal]

LogResult(t, r) ==
  /\ sealed[t] = NoSeal
  /\ log' = [log EXCEPT ![t] = Append(@, r)]
  /\ UNCHANGED sealed

SealLog(t) ==
  /\ sealed[t] = NoSeal
  /\ sealed' = [sealed EXCEPT ![t] = [final |-> LastOf(log[t]), count |-> Len(log[t])]]
  /\ UNCHANGED log

LogNext == \E t \in LogTasks : SealLog(t) \/ \E r \in Results : LogResult(t, r)

LogSpec == LogInit /\ [][LogNext]_logVars
=============================================================================
