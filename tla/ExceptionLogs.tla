--------------------------- MODULE ExceptionLogs ---------------------------
(***************************************************************************)
(* ExceptionLog: rows written for errors nobody expected, worked on and     *)
(* deleted in the portal.  A row may be deleted once it is RESOLVED and 30  *)
(* days old; like an update, a deletion checks the row with one query and   *)
(* changes it with another, by id alone.                                    *)
(***************************************************************************)
EXTENDS FiniteSets

CONSTANTS
  Logs,      \* rows, numbered by whatever the database numbers them with
  Clerks     \* portal sessions, one request at a time each

Statuses == {"OPEN", "IN_PROGRESS", "RESOLVED"}
NoLog == [none |-> TRUE]
NoTask == [none |-> TRUE]

VARIABLES
  logs,     \* row -> its contents, or NoLog
  task,     \* clerk -> the request that has passed its check
  sheet,    \* clerk -> the row open in the portal, as it was loaded
  overlap   \* history: rows changed by a request that overlapped another one

logVars == <<logs, task, sheet, overlap>>

Rows == [status : Statuses, old : BOOLEAN, deleted : BOOLEAN]

LogsTypeOK ==
  /\ logs \in [Logs -> Rows \cup {NoLog}]
  /\ task \in [Clerks -> [what : {"update", "delete"}, log : Logs, status : Statuses] \cup {NoTask}]
  /\ sheet \in [Clerks -> [log : Logs, row : Rows] \cup {NoTask}]
  /\ overlap \subseteq Logs

LogsInit ==
  /\ logs = [l \in Logs |-> NoLog]
  /\ task = [c \in Clerks |-> NoTask] /\ sheet = task
  /\ overlap = {}

\* An error that is no HttpException reaches ApiExceptionFilter, or a worker
\* reports one, and captureApiException or captureWorkerException stores a row.
\* Expected errors leave none, and createSafely keeps a failing insert to itself.
Capture(l) ==
  /\ logs[l] = NoLog
  /\ logs' = [logs EXCEPT ![l] = [status |-> "OPEN", old |-> FALSE, deleted |-> FALSE]]
  /\ UNCHANGED <<task, sheet, overlap>>

\* Thirty days pass for this row.
Age(l) ==
  /\ logs[l] # NoLog /\ ~logs[l].old
  /\ logs' = [logs EXCEPT ![l].old = TRUE]
  /\ UNCHANGED <<task, sheet, overlap>>

----------------------------------------------------------------------------
(* Requests *)

\* findDeleteTarget and findOne see no deleted row.
Visible(l) == logs[l] # NoLog /\ ~logs[l].deleted

Busy(l, c) == \E d \in Clerks \ {c} : task[d] # NoTask /\ task[d].log = l

\* The portal loads a row.
Open(c, l) ==
  /\ Visible(l)
  /\ sheet' = [sheet EXCEPT ![c] = [log |-> l, row |-> logs[l]]]
  /\ UNCHANGED <<logs, task, overlap>>

Begin(c, what, l, status) ==
  /\ task[c] = NoTask
  /\ task' = [task EXCEPT ![c] = [what |-> what, log |-> l, status |-> status]]
  /\ UNCHANGED <<logs, sheet, overlap>>

\* ExceptionLogService.update: ensureActive.
CheckUpdate(c, l, status) == Visible(l) /\ Begin(c, "update", l, status)

\* A cell of the status column is edited, of a list that may be out of date.
Edit(c, l) == \E status \in Statuses : CheckUpdate(c, l, status)

\* Mutant of Deletable: the status is not asked for.
DeletableOld(row) == row.old

\* RESOLVED, and older than SOFT_DELETE_MIN_AGE_DAYS.
Deletable(row) == row.status = "RESOLVED" /\ row.old

\* The portal's canDelete looks at the row as it was loaded; softDelete looks again.
CheckDelete(c) ==
  /\ sheet[c] # NoTask /\ Deletable(sheet[c].row)
  /\ Visible(sheet[c].log) /\ Deletable(logs[sheet[c].log])
  /\ Begin(c, "delete", sheet[c].log, "RESOLVED")

\* What a write of clerk c leaves: it overlaps if another request is under way.
Written(c, row) ==
  /\ logs' = [logs EXCEPT ![task[c].log] = row]
  /\ overlap' = IF Busy(task[c].log, c) THEN overlap \cup {task[c].log} ELSE overlap
  /\ task' = [task EXCEPT ![c] = NoTask]

\* repository.update and softDelete find the row by its id, deleted or not.
Update(c) ==
  /\ task[c] # NoTask /\ task[c].what = "update"
  /\ Written(c, [logs[task[c].log] EXCEPT !.status = task[c].status])
  /\ UNCHANGED sheet

SoftDelete(c) ==
  /\ task[c] # NoTask /\ task[c].what = "delete"
  /\ Written(c, [logs[task[c].log] EXCEPT !.deleted = TRUE])
  /\ sheet' = [sheet EXCEPT ![c] = NoTask]

\* The second query fails, or the process dies between the two.
Dropped(c) ==
  /\ task[c] # NoTask
  /\ task' = [task EXCEPT ![c] = NoTask]
  /\ UNCHANGED <<logs, sheet, overlap>>

LogsNext ==
  \/ \E l \in Logs : Capture(l) \/ Age(l)
  \/ \E c \in Clerks :
       \/ \E l \in Logs : Open(c, l) \/ Edit(c, l)
       \/ CheckDelete(c) \/ Update(c) \/ SoftDelete(c) \/ Dropped(c)

LogsSpec == LogsInit /\ [][LogsNext]_logVars

----------------------------------------------------------------------------
(* Properties *)

\* A deleted row is RESOLVED and old, unless an update and the deletion of it
\* overlapped: only then can a row that was opened again be gone.
DeletedIsDone ==
  \A l \in Logs :
    logs[l] # NoLog /\ logs[l].deleted
      => logs[l].old /\ (logs[l].status = "RESOLVED" \/ l \in overlap)
=============================================================================
