--------------------------- MODULE TaskRegistries ---------------------------
(***************************************************************************)
(* TaskRegistry and TeamRegistry (runtime/src/task_registry.rs,             *)
(* task_packet.rs, team_cron_registry.rs) behind the tools that use them    *)
(* (tools/src/lib.rs).  Each registry has a mutex of its own.  A call of a  *)
(* registry is atomic, a tool that makes several calls is not: TeamCreate   *)
(* registers the team and then assigns its tasks one by one, while other    *)
(* sessions of the process stop, remove or reassign them.                   *)
(***************************************************************************)
EXTENDS Naturals, Sequences, FiniteSets, FiniteSetsExt

CONSTANTS
  TaskIds, TeamIds,    \* ids; create() draws fresh ones
  NoTeam,              \* Task::team_id = None
  MaxTaskMessages      \* bound on the messages and outputs of all tasks together

ASSUME TaskAssumption == NoTeam \notin TeamIds

VARIABLES
  tasks,      \* RegistryInner::tasks
  teams,      \* TeamInner::teams
  creating,   \* per team, the task ids TeamCreate has still to assign
  born        \* history: ids handed out, by either registry

taskVars == <<tasks, teams, creating, born>>

TaskStatus == {"Created", "Running", "Completed", "Failed", "Stopped"}
TeamStatus == {"Created", "Running", "Completed", "Deleted"}
TerminalTask == {"Completed", "Failed", "Stopped"}
NoTask == [status |-> "None"]
Task == [status : TaskStatus, messages : Nat, output : BOOLEAN,
         team_id : TeamIds \cup {NoTeam}]
NoTeamEntry == [status |-> "None"]
Team == [status : TeamStatus, task_ids : SUBSET TaskIds]

TaskInit ==
  /\ tasks = [t \in TaskIds |-> NoTask]
  /\ teams = [m \in TeamIds |-> NoTeamEntry]
  /\ creating = [m \in TeamIds |-> {}]
  /\ born = {}

\* A packet is a set of defects: the required fields left blank, a scope that
\* needs a path and has none, an acceptance test that is blank.
PacketDefects == {"required_field", "scope_path", "acceptance_test"}
validate_packet(defects) == defects = {}

create_task(t) ==
  /\ t \notin born
  /\ tasks' = [tasks EXCEPT ![t] = [status |-> "Created", messages |-> 0,
                                    output |-> FALSE, team_id |-> NoTeam]]
  /\ born' = born \cup {t}
  /\ UNCHANGED <<teams, creating>>

create_from_packet(t, defects) == validate_packet(defects) /\ create_task(t)

task_stop(t) ==
  /\ tasks[t] # NoTask /\ tasks[t].status \notin TerminalTask
  /\ tasks' = [tasks EXCEPT ![t].status = "Stopped"]
  /\ UNCHANGED <<teams, creating, born>>

\* Messages and outputs, held against the bound.
Received(t) == IF tasks[t] = NoTask THEN 0
               ELSE tasks[t].messages + (IF tasks[t].output THEN 1 ELSE 0)
MayReceive == MapThenSumSet(Received, TaskIds) < MaxTaskMessages

\* A message is taken in every status.
task_update(t) ==
  /\ tasks[t] # NoTask /\ MayReceive
  /\ tasks' = [tasks EXCEPT ![t].messages = @ + 1]
  /\ UNCHANGED <<teams, creating, born>>

append_output(t) ==
  /\ tasks[t] # NoTask /\ MayReceive
  /\ tasks' = [tasks EXCEPT ![t].output = TRUE]
  /\ UNCHANGED <<teams, creating, born>>

\* Unconditional: it also leaves a terminal status.
set_status(t, status) ==
  /\ tasks[t] # NoTask
  /\ tasks' = [tasks EXCEPT ![t].status = status]
  /\ UNCHANGED <<teams, creating, born>>

task_remove(t) ==
  /\ tasks' = [tasks EXCEPT ![t] = NoTask]
  /\ UNCHANGED <<teams, creating, born>>

\* TeamCreate, first half.  A caller names ids it was given; nothing asks whether
\* their tasks are still there.
team_create(m, ids) ==
  /\ m \notin born /\ ids \subseteq born
  /\ teams' = [teams EXCEPT ![m] = [status |-> "Created", task_ids |-> ids]]
  /\ creating' = [creating EXCEPT ![m] = ids]
  /\ born' = born \cup {m}
  /\ UNCHANGED tasks

\* Mutant: the first task assigned ends the loop.
assign_team_once(m, t) ==
  /\ t \in creating[m]
  /\ creating' = [creating EXCEPT ![m] = {}]
  /\ tasks' = IF tasks[t] = NoTask THEN tasks ELSE [tasks EXCEPT ![t].team_id = m]
  /\ UNCHANGED <<teams, born>>

\* TeamCreate, second half; that the task is unknown is ignored.
assign_team(m, t) ==
  /\ t \in creating[m]
  /\ creating' = [creating EXCEPT ![m] = @ \ {t}]
  /\ tasks' = IF tasks[t] = NoTask THEN tasks ELSE [tasks EXCEPT ![t].team_id = m]
  /\ UNCHANGED <<teams, born>>

\* TeamDelete: the entry stays, marked; its tasks keep pointing at it.
team_delete(m) ==
  /\ teams[m] # NoTeamEntry
  /\ teams' = [teams EXCEPT ![m].status = "Deleted"]
  /\ UNCHANGED <<tasks, creating, born>>

\* What the tools TaskCreate, RunTaskPacket, TaskStop and TaskUpdate call; TaskGet,
\* TaskList and TaskOutput only read.
TaskTools(t) ==
  \/ create_task(t) \/ task_stop(t) \/ task_update(t)
  \/ \E defects \in SUBSET PacketDefects : create_from_packet(t, defects)

TaskNext ==
  \/ \E t \in TaskIds :
       \/ TaskTools(t) \/ append_output(t) \/ task_remove(t)
       \/ \E status \in TaskStatus : set_status(t, status)
  \/ \E m \in TeamIds :
       \/ \E ids \in SUBSET TaskIds : team_create(m, ids)
       \/ \E t \in TaskIds : assign_team(m, t)
       \/ team_delete(m)

-----------------------------------------------------------------------------
(* Properties *)

TaskTypeOK ==
  /\ tasks \in [TaskIds -> Task \cup {NoTask}]
  /\ teams \in [TeamIds -> Team \cup {NoTeamEntry}]
  /\ creating \in [TeamIds -> SUBSET TaskIds]

\* The team a task names lists the task, however TeamCreate and TeamDelete calls
\* of several sessions overlap.
TaskNamesItsTeam ==
  \A t \in TaskIds : tasks[t] # NoTask /\ tasks[t].team_id # NoTeam =>
    /\ teams[tasks[t].team_id] # NoTeamEntry
    /\ t \in teams[tasks[t].team_id].task_ids

\* Once TeamCreate is through, every task it listed and that is still there has a
\* team: this one, or one that claimed the task as well.
TeamClaimsItsTasks ==
  \A m \in TeamIds : teams[m] # NoTeamEntry /\ creating[m] = {} =>
    \A t \in teams[m].task_ids : tasks[t] # NoTask => tasks[t].team_id # NoTeam

\* A task names the team that claims it and a team claims tasks that name it,
\* through creation, deletion and the moments between the two registries' locks.
TaskRegistriesSound ==
  /\ TaskTypeOK
  /\ TaskNamesItsTeam
  /\ TeamClaimsItsTasks

=============================================================================
