---------------------------- MODULE CliSessions -----------------------------
(***************************************************************************)
(* The interactive command line (LiveCli in rusty-claude-cli/src/main.rs)   *)
(* over the sessions of its workspace (runtime/src/session_control.rs): the *)
(* turns it runs, the commands that leave one session for another, and the  *)
(* files they are kept in.  A command that returns an error ends the        *)
(* process, and the process may be killed at any moment.                    *)
(*                                                                          *)
(* Path i > 0 is the managed file of session i; path 0 is a session file    *)
(* under a name that is nobody's id, brought in by the user.                *)
(***************************************************************************)
EXTENDS Naturals, FiniteSets

CONSTANTS
  MaxCliSessions,    \* bound on the sessions started
  MaxCliTurns        \* bound on the turns run

ASSUME CliAssumption == MaxCliSessions \in Nat /\ MaxCliTurns \in Nat

VARIABLES
  session_files,  \* path -> the session kept there, or NoFile
  cli,            \* the process: alive, busy with a turn, active handle, session in memory
  turn_count,     \* turns begun so far, the clock of updated_at_ms
  next_session,   \* the id the next new session gets
  kept            \* history: path -> the turns reported as done while it was active

cliVars == <<session_files, cli, turn_count, next_session, kept>>

CliPaths == 0..MaxCliSessions
Latest == MaxCliSessions + 1   \* the alias latest, which is no path
NoFile == [sid |-> 0, turns |-> {}, summary |-> {}, root |-> "none", updated |-> 0]
SessionAt(sid, turns, root, updated) ==
  [sid |-> sid, turns |-> turns, summary |-> {}, root |-> root, updated |-> updated]

Existing == {p \in CliPaths : session_files[p] # NoFile}
session_id_from_path(p) == p

-----------------------------------------------------------------------------
(* SessionStore *)

\* A session without a workspace root is taken when its file is in the workspace.
validate_loaded_session(p) == session_files[p].root \in {"here", "unset"}

collect_sessions_from_dir == {p \in Existing : validate_loaded_session(p)}

\* The sessions no other was updated after; equal times leave it to the file's.
latest_session ==
  {p \in collect_sessions_from_dir : \A q \in collect_sessions_from_dir :
                           session_files[q].updated <= session_files[p].updated}

\* What a reference stands for: a file by its name or path, or the latest.
resolve_reference(ref) ==
  IF ref = Latest THEN {[id |-> session_files[p].sid, path |-> p] : p \in latest_session}
  ELSE {[id |-> session_id_from_path(p), path |-> p] : p \in Existing \cap {ref}}

load_session(ref) ==
  {[id |-> session_files[h.path].sid, path |-> h.path] :
     h \in {g \in resolve_reference(ref) : validate_loaded_session(g.path)}}

References == {Latest} \cup CliPaths

-----------------------------------------------------------------------------
(* The process *)

NotRunning == [alive |-> FALSE, busy |-> FALSE, id |-> 0, path |-> 0, session |-> NoFile]

CliInit ==
  /\ session_files = [p \in CliPaths |-> NoFile]
  /\ cli = NotRunning
  /\ turn_count = 0
  /\ next_session = 1
  /\ kept = [p \in CliPaths |-> {}]

\* Mutant: the handle is set and the file left for the next turn.
persist_session_lazily(c) ==
  /\ session_files' = IF c.session.turns = {} THEN session_files
                      ELSE [session_files EXCEPT ![c.path] = c.session]

\* Session::save_to_path: the whole session replaces the file.
persist_session(c) == session_files' = [session_files EXCEPT ![c.path] = c.session]

Idle == cli.alive /\ ~cli.busy
Quit == cli' = NotRunning

\* Brings a file in from elsewhere under a name of the user's.
CopyInto(f) ==
  /\ session_files[0] = NoFile
  /\ session_files' = [session_files EXCEPT ![0] = f]
  /\ UNCHANGED <<cli, turn_count, next_session, kept>>

\* LiveCli::new: a fresh session, saved before the first prompt.
StartCli ==
  /\ ~cli.alive /\ next_session <= MaxCliSessions
  /\ next_session' = next_session + 1
  /\ cli' = [alive |-> TRUE, busy |-> FALSE, id |-> next_session, path |-> next_session,
             session |-> SessionAt(next_session, {}, "here", turn_count)]
  /\ persist_session(cli')
  /\ UNCHANGED <<turn_count, kept>>

\* run_turn: the turn runs in a runtime of its own over a copy of the session,
\* whose messages are appended to the file as they come.
TurnBegins ==
  /\ Idle /\ turn_count < MaxCliTurns
  /\ turn_count' = turn_count + 1
  /\ LET stored == IF session_files[cli.path] = NoFile THEN cli.session
                   ELSE session_files[cli.path]
         written == [stored EXCEPT !.turns = @ \cup {turn_count + 1}, !.updated = turn_count + 1]
     IN  session_files' = [session_files EXCEPT ![cli.path] = written]
  /\ cli' = [cli EXCEPT !.busy = TRUE]
  /\ UNCHANGED <<next_session, kept>>

\* The turn's runtime replaces the one before it, and the session is saved.
TurnDone ==
  /\ cli.busy
  /\ cli' = [cli EXCEPT !.busy = FALSE, !.session.turns = @ \cup {turn_count},
                        !.session.updated = turn_count]
  /\ persist_session(cli')
  /\ kept' = [kept EXCEPT ![cli.path] = @ \cup {turn_count}]
  /\ UNCHANGED <<turn_count, next_session>>

\* A failed turn ends the loop of run_repl with its error, and nothing is saved.
TurnFails ==
  /\ cli.busy /\ Quit
  /\ UNCHANGED <<session_files, turn_count, next_session, kept>>

\* /compact: older turns become a summary, and the session is saved.
compact ==
  /\ Idle
  /\ \E last \in cli.session.turns :
       LET old == {t \in cli.session.turns : t < last}
       IN  cli' = [cli EXCEPT !.session.turns = @ \ old, !.session.summary = @ \cup old]
  /\ persist_session(cli')
  /\ UNCHANGED <<turn_count, next_session, kept>>

\* /model, /permissions and /plugins: the runtime is rebuilt over the same
\* session, which is saved.  A mode that is none ends the process.
rebuild_runtime ==
  /\ Idle
  /\ \/ UNCHANGED cli /\ persist_session(cli)
     \/ Quit /\ UNCHANGED session_files
  /\ UNCHANGED <<turn_count, next_session, kept>>

\* /clear --confirm: a new session; the file of the one before stays.
clear_session ==
  /\ Idle /\ next_session <= MaxCliSessions
  /\ next_session' = next_session + 1
  /\ cli' = [cli EXCEPT !.id = next_session, !.path = next_session,
               !.session = SessionAt(next_session, {}, "here", turn_count)]
  /\ persist_session(cli')
  /\ UNCHANGED <<turn_count, kept>>

\* /resume and /session switch: the session of another file; no such session
\* ends the process.
resume_session(ref) ==
  /\ Idle
  /\ \/ \E h \in load_session(ref) :
          cli' = [cli EXCEPT !.id = h.id, !.path = h.path, !.session = session_files[h.path]]
     \/ load_session(ref) = {} /\ Quit
  /\ IF cli'.alive THEN persist_session(cli') ELSE UNCHANGED session_files
  /\ UNCHANGED <<turn_count, next_session, kept>>

\* /session fork: a copy under a new id, saved before it is switched to.
fork_session ==
  /\ Idle /\ next_session <= MaxCliSessions
  /\ next_session' = next_session + 1
  /\ cli' = [cli EXCEPT !.id = next_session, !.path = next_session,
               !.session.sid = next_session, !.session.root = "here",
               !.session.updated = turn_count]
  /\ persist_session(cli')
  /\ UNCHANGED <<turn_count, kept>>

DeletionRefused(h) == h.id = cli.id

\* /session delete: refused for the active session, told by its id.
delete_managed_session(ref) ==
  /\ Idle
  /\ \/ \E h \in resolve_reference(ref) :
          IF DeletionRefused(h) THEN UNCHANGED <<session_files, kept>>
          ELSE /\ session_files' = [session_files EXCEPT ![h.path] = NoFile]
               /\ kept' = [kept EXCEPT ![h.path] = {}]
     \/ resolve_reference(ref) = {} /\ UNCHANGED <<session_files, kept>>
  /\ cli' = IF resolve_reference(ref) = {} THEN NotRunning ELSE cli
  /\ UNCHANGED <<turn_count, next_session>>

\* /exit or the end of input.
ExitRepl ==
  /\ Idle /\ persist_session(cli) /\ Quit
  /\ UNCHANGED <<turn_count, next_session, kept>>

KillCli ==
  /\ cli.alive /\ Quit
  /\ UNCHANGED <<session_files, turn_count, next_session, kept>>

handle_session_command ==
  \/ fork_session
  \/ \E ref \in References : resume_session(ref) \/ delete_managed_session(ref)

\* The commands that change anything; the others only print a report.
handle_repl_command ==
  compact \/ rebuild_runtime \/ clear_session \/ handle_session_command

run_repl == TurnBegins \/ TurnDone \/ TurnFails \/ handle_repl_command \/ ExitRepl

CliNext ==
  \/ \E sid \in 1..(next_session - 1), root \in {"here", "unset", "other"} :
       CopyInto(SessionAt(sid, {}, root, 0))
  \/ StartCli \/ KillCli \/ run_repl

-----------------------------------------------------------------------------
(* Properties *)

CliTypeOK ==
  /\ cli.path \in CliPaths /\ cli.alive \in BOOLEAN /\ (cli.busy => cli.alive)
  /\ \A p \in CliPaths : kept[p] \subseteq 1..MaxCliTurns

\* What was reported as done is never lost: whatever the commands did since, and
\* wherever the process was killed, a turn that completed is in the file that
\* was active, in full or in its summary, until that file is deleted.
NoCompletedTurnLost ==
  \A p \in CliPaths : kept[p] \subseteq session_files[p].turns \cup session_files[p].summary

\* Between two commands the file of the active session holds what memory holds,
\* so that leaving it, in whatever way, loses nothing.  The exception is a
\* session opened under a name that is not its id.
FileIsMemory ==
  Idle /\ session_id_from_path(cli.path) = cli.id => session_files[cli.path] = cli.session

\* Only sessions of this workspace are worked on.
SessionsOfThisWorkspace ==
  cli.alive => cli.session.root \in {"here", "unset"}

\* Resuming the latest session goes back to the one worked on last: no other
\* session of the workspace has a later turn in its file.
LatestIsWorkedOnLast ==
  \A p \in latest_session, q \in collect_sessions_from_dir :
    \A t \in session_files[q].turns : session_files[p].updated >= t

\* The sessions of the interactive CLI survive it: a turn that was completed is
\* on disk, the session in hand is what its file says, only sessions of this
\* workspace are opened, and "latest" is the one worked on last.
CliSessionsSound ==
  /\ CliTypeOK
  /\ NoCompletedTurnLost
  /\ FileIsMemory
  /\ SessionsOfThisWorkspace
  /\ LatestIsWorkedOnLast

-----------------------------------------------------------------------------
(***************************************************************************)
(* claw --resume SESSION /command ... (resume_session and                   *)
(* run_resume_command in rusty-claude-cli/src/main.rs): slash commands run  *)
(* one after the other on a stored session, each on what the one before     *)
(* left; the first that fails ends the process.  A write may fail, and the  *)
(* backup of a cleared session is named after the current millisecond.      *)
(***************************************************************************)

CONSTANTS
  BatchMessages,   \* the messages of the stored session
  MaxCommands,     \* bound on the commands of a batch
  MaxMillis        \* bound on the clock

ASSUME BatchAssumption == MaxMillis \in Nat

VARIABLES
  session_file,        \* the session in the file: its id, messages and summarised messages
  resumed,       \* the session in memory
  clear_backups, \* millisecond -> the messages of the backup with that name
  millis,        \* the clock
  batch,         \* commands run, exit status, and whether two clears met in one millisecond
  exported       \* the messages of the last export

batchVars == <<session_file, resumed, clear_backups, millis, batch, exported>>

BatchSession(sid, msgs) == [sid |-> sid, msgs |-> msgs, summary |-> {}]

\* What each kind of command is in a resumed session.
ReportCommands == {"help", "status", "sandbox", "cost", "config", "mcp", "memory", "diff",
                   "version", "agents", "doctor", "stats", "history", "session list"}
UnsupportedCommands == {"model", "permissions", "session switch", "commit", "skills invoke",
                        "plugins install", "stub", "unknown"}

BatchInit ==
  /\ \E m \in SUBSET BatchMessages : session_file = BatchSession(1, m)
  /\ resumed = session_file
  /\ clear_backups = [t \in 0..MaxMillis |-> {}]
  /\ millis = 0
  /\ batch = [count |-> 0, exit |-> "running", collided |-> FALSE]
  /\ exported = {}

Running == batch.exit = "running" /\ batch.count < MaxCommands
Ran == batch' = [batch EXCEPT !.count = @ + 1]
GivesUp == batch' = [batch EXCEPT !.exit = "2"]

\* The wall clock moves on, or two commands see the same millisecond.
ClockTick ==
  /\ millis < MaxMillis /\ millis' = millis + 1
  /\ UNCHANGED <<session_file, resumed, clear_backups, batch, exported>>

run_report(command) ==
  /\ Running /\ command \in ReportCommands /\ Ran
  /\ UNCHANGED <<session_file, resumed, clear_backups, millis, exported>>

run_unsupported(command) ==
  /\ Running /\ command \in UnsupportedCommands /\ GivesUp
  /\ UNCHANGED <<session_file, resumed, clear_backups, millis, exported>>

\* /compact: older messages become a summary; the result is saved in place.
run_compact(left, writes) ==
  /\ Running /\ left \subseteq resumed.msgs
  /\ LET compacted == [resumed EXCEPT !.msgs = left, !.summary = @ \cup (resumed.msgs \ left)]
     IN  IF writes THEN session_file' = compacted /\ resumed' = compacted /\ Ran
         ELSE GivesUp /\ UNCHANGED <<session_file, resumed>>
  /\ UNCHANGED <<clear_backups, millis, exported>>

\* Mutant: the fresh session is saved before the old one is backed up.
run_clear_order(backs_up, writes) ==
  /\ Running
  /\ IF writes THEN session_file' = BatchSession(resumed.sid + 1, {}) ELSE UNCHANGED session_file
  /\ IF backs_up /\ writes
     THEN /\ clear_backups' = [clear_backups EXCEPT ![millis] = resumed.msgs \cup resumed.summary]
          /\ resumed' = BatchSession(resumed.sid + 1, {})
          /\ batch' = [batch EXCEPT !.count = @ + 1, !.collided = @ \/ clear_backups[millis] # {}]
     ELSE GivesUp /\ UNCHANGED <<clear_backups, resumed>>
  /\ UNCHANGED <<millis, exported>>

\* /clear --confirm: a backup beside the file, then a fresh session in its place.
run_clear(backs_up, writes) ==
  /\ Running
  /\ IF backs_up
     THEN /\ clear_backups' = [clear_backups EXCEPT ![millis] = resumed.msgs \cup resumed.summary]
          /\ IF writes
             THEN /\ session_file' = BatchSession(resumed.sid + 1, {})
                  /\ resumed' = BatchSession(resumed.sid + 1, {})
                  /\ batch' = [batch EXCEPT !.count = @ + 1,
                                            !.collided = @ \/ clear_backups[millis] # {}]
             ELSE /\ batch' = [batch EXCEPT !.exit = "2",
                                            !.collided = @ \/ clear_backups[millis] # {}]
                  /\ UNCHANGED <<session_file, resumed>>
     ELSE GivesUp /\ UNCHANGED <<clear_backups, session_file, resumed>>
  /\ UNCHANGED <<millis, exported>>

run_export(writes) ==
  /\ Running
  /\ IF writes THEN exported' = resumed.msgs /\ Ran ELSE GivesUp /\ UNCHANGED exported
  /\ UNCHANGED <<session_file, resumed, clear_backups, millis>>

\* The end of the commands.
BatchEnds ==
  /\ batch.exit = "running"
  /\ batch' = [batch EXCEPT !.exit = "0"]
  /\ UNCHANGED <<session_file, resumed, clear_backups, millis, exported>>

run_resume_command ==
  \/ \E c \in ReportCommands : run_report(c)
  \/ \E c \in UnsupportedCommands : run_unsupported(c)
  \/ \E w \in BOOLEAN :
       \/ run_export(w)
       \/ \E kept_msgs \in SUBSET BatchMessages : run_compact(kept_msgs, w)
       \/ \E b \in BOOLEAN : run_clear(b, w)

BatchNext == ClockTick \/ run_resume_command \/ BatchEnds

-----------------------------------------------------------------------------
(* Properties *)

\* Each command works on what the one before it left: memory and file agree
\* after every command, the ones that changed the session included.
BatchFileIsMemory == batch.exit # "2" => session_file = resumed

\* Nothing that was in the session is lost by any batch, failed writes
\* included: it is in the file, in its summary or in a backup.  The exception
\* is two clears in one millisecond, which share the name of the backup.
NothingLostByClearing ==
  [][<<session_file, clear_backups>>' # <<session_file, clear_backups>> /\ ~batch'.collided =>
       LET held(s, b) == s.msgs \cup s.summary \cup UNION {b[t] : t \in DOMAIN b}
       IN  held(session_file, clear_backups) \subseteq held(session_file', clear_backups')]_batchVars

\* Commands run on a resumed session keep its file and the memory alike, and
\* clearing never loses a message that no backup holds.
ResumeBatchSound ==
  /\ []BatchFileIsMemory
  /\ NothingLostByClearing
=============================================================================
