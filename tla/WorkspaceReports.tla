--------------------------- MODULE WorkspaceReports ---------------------------
(***************************************************************************)
(* The reports of the command line about a workspace: claw doctor, claw    *)
(* status, /diff and the config report (rusty-claude-cli/src/main.rs) with *)
(* the base commit check of runtime/src/stale_base.rs.                     *)
(*                                                                         *)
(* A report is put together from settings, git commands and tmux, one      *)
(* reading after the other, while the user, other agents and editors go on *)
(* changing the workspace: each reading is an action of its own.           *)
(***************************************************************************)
EXTENDS Naturals, Sequences, FiniteSets, FiniteSetsExt, TLC

CONSTANT MaxWorkspaceChanges    \* bound: changes of the workspace and machine

VARIABLES
    tree,       \* the git work tree: [repo, files, upstream, behind, branch, head, base]
    settings,   \* the settings files: "none", "good", "nosandbox" or "broken"
    panes,      \* the panes of tmux, in its order
    machine,    \* [key, creds, tmux, namespaces]: environment and programs
    report,     \* the report that is being put together, or the last one
    quiet,      \* ghost: nothing has changed since the report was begun
    wsChanges   \* changes counted against the bound

reportVars == <<tree, settings, panes, machine, report, quiet, wsChanges>>

WorkFiles == {"f", "g"}
Clean == <<" ", " ">>       \* a file git status does not list
Untracked == <<"?", "?">>
FileStates == {Clean, Untracked, <<"M", " ">>, <<" ", "M">>, <<"U", "U">>, <<"A", "A">>, <<"D", "D">>}

ReportKinds == {"doctor", "status", "diff", "config"}
NoReport == [kind |-> "none", pc |-> "done"]

ReportInit ==
    /\ tree = [repo |-> TRUE, files |-> [f \in WorkFiles |-> Clean], upstream |-> "origin",
               behind |-> 0, branch |-> "main", head |-> 1, base |-> 1]
    /\ settings = "good"
    /\ panes \in {<<>>, <<[inside |-> TRUE, command |-> "bash"]>>}
    /\ machine = [key |-> TRUE, creds |-> "none", tmux |-> TRUE, namespaces |-> TRUE]
    /\ report = NoReport
    /\ quiet = TRUE
    /\ wsChanges = 0

-----------------------------------------------------------------------------
(* What one git or tmux command tells.  NoReading is a command that failed. *)

NoReading == <<>>

\* git status --short --branch; its lines are the files that are not clean.
read_git_status == IF tree.repo THEN <<tree>> ELSE NoReading

\* git status --porcelain
git_worktree_is_dirty == tree.repo /\ \E f \in WorkFiles : tree.files[f] # Clean

\* git branch --show-current, and rev-parse for a detached head.
resolve_git_branch_for == IF tree.repo THEN <<tree.branch>> ELSE NoReading

find_git_root_in == tree.repo

discover_tmux_panes == IF machine.tmux THEN panes ELSE <<>>

-----------------------------------------------------------------------------
(* What is made of it. *)

\* The first line of the status is "## branch...upstream [ahead n, behind n]",
\* or "[gone]" for an upstream that was deleted, which is no number.
BranchFreshness_from_git_status(status) ==
    IF status = NoReading \/ status[1].upstream = "none"
    THEN [upstream |-> NoReading, behind |-> 0, fresh |-> NoReading]
    ELSE LET behind == IF status[1].upstream = "gone" THEN 0 ELSE status[1].behind
         IN  [upstream |-> <<status[1].upstream>>, behind |-> behind, fresh |-> <<behind = 0>>]

\* A line counts once as changed and by its two letters as staged, unstaged,
\* untracked and conflicted.  Without a status nothing has changed.
parse_git_workspace_summary(status) ==
    LET Lines == IF status = NoReading THEN {}
                 ELSE {f \in WorkFiles : status[1].files[f] # Clean}
        Tracked == {f \in Lines : status[1].files[f] # Untracked}
        State(f) == status[1].files[f]
        Conflicted(f) == State(f)[1] = "U" \/ State(f)[2] = "U"
                         \/ (State(f)[1] = "A" /\ State(f)[2] = "A")
    IN  [changed |-> Cardinality(Lines),
         untracked |-> Cardinality(Lines \ Tracked),
         staged |-> Cardinality({f \in Tracked : State(f)[1] # " "}),
         unstaged |-> Cardinality({f \in Tracked : State(f)[2] # " "}),
         conflicted |-> Cardinality({f \in Tracked : Conflicted(f)})]

parse_git_status_branch(status) == IF status = NoReading THEN NoReading ELSE <<status[1].branch>>

check_base_commit(t) ==
    CASE t.base = 0 -> "no_expected_base"
      [] t.base # 0 /\ ~t.repo -> "not_git_repo"
      [] OTHER -> IF t.head = t.base THEN "matches" ELSE "diverged"

format_stale_base_warning(state) == state \in {"diverged", "not_git_repo"}

is_idle_shell_command(command) == command = "bash"

\* Mutant: a shell that comes before the running process hides it.
classify_session_lifecycle_from_panes_first(ps, dirty) ==
    LET Here == {i \in DOMAIN ps : ps[i].inside}
    IN  IF Here = {}
        THEN [kind |-> "saved_only", pane |-> NoReading, dirty |-> dirty, abandoned |-> dirty]
        ELSE IF is_idle_shell_command(ps[Min(Here)].command)
        THEN [kind |-> "idle_shell", pane |-> <<Min(Here)>>, dirty |-> dirty, abandoned |-> dirty]
        ELSE [kind |-> "running_process", pane |-> <<Min(Here)>>, dirty |-> dirty, abandoned |-> FALSE]

\* The first pane of the workspace that runs something, else its first shell.
classify_session_lifecycle_from_panes(ps, dirty) ==
    LET Here == {i \in DOMAIN ps : ps[i].inside}
        Busy == {i \in Here : ~is_idle_shell_command(ps[i].command)}
    IN  IF Busy # {} THEN [kind |-> "running_process", pane |-> <<Min(Busy)>>,
                           dirty |-> dirty, abandoned |-> FALSE]
        ELSE IF Here # {} THEN [kind |-> "idle_shell", pane |-> <<Min(Here)>>,
                                dirty |-> dirty, abandoned |-> dirty]
        ELSE [kind |-> "saved_only", pane |-> NoReading, dirty |-> dirty, abandoned |-> dirty]

\* resolve_sandbox_status with the loaded settings, or with the default ones.
resolve_sandbox_status(loaded) ==
    LET enabled == loaded # "nosandbox"
    IN  [enabled |-> enabled, active |-> enabled /\ machine.namespaces]

build_boot_preflight_snapshot(loaded, root, status) ==
    [repo_exists |-> root, worktree_exists |-> tree.repo,
     freshness |-> BranchFreshness_from_git_status(status),
     trust |-> IF loaded = "broken" THEN NoReading ELSE <<loaded = "good">>,
     binaries |-> machine.tmux,
     eligible |-> loaded # "broken"]

-----------------------------------------------------------------------------
(* The checks of the doctor. *)

check_auth_health ==
    CASE machine.creds = "unreadable" -> "fail"
      [] OTHER -> IF machine.key THEN "ok" ELSE "warn"

check_config_health(loaded) == IF loaded = "broken" THEN "fail" ELSE "ok"

check_install_source_health == "ok"

check_workspace_health(r) ==
    IF r.root /\ ~format_stale_base_warning(r.base) THEN "ok" ELSE "warn"

check_boot_preflight_health(p) ==
    IF p.repo_exists /\ p.worktree_exists /\ p.binaries THEN "ok" ELSE "warn"

check_sandbox_health(s) == IF s.enabled /\ ~s.active THEN "warn" ELSE "ok"

check_system_health == "ok"

render_doctor_report(r, sandbox) ==
    <<check_auth_health, check_config_health(r.config), check_install_source_health,
      check_workspace_health(r), check_boot_preflight_health(r.preflight),
      check_sandbox_health(sandbox), check_system_health>>

DoctorCount(checks, level) == Cardinality({i \in DOMAIN checks : checks[i] = level})

-----------------------------------------------------------------------------
(* Putting a report together. *)

Keep == UNCHANGED <<tree, settings, panes, machine, quiet, wsChanges>>

Reading(pc) == report.pc = pc /\ report.kind \in {"doctor", "status"}

BeginReport(kind) ==
    /\ report.pc = "done" /\ wsChanges < MaxWorkspaceChanges
    /\ report' = [kind |-> kind, pc |-> CASE kind = "diff" -> "inside" [] kind = "config" -> "merge"
                                          [] OTHER -> "settings"]
    /\ quiet' = TRUE
    /\ UNCHANGED <<tree, settings, panes, machine, wsChanges>>

\* The settings are loaded; the status report resolves its sandbox at once.
ReadSettings ==
    /\ Reading("settings")
    /\ report' = [kind |-> report.kind, pc |-> "context", config |-> settings,
                  sandbox |-> resolve_sandbox_status(settings)]
    /\ Keep

ReadContext ==
    /\ Reading("context")
    /\ report' = [pc |-> "branch", status |-> read_git_status] @@ report
    /\ Keep

ReadBranch ==
    /\ Reading("branch")
    /\ report' = [pc |-> "root",
                  branch |-> IF resolve_git_branch_for # NoReading THEN resolve_git_branch_for
                             ELSE parse_git_status_branch(report.status)] @@ report
    /\ Keep

ReadRoot ==
    /\ Reading("root")
    /\ report' = [pc |-> "base", root |-> find_git_root_in,
                  summary |-> parse_git_workspace_summary(report.status),
                  freshness |-> BranchFreshness_from_git_status(report.status)] @@ report
    /\ Keep

ReadBase ==
    /\ Reading("base")
    /\ report' = [pc |-> "preflight", base |-> check_base_commit(tree)] @@ report
    /\ Keep

ReadPreflight ==
    /\ Reading("preflight")
    /\ report' = [pc |-> "panes", preflight |-> build_boot_preflight_snapshot(
                                        report.config, report.root, report.status)] @@ report
    /\ Keep

ReadPanes ==
    /\ Reading("panes")
    /\ report' = [pc |-> "dirty", panes |-> discover_tmux_panes] @@ report
    /\ Keep

ReadDirty ==
    /\ Reading("dirty")
    /\ report' = [pc |-> "finish", lifecycle |-> classify_session_lifecycle_from_panes(
                                        report.panes, git_worktree_is_dirty)] @@ report
    /\ Keep

\* The doctor resolves the sandbox and reads the credentials last, and ends
\* with an error when a check failed.
FinishDoctor ==
    /\ Reading("finish") /\ report.kind = "doctor"
    /\ LET sandbox == resolve_sandbox_status(report.config)
           checks == render_doctor_report(report, sandbox)
       IN  report' = [pc |-> "done", sandbox |-> sandbox, checks |-> checks,
                      exit |-> IF \E i \in DOMAIN checks : checks[i] = "fail" THEN 1 ELSE 0] @@ report
    /\ Keep

\* The status report is degraded, not refused, when the settings do not load.
FinishStatus ==
    /\ Reading("finish") /\ report.kind = "status"
    /\ report' = [pc |-> "done", degraded |-> report.config = "broken", exit |-> 0] @@ report
    /\ Keep

\* /diff: three commands; the index and the work tree may change in between.
DiffInside ==
    /\ report.kind = "diff" /\ report.pc = "inside"
    /\ report' = IF tree.repo THEN [kind |-> "diff", pc |-> "staged"]
                 ELSE [kind |-> "diff", pc |-> "done", result |-> "no_git_repo"]
    /\ Keep

TrackedWith(k) == {f \in WorkFiles : tree.files[f] # Untracked /\ tree.files[f][k] # " "}

DiffStaged ==
    /\ report.kind = "diff" /\ report.pc = "staged"
    /\ report' = IF tree.repo THEN [kind |-> "diff", pc |-> "unstaged", staged |-> TrackedWith(1)]
                 ELSE [kind |-> "diff", pc |-> "done", result |-> "error"]
    /\ Keep

DiffUnstaged ==
    /\ report.kind = "diff" /\ report.pc = "unstaged"
    /\ report' = [kind |-> "diff", pc |-> "done",
                  result |-> CASE ~tree.repo -> "error"
                               [] tree.repo /\ report.staged = {} /\ TrackedWith(2) = {} -> "clean"
                               [] OTHER -> "changes"]
    /\ Keep

\* The config report, unlike doctor and status, refuses settings that do not load.
ConfigReport ==
    /\ report.kind = "config" /\ report.pc = "merge"
    /\ report' = [kind |-> "config", pc |-> "done",
                  result |-> IF settings = "broken" THEN "error" ELSE "merged",
                  loaded |-> settings \in {"good", "nosandbox"}]
    /\ Keep

-----------------------------------------------------------------------------
(* The workspace and the machine change. *)

Changed ==
    /\ wsChanges < MaxWorkspaceChanges
    /\ wsChanges' = wsChanges + 1
    /\ quiet' = FALSE
    /\ UNCHANGED report

ChangeTree ==
    /\ Changed
    /\ \/ \E f \in WorkFiles : \E s \in FileStates \ {tree.files[f]} : tree' = [tree EXCEPT !.files[f] = s]
       \/ tree' = [tree EXCEPT !.head = @ + 1]
       \/ tree' = [tree EXCEPT !.base = 0]
       \/ tree' = [tree EXCEPT !.behind = 1 - @]
       \/ \E u \in {"none", "gone"} : tree' = [tree EXCEPT !.upstream = u]
       \/ tree' = [tree EXCEPT !.branch = "detached HEAD"]
       \/ tree' = [tree EXCEPT !.repo = ~@]
    /\ UNCHANGED <<settings, panes, machine>>

ChangePanes ==
    /\ Changed
    /\ \/ \E p \in [inside : BOOLEAN, command : {"bash", "claw"}] :
            Len(panes) < 2 /\ panes' = Append(panes, p)
       \/ panes # <<>> /\ panes' = Tail(panes)
    /\ UNCHANGED <<tree, settings, machine>>

ChangeMachine ==
    /\ Changed
    /\ \/ \E s \in {"none", "nosandbox", "broken"} : settings' = s /\ UNCHANGED machine
       \/ \E c \in {"legacy", "unreadable"} : machine' = [machine EXCEPT !.creds = c] /\ UNCHANGED settings
       \/ machine' = [machine EXCEPT !.key = FALSE] /\ UNCHANGED settings
       \/ machine' = [machine EXCEPT !.tmux = FALSE] /\ UNCHANGED settings
       \/ machine' = [machine EXCEPT !.namespaces = FALSE] /\ UNCHANGED settings
    /\ UNCHANGED <<tree, panes>>

ReportNext ==
    \/ \E kind \in ReportKinds : BeginReport(kind)
    \/ ReadSettings \/ ReadContext \/ ReadBranch \/ ReadRoot \/ ReadBase \/ ReadPreflight
    \/ ReadPanes \/ ReadDirty \/ FinishDoctor \/ FinishStatus
    \/ DiffInside \/ DiffStaged \/ DiffUnstaged \/ ConfigReport
    \/ ChangeTree \/ ChangePanes \/ ChangeMachine

-----------------------------------------------------------------------------
Reported(kinds) == report.kind \in kinds /\ report.pc = "done"

\* In a report nothing interfered with, what separate commands told agrees:
\* the work tree is dirty exactly when files are listed as changed, the
\* repository and its work tree are both there or not, the branch is known
\* in a repository, and a branch behind its upstream is not called fresh.
QuietReportsAgree ==
    Reported({"doctor", "status"}) /\ quiet =>
        /\ report.lifecycle.dirty <=> report.summary.changed > 0
        /\ report.root = report.preflight.worktree_exists
        /\ report.root <=> report.branch # NoReading
        /\ report.freshness = report.preflight.freshness
        /\ report.freshness.fresh = <<TRUE>> => tree.behind = 0 \/ tree.upstream = "gone"
        /\ report.root => report.base # "not_git_repo"

\* A workspace is called abandoned only if no process was running in it and
\* it was dirty when that was read.
AbandonedMeansIdle ==
    Reported({"doctor", "status"}) /\ report.lifecycle.abandoned =>
        /\ report.lifecycle.dirty
        /\ ~\E i \in DOMAIN report.panes : report.panes[i].inside /\ report.panes[i].command = "claw"

\* Every file of the summary is untracked or on one side of the index, and a
\* conflict is on both: it is counted as staged and as unstaged too.
SummaryAddsUp ==
    Reported({"doctor", "status"}) =>
        LET s == report.summary IN
        /\ s.changed <= s.untracked + s.staged + s.unstaged
        /\ s.conflicted <= s.staged /\ s.conflicted <= s.unstaged
        /\ s.changed + s.conflicted <= s.untracked + s.staged + s.unstaged

\* The doctor fails exactly for settings or credentials it cannot read, its
\* counts cover every check, and settings that do not load leave trust
\* unknown and nothing eligible, in both reports.
FailuresAreReported ==
    /\ Reported({"doctor"}) =>
          /\ (report.exit = 1) <=> (DoctorCount(report.checks, "fail") > 0)
          /\ quiet => ((report.exit = 1) <=> (settings = "broken" \/ machine.creds = "unreadable"))
          /\ DoctorCount(report.checks, "ok") + DoctorCount(report.checks, "warn")
             + DoctorCount(report.checks, "fail") = Len(report.checks)
    /\ Reported({"doctor", "status"}) /\ report.config = "broken" =>
          report.preflight.trust = NoReading /\ ~report.preflight.eligible /\ report.sandbox.enabled
    /\ Reported({"status"}) => (report.degraded <=> ~report.preflight.eligible)

\* A diff that was not interfered with calls the tree clean exactly when no
\* tracked file differs; new files do not count, which the status report does.
DiffIsOfTrackedFiles ==
    Reported({"diff"}) /\ quiet =>
        /\ report.result = "clean" <=> (tree.repo /\ \A f \in WorkFiles : tree.files[f] \in {Clean, Untracked})
        /\ report.result # "error"

\* The reports of the command line: readings agree when nothing interferes,
\* nothing is called abandoned that runs, sums add up, failures show.
WorkspaceReportsSound == QuietReportsAgree /\ AbandonedMeansIdle /\ SummaryAddsUp
                         /\ FailuresAreReported /\ DiffIsOfTrackedFiles
=============================================================================
