------------------------------ MODULE Branches ------------------------------
(***************************************************************************)
(* The freshness of the branch a session works on (stale_branch.rs) and the *)
(* preflight run_bash puts in front of workspace tests (tools/src/lib.rs).  *)
(* The history of main is a line of commits: the remote has main_remote of  *)
(* them, the local main ref main_local, the branch holds the first `base`   *)
(* of them and `own` commits of its own.  Every git command may fail.       *)
(***************************************************************************)
EXTENDS Naturals, Sequences, FiniteSets, SequencesExt

CONSTANTS MaxCommits   \* bound on the commits of each side

VARIABLES
  main_remote, main_local,   \* commits of origin/main and of the local main (0: no such ref)
  base, own,                 \* what the branch has of main, and beside it
  on_main,                   \* is the current branch main itself
  tested_on                  \* history: how workspace tests were let through

freshVars == <<main_remote, main_local, base, own, on_main, tested_on>>

StaleBranchPolicy == {"AutoRebase", "AutoMergeForward", "WarnOnly", "Block"}

\* Commits of a ref that another lacks; a git command that fails counts none.
rev_list_count(n, m, git_ok) == IF git_ok /\ n > m THEN n - m ELSE 0

\* Mutant: the two counts are taken the wrong way round.
check_freshness_in_swapped(ref, okBehind, okAhead) ==
  LET b == own
      a == rev_list_count(ref, base, okAhead)
  IN  IF b = 0 THEN [kind |-> "Fresh", ahead |-> 0, behind |-> 0]
      ELSE [kind |-> IF a > 0 THEN "Diverged" ELSE "Stale", ahead |-> a, behind |-> b]

\* What the branch lacks of the ref, and has beside it.
check_freshness_in(ref, okBehind, okAhead) ==
  LET behind == rev_list_count(ref, base, okBehind)
      ahead == IF okAhead THEN own + rev_list_count(base, ref, TRUE) ELSE 0
  IN  CASE behind = 0 -> [kind |-> "Fresh", ahead |-> 0, behind |-> 0]
        [] behind > 0 /\ ahead > 0 -> [kind |-> "Diverged", ahead |-> ahead, behind |-> behind]
        [] behind > 0 /\ ahead = 0 -> [kind |-> "Stale", ahead |-> 0, behind |-> behind]

apply_policy(freshness, policy) ==
  IF freshness.kind = "Fresh" THEN "Noop"
  ELSE CASE policy = "WarnOnly"         -> "Warn"
         [] policy = "Block"            -> "Block"
         [] policy = "AutoRebase"       -> "Rebase"
         [] policy = "AutoMergeForward" -> "MergeForward"

\* The ref the branch is compared with; none: there is nothing to compare.
resolve_main_ref ==
  CASE on_main /\ main_remote > 0 -> main_remote
    [] ~(on_main /\ main_remote > 0) /\ main_local > 0 -> main_local
    [] OTHER -> main_remote

\* Whether a workspace test is stopped: never when the branch or the ref is
\* unknown, nor when the count of missing commits cannot be had.
workspace_test_branch_preflight(okBranch, okBehind, okAhead) ==
  /\ okBranch /\ resolve_main_ref > 0
  /\ check_freshness_in(resolve_main_ref, okBehind, okAhead).kind # "Fresh"

-----------------------------------------------------------------------------
FreshInit ==
  /\ main_remote \in 0..1 /\ main_local \in 0..1 /\ main_local + main_remote > 0
  /\ base = 1 /\ own = 0
  /\ on_main \in BOOLEAN
  /\ tested_on = {}

\* Main moves at the remote; a fetch and pull brings it to the local ref.
PushToMain ==
  /\ main_remote \in 1..(MaxCommits - 1) /\ main_remote' = main_remote + 1
  /\ UNCHANGED <<main_local, base, own, on_main, tested_on>>
PullMain ==
  /\ main_local > 0 /\ main_remote > main_local
  /\ main_local' = main_remote
  /\ UNCHANGED <<main_remote, base, own, on_main, tested_on>>
CommitOnBranch ==
  /\ own < MaxCommits /\ own' = own + 1
  /\ UNCHANGED <<main_remote, main_local, base, on_main, tested_on>>

\* The user or the agent runs the git rebase or merge that apply_policy advises: the
\* branch takes in what the ref has.  No code of the repository does this itself.
UpdateBranch(policy, okBehind, okAhead) ==
  LET freshness == check_freshness_in(resolve_main_ref, okBehind, okAhead)
  IN  /\ apply_policy(freshness, policy) \in {"Rebase", "MergeForward"}
      /\ base' = base + freshness.behind
      /\ UNCHANGED <<main_remote, main_local, own, on_main, tested_on>>

run_bash(okBranch, okBehind, okAhead) ==
  /\ ~workspace_test_branch_preflight(okBranch, okBehind, okAhead)
  /\ tested_on' = tested_on \cup {[has |-> base, ref |-> resolve_main_ref,
                                   answered |-> okBranch /\ okBehind]}
  /\ UNCHANGED <<main_remote, main_local, base, own, on_main>>

FreshNext ==
  \/ PushToMain \/ PullMain \/ CommitOnBranch
  \/ \E p \in StaleBranchPolicy, okB, okA \in BOOLEAN : UpdateBranch(p, okB, okA)
  \/ \E okN, okB, okA \in BOOLEAN : run_bash(okN, okB, okA)

-----------------------------------------------------------------------------
(* Properties *)

\* The branch never holds commits main never had: updating it by the count that
\* was read brings exactly what is missing.
UpdateBringsWhatIsMissing ==
  base <= IF main_remote > main_local THEN main_remote ELSE main_local

\* Workspace tests run only on a branch that has all of the main ref it is
\* compared with, however both moved since; a git command that failed is the
\* one exception, as it reads as a branch that lacks nothing.
TestsSeeAllOfMain ==
  \A t \in tested_on : t.answered => t.has >= t.ref

\* A branch that is reported behind is told the fixes it really misses, and a
\* broad test run that is let through has all of the main branch it can see
\* (stale_branch.rs).
BranchFreshnessSound ==
  /\ UpdateBringsWhatIsMissing
  /\ TestsSeeAllOfMain

-----------------------------------------------------------------------------
(***************************************************************************)
(* The locks lanes declare on parts of a branch (runtime/src/               *)
(* branch_lock.rs): two lanes on one branch collide where the module of one *)
(* is, or contains, a module of the other.                                  *)
(***************************************************************************)

CONSTANTS
  PathNames,     \* the components of module paths
  MaxIntents     \* bound on the declared intents

VARIABLES intents   \* the intents declared so far, in order

lockVars == <<intents>>

\* A module is a path of components; paths of one or two of them.
ModulePaths == {<<a>> : a \in PathNames} \cup {<<a, b>> : a, b \in PathNames}
BranchLockIntent(lane, branch, modules) ==
  [lane |-> lane, branch |-> branch, modules |-> modules]

\* Mutant: only a module below the other's is an overlap.
modules_overlap_below(l, r) == IsPrefix(r, l)

modules_overlap(l, r) == IsPrefix(l, r) \/ IsPrefix(r, l)

\* The wider of the two.
shared_scope(l, r) == IF IsPrefix(r, l) THEN r ELSE l

overlapping_modules(left, right) ==
  {shared_scope(p[1], p[2]) : p \in {q \in left \X right : modules_overlap(q[1], q[2])}}

detect_branch_lock_collisions(declared) ==
  UNION {LET i == p[1]
             j == p[2]
         IN  {[branch |-> declared[i].branch, module |-> m,
               lane_ids |-> <<declared[i].lane, declared[j].lane>>] :
                m \in overlapping_modules(declared[i].modules, declared[j].modules)} :
         p \in {q \in (DOMAIN declared) \X (DOMAIN declared) :
                  q[1] < q[2] /\ declared[q[1]].branch = declared[q[2]].branch}}

LockInit == intents = <<>>

DeclareIntent(branch, modules) ==
  /\ Len(intents) < MaxIntents
  /\ intents' = Append(intents, BranchLockIntent(Len(intents) + 1, branch, modules))

LockNext ==
  \E b \in {"main", "dev"}, ms \in SUBSET ModulePaths :
    Cardinality(ms) <= 2 /\ DeclareIntent(b, ms)

-----------------------------------------------------------------------------
(* Properties *)

\* A file below a module, and the lanes that may write it.
FilesOf(ms) == {f \in {Append(m, "file") : m \in ModulePaths} : \E m \in ms : IsPrefix(m, f)}

\* Two lanes are reported exactly when there is a file of one branch that both
\* may write, in whichever order they declared themselves.
CollisionsAreExact ==
  \A i, j \in DOMAIN intents :
    i < j =>
      ((\E c \in detect_branch_lock_collisions(intents) : c.lane_ids = <<i, j>>)
         <=> /\ intents[i].branch = intents[j].branch
             /\ FilesOf(intents[i].modules) \cap FilesOf(intents[j].modules) # {})

\* The modules reported for two lanes hold every file they share, so that
\* keeping one of them out of those modules resolves the collision.
ReportedScopesSuffice ==
  \A i, j \in DOMAIN intents :
    i < j /\ intents[i].branch = intents[j].branch =>
      FilesOf(intents[i].modules) \cap FilesOf(intents[j].modules)
        \subseteq FilesOf({c.module : c \in {d \in detect_branch_lock_collisions(intents) :
                                               d.lane_ids = <<i, j>>}})

\* Two intents are reported as colliding exactly when some file lies in both,
\* and the scopes of a report cover every such file (branch_lock.rs).
BranchLocksSound ==
  /\ CollisionsAreExact
  /\ ReportedScopesSuffice
=============================================================================
