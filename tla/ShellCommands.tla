---------------------------- MODULE ShellCommands ----------------------------
(***************************************************************************)
(* The commands an agent runs in a shell: execute_bash of                  *)
(* runtime/src/bash.rs with the sandbox of runtime/src/sandbox.rs, and     *)
(* execute_shell_command, the PowerShell tool of the tools crate.          *)
(*                                                                         *)
(* A command is a child process that writes its output in chunks to a pipe *)
(* of PipeSize chunks and exits when it has written all of it; it may      *)
(* leave a helper process behind that keeps the pipe open.  The bash tool  *)
(* reads while the child runs, the PowerShell tool with a timeout only     *)
(* polls the child and reads when it has exited.  One stream stands for    *)
(* stdout and stderr, which are read and cut alike.                        *)
(***************************************************************************)
EXTENDS Naturals, Sequences, FiniteSets

CONSTANTS
    MaxShellCalls,  \* bound: calls in a behaviour
    PipeSize,       \* chunks a pipe holds
    OutputLimit     \* MAX_OUTPUT_BYTES, in chunks

ASSUME ShellAssumption == PipeSize \in Nat /\ OutputLimit \in Nat

VARIABLES
    shellCalls,     \* the calls so far: a sequence of records
    namespacesWork, \* unshare --user would succeed now
    unshareResult,  \* OnceLock of the probe: "unknown", "works" or "fails"
    sandboxConfig,  \* what the settings files say
    configLoads,    \* they can be loaded
    sandboxDirs     \* .sandbox-home and .sandbox-tmp exist

shellVars == <<shellCalls, namespacesWork, unshareResult, sandboxConfig,
               configLoads, sandboxDirs>>

-----------------------------------------------------------------------------
(* The sandbox.  <<>> stands for an absent option. *)

Absent == <<>>
OrElse(option, default) == IF option = Absent THEN default ELSE option[1]

\* SandboxConfig::default: every field absent.
DefaultConfig == [enabled |-> Absent, namespace |-> Absent, network |-> Absent,
                  mode |-> Absent, mounts |-> {}]

SandboxConfigs ==
    {DefaultConfig,
     [DefaultConfig EXCEPT !.network = <<TRUE>>],
     [DefaultConfig EXCEPT !.enabled = <<FALSE>>],
     [DefaultConfig EXCEPT !.namespace = <<FALSE>>, !.mode = <<"allow-list">>]}

NoOverride == [disable |-> Absent, namespace |-> Absent, network |-> Absent, mode |-> Absent]

SandboxOverrides ==
    {NoOverride,
     [NoOverride EXCEPT !.disable = <<TRUE>>],
     [NoOverride EXCEPT !.disable = <<FALSE>>, !.mode = <<"off">>],
     [NoOverride EXCEPT !.network = <<TRUE>>, !.namespace = <<FALSE>>]}

resolve_request(config, o) ==
    [enabled |-> IF o.disable # Absent THEN ~o.disable[1] ELSE OrElse(config.enabled, TRUE),
     namespace |-> OrElse(o.namespace, OrElse(config.namespace, TRUE)),
     network |-> OrElse(o.network, OrElse(config.network, FALSE)),
     mode |-> OrElse(o.mode, OrElse(config.mode, "workspace-only")),
     mounts |-> config.mounts]

resolve_sandbox_status_for_request(request, supported) ==
    [requested |-> request,
     enabled |-> request.enabled,
     active |-> /\ request.enabled
                /\ request.namespace => supported
                /\ request.network => supported,
     namespace_active |-> request.enabled /\ request.namespace /\ supported,
     network_active |-> request.enabled /\ request.network /\ supported,
     filesystem_active |-> request.enabled /\ request.mode # "off",
     fallback_reason |-> IF ~request.enabled THEN {}
                         ELSE {r \in {"namespace", "network", "mounts"} :
                                 CASE r = "namespace" -> request.namespace /\ ~supported
                                   [] r = "network" -> request.network /\ ~supported
                                   [] r = "mounts" -> request.mode = "allow-list"
                                                      /\ request.mounts = {}}]

\* Mutant: the launcher forgets --net.
build_linux_sandbox_command_net(status) ==
    IF status.enabled /\ (status.namespace_active \/ status.network_active)
    THEN [program |-> "unshare", net |-> FALSE, home |-> TRUE]
    ELSE [program |-> "sh", net |-> FALSE, home |-> status.filesystem_active]

\* The program that is started: unshare with its flags, or sh itself.
build_linux_sandbox_command(status) ==
    IF status.enabled /\ (status.namespace_active \/ status.network_active)
    THEN [program |-> "unshare", net |-> status.network_active, home |-> TRUE]
    ELSE [program |-> "sh", net |-> FALSE, home |-> status.filesystem_active]

\* The probe runs once in the life of the process.
unshare_user_namespace_works ==
    IF unshareResult # "unknown" THEN unshareResult = "works" ELSE namespacesWork

\* Settings that cannot be loaded count as the default settings.
sandbox_status_for_input(o) ==
    resolve_sandbox_status_for_request(
        resolve_request(IF configLoads THEN sandboxConfig ELSE DefaultConfig, o),
        unshare_user_namespace_works)

-----------------------------------------------------------------------------
(* Calls. *)

Runs == {r \in [tool : {"bash", "powershell"}, timed : BOOLEAN, background : BOOLEAN,
                 wants : 0..(PipeSize + 1), helper : BOOLEAN] :
            /\ r.background => ~r.timed /\ ~r.helper /\ r.wants = 1
            /\ r.helper => r.wants = 1}
PlainRun == [tool |-> "bash", timed |-> FALSE, background |-> FALSE, wants |-> 1, helper |-> FALSE]

NoStatus == resolve_sandbox_status_for_request(
                [resolve_request(DefaultConfig, NoOverride) EXCEPT !.enabled = FALSE], FALSE)

ShellInit ==
    /\ shellCalls = <<>>
    /\ namespacesWork \in BOOLEAN
    /\ unshareResult = "unknown"
    /\ sandboxConfig \in SandboxConfigs
    /\ configLoads \in BOOLEAN
    /\ sandboxDirs = FALSE

\* A caller waits for its call: the next call starts when the last returned.
CallMayStart ==
    /\ Len(shellCalls) < MaxShellCalls
    /\ \A k \in DOMAIN shellCalls : shellCalls[k].outcome # "none"

NewCall(run, status, dirs) ==
    [run |-> run, status |-> status, launcher |-> build_linux_sandbox_command(status),
     homeThere |-> dirs, configOk |-> configLoads,
     wrote |-> 0, pipe |-> 0, got |-> 0, cut |-> FALSE, reader |-> IF run.background THEN "none" ELSE "open",
     child |-> "running", helper |-> run.helper, outcome |-> "none"]

\* execute_bash: a background command is spawned without its directories and
\* the call returns at once; otherwise the directories are made first.
CallBash(run, o) ==
    /\ CallMayStart /\ run.tool = "bash"
    /\ LET dirs == sandboxDirs \/ ~run.background
           call == NewCall(run, sandbox_status_for_input(o), dirs)
       IN  /\ shellCalls' = Append(shellCalls, IF run.background
                                               THEN [call EXCEPT !.outcome = "background"]
                                               ELSE call)
           /\ sandboxDirs' = dirs
    /\ unshareResult' = IF unshare_user_namespace_works THEN "works" ELSE "fails"
    /\ UNCHANGED <<namespacesWork, sandboxConfig, configLoads>>

\* execute_powershell: no sandbox.
CallPowerShell(run) ==
    /\ CallMayStart /\ run.tool = "powershell"
    /\ LET call == NewCall(run, NoStatus, sandboxDirs)
       IN  shellCalls' = Append(shellCalls, IF run.background
                                            THEN [call EXCEPT !.outcome = "background"]
                                            ELSE call)
    /\ UNCHANGED <<namespacesWork, unshareResult, sandboxConfig, configLoads, sandboxDirs>>

\* Either the sandbox or the course of the command varies, not both.
StartShell ==
    \/ \E o \in SandboxOverrides : CallBash(PlainRun, o)
    \/ CallBash([PlainRun EXCEPT !.background = TRUE], NoOverride)
    \/ sandboxConfig = DefaultConfig /\ \E run \in Runs : CallBash(run, NoOverride) \/ CallPowerShell(run)

-----------------------------------------------------------------------------
(* The child and who reads from it. *)

Set(k, call) == /\ shellCalls' = [shellCalls EXCEPT ![k] = call]
                /\ UNCHANGED <<namespacesWork, unshareResult, sandboxConfig,
                               configLoads, sandboxDirs>>

\* A write waits for room, fails when nobody reads any more, and vanishes
\* when the output of a background command goes to /dev/null.
ChildWrites(k) ==
    LET call == shellCalls[k] IN
    /\ call.child = "running" /\ call.wrote < call.run.wants
    /\ \/ call.reader = "open" /\ call.pipe < PipeSize
          /\ Set(k, [call EXCEPT !.wrote = @ + 1, !.pipe = @ + 1])
       \/ call.reader = "closed" /\ Set(k, [call EXCEPT !.child = "broken"])
       \/ call.reader = "none" /\ Set(k, [call EXCEPT !.wrote = @ + 1])

ChildExits(k) ==
    LET call == shellCalls[k] IN
    /\ call.child = "running" /\ call.wrote = call.run.wants
    /\ Set(k, [call EXCEPT !.child = "exited"])

HelperExits(k) ==
    LET call == shellCalls[k] IN
    /\ call.helper /\ call.child # "running"
    /\ Set(k, [call EXCEPT !.helper = FALSE])

\* command.output() and wait_with_output() read until the pipe is closed by
\* all who hold it.  With a timeout the PowerShell tool first waits for the
\* child to exit.
ReadsWhileRunning(run) == ~(run.tool = "powershell" /\ run.timed)

Drain(k) ==
    LET call == shellCalls[k] IN
    /\ call.reader = "open" /\ call.pipe > 0
    /\ ReadsWhileRunning(call.run) \/ call.child # "running"
    /\ Set(k, [call EXCEPT !.pipe = @ - 1, !.got = @ + 1])

EndOfOutput(call) == call.child # "running" /\ call.pipe = 0 /\ ~call.helper

\* What is longer than the limit is cut there and gets a marker at its end.
truncate_output(chunks) == IF chunks <= OutputLimit THEN chunks ELSE OutputLimit

\* The command ended by itself and its output is complete; the bash tool answers
\* with it up to the limit, the PowerShell tool with all of it.  Neither answer
\* is marked interrupted.
CommandReturns(k) ==
    LET call == shellCalls[k]
        answer == IF call.run.tool = "bash" THEN truncate_output(call.got) ELSE call.got
    IN
    /\ call.outcome = "none" /\ call.child = "exited" /\ EndOfOutput(call)
    /\ Set(k, [call EXCEPT !.outcome = "output", !.reader = "closed", !.got = answer,
                           !.cut = answer # call.got])

\* bash: the future that waits is dropped and its end of the pipe closed;
\* nothing is sent to the child.
BashTimesOut(k) ==
    LET call == shellCalls[k] IN
    /\ call.run.tool = "bash" /\ call.run.timed /\ call.outcome = "none"
    /\ Set(k, [call EXCEPT !.outcome = "timeout", !.reader = "closed", !.pipe = 0])

\* PowerShell: the last poll found the child running and the time is over, so
\* it is killed, even if it has exited since; the call returns with what was
\* written once the pipe is closed.
PowerShellKills(k) ==
    LET call == shellCalls[k] IN
    /\ call.run.tool = "powershell" /\ call.run.timed
    /\ call.outcome = "none" /\ call.child \in {"running", "exited"} /\ call.got = 0
    /\ Set(k, [call EXCEPT !.child = "killed"])

KilledReturns(k) ==
    LET call == shellCalls[k] IN
    /\ call.outcome = "none" /\ call.child = "killed" /\ EndOfOutput(call)
    /\ Set(k, [call EXCEPT !.outcome = "timeout", !.reader = "closed"])

-----------------------------------------------------------------------------
(* Settings and system change while the process lives. *)

SystemChanges ==
    /\ Len(shellCalls) < MaxShellCalls
    /\ \/ namespacesWork' = ~namespacesWork /\ UNCHANGED configLoads
       \/ configLoads' = ~configLoads /\ UNCHANGED namespacesWork
    /\ UNCHANGED <<shellCalls, unshareResult, sandboxConfig, sandboxDirs>>

ShellNext ==
    \/ StartShell
    \/ \E k \in DOMAIN shellCalls :
         \/ ChildWrites(k) \/ ChildExits(k) \/ HelperExits(k) \/ Drain(k)
         \/ CommandReturns(k) \/ BashTimesOut(k) \/ PowerShellKills(k) \/ KilledReturns(k)
    \/ SystemChanges

-----------------------------------------------------------------------------
ShellCallsMade == {shellCalls[k] : k \in DOMAIN shellCalls}

\* An answer that is not marked interrupted comes of a command that wrote all it
\* had to.  Without the marker of truncate_output it holds all of that; with it,
\* it holds the part up to the limit, and only bash's answers have one, where the
\* output is longer.  (The flag interrupted does not tell of the cut.)  One of a
\* timed PowerShell call has at most what a pipe holds: nobody reads while the
\* command runs, so a longer output can only end in the timeout.
OutputIsWholeOrMarked ==
    \A call \in ShellCallsMade :
        call.outcome = "output" =>
            /\ call.wrote = call.run.wants
            /\ ~call.cut => call.got = call.run.wants
            /\ call.cut => /\ call.run.tool = "bash" /\ call.got = OutputLimit
                           /\ call.run.wants > OutputLimit
            /\ call.run.tool = "bash" => call.got <= OutputLimit
            /\ ~ReadsWhileRunning(call.run) => call.got <= PipeSize

\* A command still runs after its call returned only if it was sent to the
\* background or if the bash tool gave up waiting.
OnlyTheseOutlive ==
    \A call \in ShellCallsMade :
        call.outcome # "none" /\ call.child = "running" =>
            call.run.background \/ (call.run.tool = "bash" /\ call.outcome = "timeout")

\* What the sandbox status says is what the command is started with: each
\* isolation that is active is in the launcher, and each one that was asked
\* for and is not active is among the reasons.
StatusIsTrue ==
    \A call \in ShellCallsMade :
        LET s == call.status IN
        /\ s.namespace_active => call.launcher.program = "unshare"
        /\ s.network_active <=> call.launcher.net
        /\ s.filesystem_active => call.launcher.home
        /\ s.enabled /\ s.requested.namespace /\ ~s.namespace_active => "namespace" \in s.fallback_reason
        /\ s.enabled /\ s.requested.network /\ ~s.network_active => "network" \in s.fallback_reason
        /\ s.active => \/ s.namespace_active \/ s.network_active
                       \/ ~s.requested.namespace /\ ~s.requested.network

\* A launcher is used only where it worked for the process's first command,
\* and a network the settings isolate is open only with a reason or when the
\* call asked for no sandbox or the settings could not be loaded.
IsolationIsLostForAReason ==
    \A call \in ShellCallsMade :
        call.run.tool = "bash" =>
            /\ call.launcher.program = "unshare" => unshareResult = "works"
            /\ sandboxConfig.network = <<TRUE>> =>
                  \/ call.launcher.net
                  \/ call.status.fallback_reason # {}
                  \/ ~call.status.enabled
                  \/ ~call.configOk

\* A command that gets a home of its own finds it there, unless it went to
\* the background before any other command had run.
HomeIsThere ==
    \A k \in DOMAIN shellCalls :
        LET call == shellCalls[k] IN
        call.launcher.home /\ ~call.homeThere =>
            /\ call.run.background
            /\ \A j \in 1..k : shellCalls[j].run.background \/ shellCalls[j].run.tool = "powershell"

\* The shell tools: whole output, a marked cut or an interruption, no command
\* outlives its call unnoticed, and the sandbox status tells how the command was started.
ShellCommandsSound == OutputIsWholeOrMarked /\ OnlyTheseOutlive /\ StatusIsTrue
                      /\ IsolationIsLostForAReason /\ HomeIsThere
=============================================================================
