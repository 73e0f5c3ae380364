------------------------------ MODULE SkillRoots ------------------------------
(* Skills and agents are files in directories of the project and the user.     *)
(* They are listed (with what shadows what), resolved by name in two ways (the  *)
(* commands crate, and the Skill tool that falls back on a search of its own)   *)
(* and installed by copying, by processes that share nothing but the files.    *)
EXTENDS Naturals, Sequences, FiniteSets, SequencesExt

CONSTANTS
  Installers,      \* processes that install skills
  MaxSkillEdits    \* files put or removed by hand, and installs

VARIABLES
  skill_tree,        \* root -> file -> entry
  dirOrder,    \* the order in which read_dir gives the files
  installs,    \* where each installer is
  skillLog     \* ghosts: edits made, installs reported, contested and crashed ones

skillVars == <<skill_tree, dirOrder, installs, skillLog>>

\* Directories in the order discover_skill_roots and skill_lookup_roots try them; the last
\* of the second is tried by the Skill tool only. Skills are installed into the home root.
discover_skill_roots == <<"claw/skills", "omc/skills", "claw/commands", "home/skills">>
skill_lookup_roots == <<"omc/skills", "claw/skills", "claw/commands", "home/skills", "opencode/skills">>
discover_definition_roots == <<"claw/agents", "home/agents">>
default_skill_install_root == "home/skills"

SkillRootNames == ToSet(skill_lookup_roots)
AllRoots == SkillRootNames \cup ToSet(discover_definition_roots)
LegacyCommandsDir == {"claw/commands"}
SkillFiles == {"a", "a-b"}
SkillNames == {"a", "A", "a b", "a-b"}

\* The orders of names the code uses: ASCII, ASCII without case, and the name of a directory.
NameRank(n) == CASE n = "A" -> 1 [] n = "SKILL" -> 2 [] n = "a" -> 3 [] n = "a b" -> 4 [] OTHER -> 5
Lower(n) == CASE n = "A" -> "a" [] n = "SKILL" -> "skill" [] OTHER -> n
sanitize_skill_invocation_name(n) == CASE n = "A" -> "a" [] n = "a b" -> "a-b" [] OTHER -> n

\* A directory with or without its SKILL.md, or a file; whether it can be read; the copies
\* of an installed one.
NoEntry == [kind |-> "none", declared |-> "none", ok |-> TRUE, copies |-> {}]
HandMade(kind, declared, ok) == [kind |-> kind, declared |-> declared, ok |-> ok, copies |-> {}]

NotInstalling == [step |-> "idle"]
Sources == [declared : {"none", "A", "a b"}, base : {"a"}, directory : BOOLEAN]

SkillInit ==
  /\ skill_tree = [r \in AllRoots |-> [f \in SkillFiles |-> NoEntry]]
  /\ dirOrder \in {<<"a", "a-b">>, <<"a-b", "a">>}
  /\ installs = [p \in Installers |-> NotInstalling]
  /\ skillLog = [edits |-> 0, reported |-> {}, contested |-> {}, crashed |-> {}]

-----------------------------------------------------------------------------
(* Listing *)

IsSkill(r, f) ==
  CASE r \in {"claw/agents", "home/agents"} -> skill_tree[r][f].kind = "toml"
    [] r \in LegacyCommandsDir -> skill_tree[r][f].kind \in {"dir", "md"}
    [] OTHER -> skill_tree[r][f].kind = "dir"

\* The declared name, or else the file's: SKILL for a directory among legacy commands.
EntryName(r, f) ==
  CASE skill_tree[r][f].declared # "none" -> skill_tree[r][f].declared
    [] skill_tree[r][f].declared = "none" /\ r \in LegacyCommandsDir /\ skill_tree[r][f].kind = "dir" -> "SKILL"
    [] OTHER -> f

Position(f) == IF dirOrder[1] = f THEN 1 ELSE 2
Unreadable(r) == \E f \in SkillFiles : IsSkill(r, f) /\ ~skill_tree[r][f].ok

ReadDir(r) == SelectSeq(dirOrder, LAMBDA f : IsSkill(r, f))
NamedEntries(r) ==
  LET files == ReadDir(r)
  IN [k \in DOMAIN files |-> [root |-> r, file |-> files[k], name |-> EntryName(r, files[k])]]

\* The entries of a root, sorted by name; equal names as the directory has them.
RootEntries(r) ==
  IF Len(ReadDir(r)) < 2 THEN NamedEntries(r) ELSE
  SortSeq(NamedEntries(r),
          LAMBDA x, y : \/ NameRank(x.name) < NameRank(y.name)
                        \/ NameRank(x.name) = NameRank(y.name) /\ Position(x.file) < Position(y.file))

Listing(roots) == FlattenSeq([k \in DOMAIN roots |-> RootEntries(roots[k])])
ListingFails(roots) == \E k \in DOMAIN roots : Unreadable(roots[k])
load_skills_from_roots == Listing(discover_skill_roots)
load_agents_from_roots == Listing(discover_definition_roots)
shadowed(list, k) == \E j \in 1..(k - 1) : Lower(list[j].name) = Lower(list[k].name)

-----------------------------------------------------------------------------
(* Resolving *)

Unknown == [found |-> FALSE, root |-> "none", file |-> "none"]
Found(r, f) == [found |-> TRUE, root |-> r, file |-> f]
FirstOf(S) == CHOOSE k \in S : \A j \in S : k <= j

\* The first root that has the name, unless one before it cannot be read.
resolve_skill_path(n) ==
  LET hits(k) == SelectSeq(RootEntries(discover_skill_roots[k]), LAMBDA x : Lower(x.name) = Lower(n))
      decisive == {k \in DOMAIN discover_skill_roots : Unreadable(discover_skill_roots[k]) \/ hits(k) # <<>>}
      k == FirstOf(decisive)
  IN IF decisive = {} \/ Unreadable(discover_skill_roots[k]) THEN Unknown
     ELSE Found(hits(k)[1].root, hits(k)[1].file)

skill_frontmatter_name_matches(r, f, n) ==
  skill_tree[r][f].ok /\ skill_tree[r][f].declared # "none" /\ Lower(skill_tree[r][f].declared) = Lower(n)

\* By the name of the directory or file first, then by either name in directory order.
resolve_skill_path_in_root(r, n) ==
  LET matches(f) == IsSkill(r, f) /\ (Lower(f) = Lower(n) \/ skill_frontmatter_name_matches(r, f, n))
      listed == SelectSeq(dirOrder, matches)
  IN CASE n \in SkillFiles /\ IsSkill(r, n) -> Found(r, n)
       [] ~(n \in SkillFiles /\ IsSkill(r, n)) /\ listed # <<>> -> Found(r, listed[1])
       [] OTHER -> Unknown

resolve_skill_path_from_compat_roots(n) ==
  LET hit(k) == resolve_skill_path_in_root(skill_lookup_roots[k], n)
      hits == {k \in DOMAIN skill_lookup_roots : hit(k).found}
  IN IF hits = {} THEN Unknown ELSE hit(FirstOf(hits))

\* The Skill tool.
execute_skill(n) ==
  IF resolve_skill_path(n).found THEN resolve_skill_path(n) ELSE resolve_skill_path_from_compat_roots(n)

\* `/skills NAME ARGS`: only the first word is taken for the name.
resolve_skill_invocation(n) == resolve_skill_path(IF n = "a b" THEN "a" ELSE n)

-----------------------------------------------------------------------------
(* Changing the files *)

Edit == skillLog.edits < MaxSkillEdits
Edited(log) == [log EXCEPT !.edits = @ + 1]
InProgress(f) == {p \in Installers : installs[p].step # "idle" /\ installs[p].name = f}
Contested(r, f) ==
  [Edited(skillLog) EXCEPT !.contested = IF r = default_skill_install_root /\ InProgress(f) # {} THEN @ \cup {f} ELSE @]

PutByHand(r, f, entry) ==
  /\ Edit /\ skill_tree[r][f] = NoEntry
  /\ entry.kind = "toml" <=> r \in ToSet(discover_definition_roots)
  /\ skill_tree' = [skill_tree EXCEPT ![r][f] = entry]
  /\ skillLog' = Contested(r, f)
  /\ UNCHANGED <<dirOrder, installs>>

RemoveByHand(r, f) ==
  /\ Edit /\ skill_tree[r][f] # NoEntry
  /\ skill_tree' = [skill_tree EXCEPT ![r][f] = NoEntry]
  /\ skillLog' = [Contested(r, f) EXCEPT
       !.reported = IF r = default_skill_install_root THEN {x \in @ : x.name # f} ELSE @]
  /\ UNCHANGED <<dirOrder, installs>>

derive_skill_install_name(s) ==
  sanitize_skill_invocation_name(IF s.declared = "none" THEN s.base ELSE s.declared)

Installed(f) == skill_tree[default_skill_install_root][f]
Move(p, step) == installs' = [installs EXCEPT ![p].step = step]

\* install_skill_into finds no directory of that name, and makes one later.
CheckNotInstalled(p, s) ==
  LET f == derive_skill_install_name(s)
  IN /\ installs[p] = NotInstalling /\ Edit
     /\ Installed(f) = NoEntry
     /\ installs' = [installs EXCEPT ![p] = [step |-> "create", name |-> f, source |-> s]]
     /\ skillLog' = [Edited(skillLog) EXCEPT !.contested = IF InProgress(f) = {} THEN @ ELSE @ \cup {f}]
     /\ UNCHANGED <<skill_tree, dirOrder>>

\* create_dir_all succeeds on a directory that is there by now.
CreateDirectory(p) ==
  /\ installs[p].step = "create"
  /\ skill_tree' = [skill_tree EXCEPT ![default_skill_install_root][installs[p].name] =
                IF @ = NoEntry THEN [@ EXCEPT !.kind = "empty"] ELSE @]
  /\ Move(p, "prompt")
  /\ UNCHANGED <<dirOrder, skillLog>>

Copied(e, part, s) == {c \in e.copies : c.part # part} \cup {[part |-> part, source |-> s]}

\* The files are copied one by one, over what is there. A markdown file has only the one.
CopyPrompt(p) ==
  LET s == installs[p].source
  IN /\ installs[p].step = "prompt" /\ Installed(installs[p].name) # NoEntry
     /\ skill_tree' = [skill_tree EXCEPT ![default_skill_install_root][installs[p].name] =
                   [kind |-> "dir", declared |-> s.declared, ok |-> TRUE, copies |-> Copied(@, "prompt", s)]]
     /\ Move(p, IF s.directory THEN "rest" ELSE "report")
     /\ UNCHANGED <<dirOrder, skillLog>>

CopyRest(p) ==
  /\ installs[p].step = "rest" /\ Installed(installs[p].name) # NoEntry
  /\ skill_tree' = [skill_tree EXCEPT ![default_skill_install_root][installs[p].name].copies =
                Copied(Installed(installs[p].name), "rest", installs[p].source)]
  /\ Move(p, "report")
  /\ UNCHANGED <<dirOrder, skillLog>>

\* Mutant: what was copied stays.
CopyFails_leaving(p) ==
  /\ installs[p].step \in {"prompt", "rest"}
  /\ installs' = [installs EXCEPT ![p] = NotInstalling]
  /\ UNCHANGED <<skill_tree, dirOrder, skillLog>>

\* A copy fails, or its directory has gone: what there is is removed.
CopyFails(p) ==
  /\ installs[p].step \in {"prompt", "rest"}
  /\ skill_tree' = [skill_tree EXCEPT ![default_skill_install_root][installs[p].name] = NoEntry]
  /\ installs' = [installs EXCEPT ![p] = NotInstalling]
  /\ UNCHANGED <<dirOrder, skillLog>>

ReportInstalled(p) ==
  /\ installs[p].step = "report"
  /\ installs' = [installs EXCEPT ![p] = NotInstalling]
  /\ skillLog' = [skillLog EXCEPT !.reported = @ \cup {[name |-> installs[p].name, source |-> installs[p].source]}]
  /\ UNCHANGED <<skill_tree, dirOrder>>

InstallerDies(p) ==
  /\ installs[p].step # "idle"
  /\ installs' = [installs EXCEPT ![p] = NotInstalling]
  /\ skillLog' = [skillLog EXCEPT !.crashed = @ \cup {installs[p].name}]
  /\ UNCHANGED <<skill_tree, dirOrder>>

HandMadeEntries ==
  {HandMade(k, d, TRUE) : k \in {"dir", "md", "toml"}, d \in {"none", "A"}}
    \cup {HandMade("dir", "none", FALSE)}

SkillNext ==
  \/ \E r \in AllRoots, f \in SkillFiles, e \in HandMadeEntries : PutByHand(r, f, e)
  \/ \E r \in AllRoots, f \in SkillFiles : RemoveByHand(r, f)
  \/ \E p \in Installers :
       \/ \E s \in Sources : CheckNotInstalled(p, s)
       \/ CreateDirectory(p)
       \/ CopyPrompt(p)
       \/ CopyRest(p)
       \/ CopyFails(p)
       \/ ReportInstalled(p)
       \/ InstallerDies(p)

-----------------------------------------------------------------------------
(* Properties *)

\* The skill listed as the active one of its name is the one that runs: both searches and
\* the slash command agree with the list, whatever shadows what.
ActiveIsResolved ==
  ~ListingFails(discover_skill_roots) =>
    LET list == load_skills_from_roots
    IN \A k \in DOMAIN list : ~shadowed(list, k) =>
         /\ execute_skill(list[k].name) = Found(list[k].root, list[k].file)
         /\ list[k].name # "a b" => resolve_skill_invocation(list[k].name) = Found(list[k].root, list[k].file)

\* A name that is not listed is refused by the slash command.
UnlistedIsRefused ==
  ~ListingFails(discover_skill_roots) =>
    LET listed == {Lower(x.name) : x \in ToSet(load_skills_from_roots)}
    IN \A n \in SkillNames : Lower(n) \notin listed => ~resolve_skill_path(n).found

\* Every agent that is not active is shadowed by an active one of its name, in a root that
\* comes no later.
ShadowsAreAgents ==
  LET list == load_agents_from_roots
  IN \A k \in DOMAIN list : shadowed(list, k) =>
       \E j \in 1..(k - 1) : ~shadowed(list, j) /\ Lower(list[j].name) = Lower(list[k].name)

\* An install that was reported is whole, of one source, until removed by hand, unless
\* another install of the name, or a hand, was at work in the same directory meanwhile.
ReportedIsWhole ==
  \A x \in skillLog.reported : x.name \notin skillLog.contested =>
    Installed(x.name).copies = [part : IF x.source.directory THEN {"prompt", "rest"} ELSE {"prompt"}, source : {x.source}]

\* The name an install reports is one under which the Skill tool finds a skill, whatever
\* name the skill declares.
ReportedIsFound ==
  \A x \in skillLog.reported : x.name \notin skillLog.contested => execute_skill(x.name).found

\* A failed install leaves nothing: an unfinished directory is being worked on, or its
\* installer died in it (then it stays, and the name cannot be installed).
NoDebris ==
  \A f \in SkillFiles :
    Installed(f).kind = "empty" \/ (\E c \in Installed(f).copies : c.source.directory /\ Cardinality(Installed(f).copies) = 1) =>
      InProgress(f) # {} \/ f \in skillLog.crashed \cup skillLog.contested

\* Skills: the listed skill is the one that runs, unlisted names are refused, and a
\* reported install is whole, is found, and leaves no debris when it fails.
SkillRootsSound ==
  /\ ActiveIsResolved /\ UnlistedIsRefused /\ ShadowsAreAgents
  /\ ReportedIsWhole /\ ReportedIsFound /\ NoDebris
=============================================================================
