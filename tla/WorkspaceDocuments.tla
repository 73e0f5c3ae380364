------------------------- MODULE WorkspaceDocuments -------------------------
(***************************************************************************)
(* The documents the program keeps in a workspace for its user: what       *)
(* `claw init' lays down (rusty-claude-cli/src/init.rs), the to-do list of *)
(* the TodoWrite tool and the notebooks of the NotebookEdit tool           *)
(* (tools/src/lib.rs).  All of them are looked at first and then written   *)
(* in place with fs::write, which truncates and fills; nothing is locked.  *)
(* Several agents, a second command line and the user work on the same     *)
(* files, and a process may end in the middle of a write.                  *)
(*                                                                         *)
(* A document's form is "empty" (no bytes), "whole", or "mixed": two       *)
(* writers had it open at once and the shorter text lies over the longer.  *)
(***************************************************************************)
EXTENDS Naturals, Sequences, FiniteSets, SequencesExt

CONSTANTS
    Workers,        \* processes and threads that write documents
    MaxDocSteps     \* bound: operations and outside changes in a behaviour

VARIABLES
    docs,       \* document -> [there, form, body]
    marks,      \* files of the repository that detect_repo looks for
    jobs,       \* worker -> its operation, or the result of the last one
    owed,       \* ghost: document -> the user's own content it should hold
    persisted,  \* ghost: the list of the last acknowledged TodoWrite
    disturbed,  \* ghost: documents whose writers met, or died in a write
    removed,    \* ghost: a cell has been deleted from the notebook
    docSteps    \* steps counted against the bound

docVars == <<docs, marks, jobs, owed, persisted, disturbed, removed, docSteps>>

Artifacts == <<"dir", "json", "ignore", "guide">>
Documents == {"dir", "json", "ignore", "guide", "todos", "notebook"}
IgnoreComment == "#"
IgnoreEntries == <<"local", "sessions", "clawhip">>
NoDocument == [there |-> FALSE, form |-> "empty", body |-> <<>>]
Whole(body) == [there |-> TRUE, form |-> "whole", body |-> body]
NoJob(w) == [kind |-> "idle"]

\* "blank" has no content, "verified" is done and speaks of verification.
TodoLists == {<<>>, <<"open", "blank">>, <<"open">>, <<"done", "open">>,
              <<"done", "done", "done">>, <<"done", "verified", "done">>}
Kinds == {<<>>, <<"code">>, <<"markdown">>}
NotebookEdits ==
    [mode : {"insert"}, id : {<<>>, <<"j", 1>>}, kind : {<<>>, <<"markdown">>}, source : {<<>>, <<"s">>}]
    \cup [mode : {"replace"}, id : {<<"j", 1>>, <<"j", 2>>}, kind : Kinds, source : {<<"s">>}]
    \cup [mode : {"delete"}, id : {<<>>, <<"j", 1>>}, kind : {<<>>}, source : {<<>>}]
MarkSets == {{}, {"rust/Cargo.toml", "rust"}, {"Cargo.toml", "src", "tests"},
             {"tsconfig.json"}, {"requirements.txt", "package.json", "next", "react"},
             {"pyproject.toml", "package.json", "typescript", "react", "vite", "nest"}}

StartCells == <<[id |-> <<"j", 1>>, kind |-> "raw", source |-> "t", outputs |-> <<>>],
                [id |-> <<"j", 2>>, kind |-> "code", source |-> "t", outputs |-> <<"o">>]>>

DocInit ==
    /\ docs = [d \in Documents |-> IF d = "notebook" THEN Whole(StartCells) ELSE NoDocument]
    /\ marks = {}
    /\ jobs = [w \in Workers |-> NoJob(w)]
    /\ owed = [d \in Documents |-> {}]
    /\ persisted = <<>>
    /\ disturbed = {}
    /\ removed = FALSE
    /\ docSteps = 0

-----------------------------------------------------------------------------
(* What `claw init' writes. *)

\* The generated guidance: the languages and frameworks told, and the lines
\* on verification, on the repository's shape and on the frameworks.
detected_languages(m) ==
    (IF m \cap {"rust/Cargo.toml", "Cargo.toml"} # {} THEN {"Rust"} ELSE {})
    \cup (IF m \cap {"pyproject.toml", "requirements.txt", "setup.py"} # {} THEN {"Python"} ELSE {})
    \cup (IF m \cap {"tsconfig.json", "typescript"} # {} THEN {"TypeScript"}
          ELSE IF "package.json" \in m THEN {"JavaScript"} ELSE {})

detected_frameworks(m) == m \cap {"next", "react", "vite", "nest"}

verification_lines(m) ==
    (IF "rust/Cargo.toml" \in m THEN {"cargo in rust"}
     ELSE IF "Cargo.toml" \in m THEN {"cargo in root"} ELSE {})
    \cup (IF "pyproject.toml" \in m THEN {"pyproject checks"}
          ELSE IF "Python" \in detected_languages(m) THEN {"python checks"} ELSE {})
    \cup (IF "package.json" \in m THEN {"npm checks"} ELSE {})
    \cup (IF {"src", "tests"} \subseteq m THEN {"both surfaces"} ELSE {})

repository_shape_lines(m) == m \cap {"rust", "src", "tests"}

framework_notes(m) == detected_frameworks(m) \ (IF "next" \in m THEN {"react"} ELSE {})

render_init_claude_md(m) ==
    [languages |-> detected_languages(m), frameworks |-> detected_frameworks(m),
     verification |-> verification_lines(m), shape |-> repository_shape_lines(m),
     notes |-> framework_notes(m), user |-> FALSE]

UserGuide == [render_init_claude_md({}) EXCEPT !.user = TRUE]

\* Lines of a text: a mixed one ends in the rest of a line.
Lines(doc) == IF doc.form = "mixed" THEN Append(doc.body, "torn") ELSE doc.body

\* The lines there are, then the comment and the entries not among them.
WithIgnoreEntries(lines) ==
    lines \o SelectSeq(<<IgnoreComment>> \o IgnoreEntries,
                       LAMBDA entry : ~Contains(lines, entry))

-----------------------------------------------------------------------------
(* What the tools compute. *)

AllDone(todos) == \A i \in DOMAIN todos : todos[i] \in {"done", "verified"}

validate_todos(todos) == todos # <<>> /\ ~Contains(todos, "blank")

verification_nudge_needed(todos) ==
    AllDone(todos) /\ Len(todos) >= 3 /\ ~Contains(todos, "verified")

\* The cell an edit is about, 1-based: found by its id, or the last one.
resolve_cell_index(cells, id, mode) ==
    IF cells = <<>> /\ mode \in {"replace", "delete"} THEN {}
    ELSE IF id = <<>> THEN {Len(cells)}
    ELSE LET At == {i \in DOMAIN cells : cells[i].id = id}
         IN  {i \in At : \A j \in At : i <= j}

make_cell_id(n) == <<"cell", n + 1>>

\* A kind other than markdown, a raw cell's too, counts as code.
cell_kind(cell) == IF cell.kind = "markdown" THEN "markdown" ELSE "code"

build_notebook_cell(id, kind, source) ==
    [id |-> id, kind |-> kind, source |-> source, outputs |-> <<>>]

\* Mutant: a cell that becomes markdown keeps the outputs of the code.
ReplacedCell_keeping(cell, kind, source) == [cell EXCEPT !.kind = kind, !.source = source]

\* Code keeps the outputs it has, markdown loses them.
ReplacedCell(cell, kind, source) ==
    [cell EXCEPT !.kind = kind, !.source = source,
                 !.outputs = IF kind = "code" THEN @ ELSE <<>>]

\* The cells after the edit, as the only member; none if it is refused.
EditedCells(cells, e) ==
    {IF e.mode = "delete" THEN RemoveAt(cells, i)
     ELSE IF e.mode = "insert"
     THEN InsertAt(cells, i + 1,
                   build_notebook_cell(make_cell_id(Len(cells)),
                                       IF e.kind = <<>> THEN "code" ELSE e.kind[1], e.source[1]))
     ELSE [cells EXCEPT ![i] =
              ReplacedCell(@, IF e.kind = <<>> THEN cell_kind(@) ELSE e.kind[1], e.source[1])]
     : i \in {k \in resolve_cell_index(cells, e.id, e.mode) :
                  e.mode = "delete" \/ e.source # <<>>}}

-----------------------------------------------------------------------------
(* Steps common to the operations.                                         *)

CountDocStep == docSteps < MaxDocSteps /\ docSteps' = docSteps + 1

Free(w) == jobs[w].kind \in {"idle", "done"}

At(w, stage) == ~Free(w) /\ jobs[w].stage = stage

\* What happens to a document is a disturbance to everyone else's operation.
Unquiet(w, job) == [v \in Workers |-> IF v = w THEN job
                                      ELSE IF jobs[v].kind = "idle" THEN jobs[v]
                                      ELSE [jobs[v] EXCEPT !.quiet = FALSE]]

Done(job) == [kind |-> "done", job |-> job, quiet |-> job.quiet]

Filling(d, w) == \E v \in Workers \ {w} : At(v, "fill") /\ jobs[v].doc = d

\* A quiet init has just finished and nothing has happened since.
Settled == \E w \in Workers : /\ jobs[w].kind = "done" /\ jobs[w].quiet
                              /\ jobs[w].job.kind = "init"
                              /\ \A v \in Workers : Free(v)

\* Operations on different documents have nothing in common and are not
\* interleaved.
Start(w, job) ==
    /\ Free(w) /\ CountDocStep
    /\ \A v \in Workers : Free(v) \/ jobs[v].kind = job.kind
    /\ jobs' = [jobs EXCEPT ![w] = job]
    /\ UNCHANGED <<docs, marks, owed, persisted, disturbed, removed>>

\* fs::write opens the file it found missing or has read, and truncates it.
Truncate(w) ==
    /\ At(w, "truncate")
    /\ LET d == jobs[w].doc
       IN  /\ docs' = [docs EXCEPT ![d] = [there |-> TRUE, form |-> "empty", body |-> <<>>]]
           /\ disturbed' = IF Filling(d, w) \/ docs[d] # jobs[w].found
                           THEN disturbed \cup {d} ELSE disturbed
    /\ jobs' = Unquiet(w, [jobs[w] EXCEPT !.stage = "fill"])
    /\ UNCHANGED <<marks, owed, persisted, removed, docSteps>>

\* The bytes go in at the start: over whatever another writer has put there.
Filled(w, body) ==
    LET d == jobs[w].doc
    IN  /\ \E form \in {"whole"} \cup (IF docs[d].form = "empty" \/ docs[d].body = body
                                       THEN {} ELSE {"mixed"}) :
              docs' = [docs EXCEPT ![d] = [there |-> TRUE, form |-> form, body |-> body]]
        /\ disturbed' = IF Filling(d, w) \/ docs[d].form # "empty"
                        THEN disturbed \cup {d} ELSE disturbed

-----------------------------------------------------------------------------
(* claw init: initialize_repo takes the artifacts in turn.                 *)

StartInit(w) == Start(w, [kind |-> "init", stage |-> "look", doc |-> Artifacts[1],
                          found |-> NoDocument, body |-> <<>>, guide |-> UserGuide,
                          report |-> <<>>, quiet |-> TRUE, again |-> Settled])

\* The artifact is settled with a status: the next one, or the report.
NextArtifact(job, status) ==
    LET report == Append(job.report, status)
    IN  IF Len(report) = Len(Artifacts) THEN Done([job EXCEPT !.report = report])
        ELSE [job EXCEPT !.report = report, !.stage = "look", !.doc = Artifacts[Len(report) + 1]]

ensure_dir(w) ==
    /\ At(w, "look") /\ jobs[w].doc = "dir"
    /\ IF docs["dir"].there
       THEN jobs' = [jobs EXCEPT ![w] = NextArtifact(@, "skipped")] /\ UNCHANGED docs
       ELSE /\ docs' = [docs EXCEPT !["dir"] = Whole(<<>>)]
            /\ jobs' = Unquiet(w, NextArtifact(jobs[w], "created"))
    /\ UNCHANGED <<marks, owed, persisted, disturbed, removed, docSteps>>

\* The starter settings and the guide: only where there is no file at all.
\* The guide is rendered before its file is looked for.
write_file_if_missing(w) ==
    /\ At(w, "look") /\ jobs[w].doc \in {"json", "guide"}
    /\ LET d == jobs[w].doc
       IN  jobs' = [jobs EXCEPT ![w] =
                       IF docs[d].there THEN NextArtifact(@, "skipped")
                       ELSE [@ EXCEPT !.stage = "truncate", !.found = docs[d],
                                      !.guide = render_init_claude_md(marks)]]
    /\ UNCHANGED <<docs, marks, owed, persisted, disturbed, removed, docSteps>>

ensure_gitignore_entries(w) ==
    /\ At(w, "look") /\ jobs[w].doc = "ignore"
    /\ LET lines == Lines(docs["ignore"])
           body == WithIgnoreEntries(lines)
       IN  jobs' = [jobs EXCEPT ![w] =
                       IF body = lines THEN NextArtifact(@, "skipped")
                       ELSE [@ EXCEPT !.stage = "truncate", !.found = docs["ignore"], !.body = body]]
    /\ UNCHANGED <<docs, marks, owed, persisted, disturbed, removed, docSteps>>

FillArtifact(w) ==
    /\ At(w, "fill") /\ jobs[w].kind = "init"
    /\ Filled(w, CASE jobs[w].doc = "json" -> <<"starter">>
                   [] jobs[w].doc = "guide" -> <<jobs[w].guide>>
                   [] jobs[w].doc = "ignore" -> jobs[w].body)
    /\ jobs' = Unquiet(w, NextArtifact(jobs[w], IF jobs[w].found.there THEN "updated" ELSE "created"))
    /\ UNCHANGED <<marks, owed, persisted, removed, docSteps>>

-----------------------------------------------------------------------------
(* TodoWrite. *)

\* The list is validated first; a stored list that does not parse fails the
\* call, and stays.
execute_todo_write(w) ==
    \E todos \in TodoLists :
        /\ validate_todos(todos)
        /\ docs["todos"].there => docs["todos"].form = "whole"
        /\ Start(w, [kind |-> "todo", stage |-> "truncate", doc |-> "todos",
                     found |-> docs["todos"], old |-> docs["todos"].body, new |-> todos,
                     body |-> IF AllDone(todos) THEN <<>> ELSE todos,
                     nudge |-> verification_nudge_needed(todos),
                     before |-> persisted, quiet |-> TRUE])

FillTodos(w) ==
    /\ At(w, "fill") /\ jobs[w].kind = "todo"
    /\ Filled(w, jobs[w].body)
    /\ persisted' = jobs[w].body
    /\ jobs' = Unquiet(w, Done(jobs[w]))
    /\ UNCHANGED <<marks, owed, removed, docSteps>>

-----------------------------------------------------------------------------
(* NotebookEdit. *)

execute_notebook_edit(w) ==
    /\ docs["notebook"].there /\ docs["notebook"].form = "whole"
    /\ \E e \in NotebookEdits : \E cells \in EditedCells(docs["notebook"].body, e) :
          Start(w, [kind |-> "notebook", stage |-> "truncate", doc |-> "notebook",
                    deletes |-> e.mode = "delete", found |-> docs["notebook"], body |-> cells, quiet |-> TRUE])

FillNotebook(w) ==
    /\ At(w, "fill") /\ jobs[w].kind = "notebook"
    /\ Filled(w, jobs[w].body)
    /\ removed' = (removed \/ jobs[w].deletes)
    /\ jobs' = Unquiet(w, Done(jobs[w]))
    /\ UNCHANGED <<marks, owed, persisted, docSteps>>

-----------------------------------------------------------------------------
(* The user, and the end of a process. *)

\* An editor saves at once what it was given.
UserSaves(d) ==
    /\ CountDocStep
    /\ \/ /\ d \in {"json", "guide"}
          /\ docs' = [docs EXCEPT ![d] = Whole(IF d = "json" THEN <<"user">> ELSE <<UserGuide>>)]
       \/ /\ d = "ignore"
          /\ \E lines \in {Append(docs[d].body, "user"), SelectSeq(Append(docs[d].body, "user"),
                                                                   LAMBDA l : l # "sessions")} :
                docs' = [docs EXCEPT ![d] = Whole(lines)]
    /\ owed' = [owed EXCEPT ![d] = {"user"}]
    /\ disturbed' = IF Filling(d, "user") THEN disturbed \cup {d} ELSE disturbed \ {d}
    /\ jobs' = Unquiet("user", NoJob("user"))
    /\ UNCHANGED <<marks, persisted, removed>>

UserDeletes(d) ==
    /\ d \in {"json", "guide", "ignore"} /\ docs[d].there /\ CountDocStep
    /\ docs' = [docs EXCEPT ![d] = NoDocument]
    /\ owed' = [owed EXCEPT ![d] = {}]
    /\ disturbed' = IF Filling(d, "user") THEN disturbed \cup {d} ELSE disturbed
    /\ jobs' = Unquiet("user", NoJob("user"))
    /\ UNCHANGED <<marks, persisted, removed>>

RepositoryGrows ==
    /\ CountDocStep
    /\ \E m \in MarkSets : m # marks /\ marks' = m
    /\ UNCHANGED <<docs, jobs, owed, persisted, disturbed, removed>>

\* The worker is gone; what it had truncated stays empty.
WorkerDies(w) ==
    /\ ~Free(w) /\ CountDocStep
    /\ disturbed' = IF At(w, "fill") THEN disturbed \cup {jobs[w].doc} ELSE disturbed
    /\ jobs' = [jobs EXCEPT ![w] = NoJob(w)]
    /\ UNCHANGED <<docs, marks, owed, persisted, removed>>

DocNext ==
    \/ \E w \in Workers :
         \/ StartInit(w) \/ ensure_dir(w) \/ write_file_if_missing(w)
         \/ ensure_gitignore_entries(w) \/ FillArtifact(w)
         \/ execute_todo_write(w) \/ FillTodos(w)
         \/ execute_notebook_edit(w) \/ FillNotebook(w)
         \/ Truncate(w) \/ WorkerDies(w)
    \/ \E d \in Documents : UserSaves(d) \/ UserDeletes(d)
    \/ RepositoryGrows

-----------------------------------------------------------------------------
(* Properties. *)

BeingWritten(d) == Filling(d, "nobody")

HasUserText(d) == CASE d = "json" -> Contains(docs[d].body, "user")
                    [] d = "guide" -> \E i \in DOMAIN docs[d].body : docs[d].body[i].user
                    [] OTHER -> Contains(docs[d].body, "user")

\* What the user has written into the settings, the guide and the ignore
\* file is still there, unless a writer met another one between looking and
\* writing, or ended in the middle of its write.
UserTextIsKept ==
    \A d \in {"json", "ignore", "guide"} :
        owed[d] # {} /\ d \notin disturbed /\ ~BeingWritten(d) => HasUserText(d)

\* An init nothing came between leaves every artifact, and every line of
\* the ignore file once, whatever crashes and user edits left before it.
InitLeavesAll ==
    \A w \in Workers :
        jobs[w].kind = "done" /\ jobs[w].quiet /\ jobs[w].job.kind = "init" =>
            /\ \A i \in DOMAIN Artifacts : docs[Artifacts[i]].there
            /\ \A e \in {IgnoreComment} \cup {IgnoreEntries[i] : i \in DOMAIN IgnoreEntries} :
                  Len(SelectSeq(docs["ignore"].body, LAMBDA l : l = e)) = 1

\* A second init right behind it finds nothing to do.
InitIsIdempotent ==
    \A w \in Workers :
        jobs[w].kind = "done" /\ jobs[w].quiet /\ jobs[w].job.kind = "init" =>
            (jobs[w].job.again => \A i \in DOMAIN Artifacts : jobs[w].job.report[i] = "skipped")

\* A generated guide names a way to verify every language it tells (not for
\* TypeScript known from tsconfig.json alone) and a note for every framework
\* (React beside Next.js has none).
GuideTellsTheStack ==
    \A i \in DOMAIN docs["guide"].body :
        LET g == docs["guide"].body[i]
        IN  /\ "Rust" \in g.languages <=> g.verification \cap {"cargo in rust", "cargo in root"} # {}
            /\ "Python" \in g.languages <=>
                  g.verification \cap {"pyproject checks", "python checks"} # {}
            /\ "JavaScript" \in g.languages => "npm checks" \in g.verification
            /\ g.frameworks \ g.notes \subseteq {"react"}

\* The stored list is the one of the last acknowledged TodoWrite, and the
\* list it reports as the old one is that of the write before it; it fails
\* to parse only during a write or after writers met or died.
TodosAreTheLastAcknowledged ==
    "todos" \notin disturbed =>
        /\ ~BeingWritten("todos") => docs["todos"].body = persisted
                                      /\ (docs["todos"].there => docs["todos"].form = "whole")
        /\ \A w \in Workers : jobs[w].kind = "done" =>
              (jobs[w].job.kind = "todo" => jobs[w].job.old = jobs[w].job.before)

\* As long as no cell has been deleted an id names one cell, so the id an
\* edit returns finds that cell again; and only code carries outputs.
CellIdsFindTheirCell ==
    "notebook" \notin disturbed =>
        /\ removed \/ \A i, j \in DOMAIN docs["notebook"].body :
              docs["notebook"].body[i].id = docs["notebook"].body[j].id => i = j
        /\ \A i \in DOMAIN docs["notebook"].body :
              docs["notebook"].body[i].outputs # <<>> => docs["notebook"].body[i].kind = "code"

\* The workspace documents: the user's text survives, an undisturbed init is
\* complete and idempotent, its guide fits the repository, the to-do list is
\* the last acknowledged one and cell ids stay unique without deletions.
WorkspaceDocumentsSound ==
    /\ UserTextIsKept /\ InitLeavesAll /\ InitIsIdempotent /\ GuideTellsTheStack
    /\ TodosAreTheLastAcknowledged /\ CellIdsFindTheirCell
=============================================================================
