------------------------------ MODULE FileTools ------------------------------
(***************************************************************************)
(* The file tools of the agents: read_file, write_file, edit_file,         *)
(* glob_search and grep_search of runtime/src/file_ops.rs, called through  *)
(* their *_in_workspace forms by the tools crate.  The main agent and its  *)
(* sub-agents are threads of one process that call the tools on the same   *)
(* files; no lock is taken.  A call is a sequence of system calls: the     *)
(* path is resolved and compared with the workspace, resolved again,       *)
(* read, and then the file is truncated and filled.                        *)
(*                                                                         *)
(* A text is a sequence of one-word lines.  "huge" stands for more bytes   *)
(* than a tool accepts, "nul" for a NUL byte.  Names "a" and "b" are files *)
(* of the workspace (the directory of "b" need not exist), "l" is a        *)
(* symbolic link in the workspace to the place `link'.                     *)
(***************************************************************************)
EXTENDS Naturals, Sequences, FiniteSets, SequencesExt

CONSTANTS
    Callers,        \* threads that call the tools
    MaxFileSteps    \* bound: calls and outside changes in a behaviour

VARIABLES
    disk,       \* place -> [there, text]
    link,       \* the place the symbolic link "l" leads to
    recent,     \* the places by modification time, newest first
    calls,      \* caller -> the call it is in, or the last one's result
    serial,     \* ghost: place -> the text if calls took effect one by one
    overlap,    \* ghost: places two writers worked on at the same time
    wholeTexts, \* ghost: place -> the complete texts it has held
    fileSteps   \* steps counted against the bound

fileVars == <<disk, link, recent, calls, serial, overlap, wholeTexts, fileSteps>>

FilePlaces == {"a", "b", "out"}
WorkspacePlaces == {"a", "b"}
FileNames == {"a", "b", "l"}
NoText == [there |-> FALSE, text |-> <<>>]

GlobMax == 1        \* 100 in the code
DefaultLimit == 2   \* 250 in the code

WriteTexts == {<<"x">>, <<"y", "x", "x">>, <<"nul">>, <<"huge">>}
Edits == {[old |-> "x", new |-> "y", all |-> TRUE],
          [old |-> "x", new |-> "y", all |-> FALSE],
          [old |-> "y", new |-> "huge", all |-> FALSE],
          [old |-> "x", new |-> "x", all |-> TRUE]}
Windows == {[offset |-> 1, limit |-> 1], [offset |-> 5, limit |-> 1]}
GrepInputs == {[mode |-> "content", before |-> 1, after |-> 1, limit |-> <<>>, offset |-> 0],
               [mode |-> "content", before |-> 0, after |-> 0, limit |-> <<1>>, offset |-> 1],
               [mode |-> "files_with_matches", before |-> 0, after |-> 0, limit |-> <<1>>, offset |-> 0],
               [mode |-> "count", before |-> 0, after |-> 0, limit |-> <<0>>, offset |-> 0]}

NoFileCall == [tool |-> "none", pc |-> "done"]

FileInit ==
    /\ disk = [p \in FilePlaces |-> CASE p = "a" -> [there |-> TRUE, text |-> <<"x", "y">>]
                                      [] p = "b" -> NoText
                                      [] p = "out" -> [there |-> TRUE, text |-> <<"x">>]]
    /\ link = "out"
    /\ recent = <<"a", "out">>
    /\ calls = [c \in Callers |-> NoFileCall]
    /\ serial = disk
    /\ overlap = {}
    /\ wholeTexts = [p \in FilePlaces |-> {disk[p]}]
    /\ fileSteps = 0

-----------------------------------------------------------------------------
(* Paths. *)

Target(n) == IF n = "l" THEN link ELSE n

\* canonicalize: only of a path that exists.
normalize_path(n) == IF disk[Target(n)].there THEN {Target(n)} ELSE {}

\* A path that does not exist keeps its own name below its parent: for a
\* dangling link that is the link's name, not what it leads to.
normalize_path_allow_missing(n) ==
    IF disk[Target(n)].there THEN Target(n) ELSE n

validate_workspace_boundary(p) == p # "out"

-----------------------------------------------------------------------------
(* What the operations compute. *)

Shortest(a, b) == IF a < b THEN a ELSE b

\* The window of read_file: 0-based offset, clamped to the file.
ReadWindow(text, offset, limit) ==
    LET first == Shortest(offset, Len(text))
        last == Shortest(first + limit, Len(text))
    IN  [content |-> SubSeq(text, first + 1, last), startLine |-> first + 1,
         numLines |-> last - first, totalLines |-> Len(text)]

TooLarge(text) == Contains(text, "huge")
is_binary_file(text) == Contains(text, "nul")

\* Mutant: only the first occurrence is replaced, whatever was asked for.
Replaced_first(text, e) ==
    LET At == {i \in DOMAIN text : text[i] = e.old}
    IN  [i \in DOMAIN text |->
            IF i \in At /\ (\A j \in At : i <= j) THEN e.new ELSE text[i]]

\* str::replace, or replacen with 1: the first occurrence only.
Replaced(text, e) ==
    LET At == {i \in DOMAIN text : text[i] = e.old}
    IN  [i \in DOMAIN text |->
            IF i \in At /\ (e.all \/ \A j \in At : i <= j) THEN e.new ELSE text[i]]

make_patch(original, updated) ==
    [oldLines |-> Len(original), newLines |-> Len(updated),
     removed |-> original, added |-> updated]

\* skip(offset), then truncate to the limit (absent: the default, 0: none);
\* the limit is reported only when it cut something off.
apply_limit(items, limit, offset) ==
    LET rest == SubSeq(items, offset + 1, Len(items))
        n == IF limit = <<>> THEN DefaultLimit ELSE limit[1]
    IN  IF n = 0 THEN [items |-> rest, limited |-> <<>>]
        ELSE [items |-> SubSeq(rest, 1, Shortest(n, Len(rest))),
              limited |-> IF Len(rest) > n THEN <<n>> ELSE <<>>]

\* Every match brings its own context lines, so neighbours repeat them.
ContentLines(p, text, before, after) ==
    LET At == SetToSortSeq({i \in DOMAIN text : text[i] = "x"}, <)
        Around(i) == LET lo == IF i > before THEN i - before ELSE 1
                         hi == Shortest(i + after, Len(text))
                     IN  [k \in 1..(hi - lo + 1) |-> <<p, lo + k - 1, text[lo + k - 1]>>]
    IN  FlattenSeq([k \in DOMAIN At |-> Around(At[k])])

Matches(text) == Cardinality({i \in DOMAIN text : text[i] = "x"})

-----------------------------------------------------------------------------
(* Common to the calls. *)

Counted == fileSteps < MaxFileSteps /\ fileSteps' = fileSteps + 1

In(c, tool, pc) == calls[c].tool = tool /\ calls[c].pc = pc

Ready(c) == calls[c].pc = "done"

Finish(c, result) == calls' = [calls EXCEPT ![c] = [tool |-> calls[c].tool, pc |-> "done",
                                                    result |-> result, call |-> calls[c]]]

CallFailed(c) == calls' = [calls EXCEPT ![c] = NoFileCall]

ChangeNothing == UNCHANGED <<disk, link, recent, serial, overlap, wholeTexts>>

\* Another caller is between truncating p and filling it.
HalfWritten(p, c) == \E d \in Callers \ {c} : calls[d].tool # "none" /\ calls[d].pc = "fill"
                                              /\ calls[d].place = p

-----------------------------------------------------------------------------
(* read_file, write_file and edit_file. *)

\* The *_in_workspace wrapper: resolve, compare, and hand over the PATH.
StartFileCall(c, tool, n, arg) ==
    /\ Ready(c)
    /\ LET ps == IF tool = "write" THEN {normalize_path_allow_missing(n)}
                                   ELSE normalize_path(n)
       IN  \E p \in ps :
            /\ validate_workspace_boundary(p)
            /\ calls' = [calls EXCEPT ![c] =
                  [tool |-> tool, pc |-> "read", name |-> n, place |-> p, arg |-> arg,
                   original |-> NoText, text |-> <<>>, checked |-> p,
                   dangling |-> ~disk[Target(n)].there,
                   torn |-> FALSE, repointed |-> FALSE]]
    /\ Counted /\ ChangeNothing

StartRead(c) == \E n \in FileNames, w \in Windows : StartFileCall(c, "read", n, w)
StartWrite(c) == \E n \in FileNames, t \in WriteTexts : StartFileCall(c, "write", n, t)
StartEdit(c) == \E n \in FileNames, e \in Edits : StartFileCall(c, "edit", n, e)

\* read_file resolves the path once more and refuses large and binary files.
read_file(c) ==
    /\ In(c, "read", "read")
    /\ LET p == Target(calls[c].name)
           text == disk[p].text
       IN  IF disk[p].there /\ ~TooLarge(text) /\ ~is_binary_file(text)
           THEN calls' = [calls EXCEPT ![c] =
                    [tool |-> "read", pc |-> "done",
                     result |-> ReadWindow(text, @.arg.offset, @.arg.limit),
                     call |-> [@ EXCEPT !.place = p, !.original = disk[p],
                                        !.torn = HalfWritten(p, c)]]]
           ELSE CallFailed(c)
    /\ UNCHANGED fileSteps /\ ChangeNothing

\* write_file: the size limit, the path again, and the old text if there is one.
WriteReads(c) ==
    /\ In(c, "write", "read")
    /\ IF TooLarge(calls[c].arg) THEN CallFailed(c)
       ELSE LET p == Target(calls[c].name)   \* open follows a dangling link too
            IN  calls' = [calls EXCEPT ![c].pc = "truncate", ![c].place = p,
                             ![c].original = disk[p], ![c].text = calls[c].arg,
                             ![c].torn = HalfWritten(p, c)]
    /\ UNCHANGED fileSteps /\ ChangeNothing

\* edit_file: the strings must differ and the old one occur; no size limit.
EditReads(c) ==
    /\ In(c, "edit", "read")
    /\ LET p == Target(calls[c].name)
           e == calls[c].arg
       IN  IF ~disk[p].there \/ e.old = e.new \/ ~Contains(disk[p].text, e.old)
           THEN CallFailed(c)
           ELSE calls' = [calls EXCEPT ![c].pc = "truncate", ![c].place = p,
                             ![c].original = disk[p], ![c].text = Replaced(disk[p].text, e),
                             ![c].torn = HalfWritten(p, c)]
    /\ UNCHANGED fileSteps /\ ChangeNothing

Newest(p) == <<p>> \o SelectSeq(recent, LAMBDA q : q # p)

\* fs::write opens with truncation (create_dir_all made the parent first).
TruncateFile(c) ==
    /\ calls[c].tool \in {"write", "edit"} /\ calls[c].pc = "truncate"
    /\ LET p == calls[c].place
       IN  /\ disk' = [disk EXCEPT ![p] = [there |-> TRUE, text |-> <<>>]]
           /\ recent' = Newest(p)
           /\ overlap' = IF HalfWritten(p, c) \/ disk[p] # calls[c].original
                         THEN overlap \cup {p} ELSE overlap
    /\ calls' = [calls EXCEPT ![c].pc = "fill"]
    /\ UNCHANGED <<link, serial, wholeTexts, fileSteps>>

\* The call as one step: what it does to the text it finds.
TakesEffect(call, found) ==
    [there |-> TRUE,
     text |-> IF call.tool = "write" THEN call.arg
              ELSE [i \in DOMAIN found.text |->
                      IF found.text[i] = call.arg.old
                         /\ (call.arg.all \/ \A j \in 1..(i - 1) : found.text[j] # call.arg.old)
                      THEN call.arg.new ELSE found.text[i]]]

\* The text is written and the call returns with its patch.
FillFile(c) ==
    /\ calls[c].tool \in {"write", "edit"} /\ calls[c].pc = "fill"
    /\ LET p == calls[c].place
           full == [there |-> TRUE, text |-> calls[c].text]
       IN  /\ disk' = [disk EXCEPT ![p] = full]
           /\ recent' = Newest(p)
           /\ serial' = [serial EXCEPT ![p] = TakesEffect(calls[c], @)]
           /\ overlap' = IF HalfWritten(p, c) THEN overlap \cup {p} ELSE overlap
           /\ wholeTexts' = [wholeTexts EXCEPT ![p] = @ \cup {full}]
    /\ Finish(c, [kind |-> IF calls[c].original.there THEN "update" ELSE "create",
                  patch |-> make_patch(calls[c].original.text, calls[c].text)])
    /\ UNCHANGED <<link, fileSteps>>

-----------------------------------------------------------------------------
(* grep_search and glob_search over the workspace. *)

\* WalkDir does not follow links: "l" itself is never a file of the walk.
collect_search_files == SetToSortSeq({p \in WorkspacePlaces : disk[p].there},
                                     LAMBDA p, q : p = "a" /\ q = "b")

StartGrep(c) ==
    /\ Ready(c)
    /\ \E g \in GrepInputs :
        calls' = [calls EXCEPT ![c] = [tool |-> "grep", pc |-> "search", arg |-> g,
                      todo |-> collect_search_files, files |-> <<>>, lines |-> <<>>,
                      total |-> 0, place |-> "none"]]
    /\ Counted /\ ChangeNothing

\* One file: a file that is gone fails the whole search.
GrepFile(c) ==
    /\ In(c, "grep", "search") /\ calls[c].todo # <<>>
    /\ LET p == Head(calls[c].todo)
           g == calls[c].arg
           text == disk[p].text
       IN  IF ~disk[p].there THEN CallFailed(c)
           ELSE calls' = [calls EXCEPT ![c] =
                   [@ EXCEPT !.todo = Tail(@),
                             !.files = IF Matches(text) > 0 THEN Append(@, p) ELSE @,
                             !.total = @ + Matches(text),
                             !.lines = IF g.mode = "content"
                                       THEN @ \o ContentLines(p, text, g.before, g.after)
                                       ELSE @]]
    /\ UNCHANGED fileSteps /\ ChangeNothing

\* The same limit and offset cut the file names and the lines.
GrepReturns(c) ==
    /\ In(c, "grep", "search") /\ calls[c].todo = <<>>
    /\ LET g == calls[c].arg
           files == apply_limit(calls[c].files, g.limit, g.offset)
           lines == apply_limit(calls[c].lines, g.limit, g.offset)
       IN  Finish(c, [filenames |-> files.items,
                      content |-> IF g.mode = "content" THEN lines.items ELSE <<>>,
                      numMatches |-> IF g.mode = "count" THEN calls[c].total ELSE 0,
                      appliedLimit |-> IF g.mode = "content" THEN lines.limited
                                       ELSE files.limited])
    /\ UNCHANGED fileSteps /\ ChangeNothing

\* {a,b} braces become patterns of their own, walked one after the other;
\* a file is kept the first time it is seen.
GlobPatterns == {<<{"a"}>>, <<{"a", "b"}, {"a"}>>}

StartGlob(c) ==
    /\ Ready(c)
    /\ \E alternatives \in GlobPatterns :
        calls' = [calls EXCEPT ![c] = [tool |-> "glob", pc |-> "search", place |-> "none",
                      todo |-> FlattenSeq([k \in DOMAIN alternatives |->
                                  SelectSeq(collect_search_files,
                                            LAMBDA p : p \in alternatives[k])]),
                      files |-> <<>>]]
    /\ Counted /\ ChangeNothing

GlobFile(c) ==
    /\ In(c, "glob", "search") /\ calls[c].todo # <<>>
    /\ LET p == Head(calls[c].todo)
       IN  IF Contains(calls[c].files, p) THEN calls' = [calls EXCEPT ![c].todo = Tail(@)]
           ELSE IF ~disk[p].there THEN CallFailed(c)
           ELSE calls' = [calls EXCEPT ![c].todo = Tail(@), ![c].files = Append(@, p)]
    /\ UNCHANGED fileSteps /\ ChangeNothing

\* Sorted by modification time, newest first; a file without one comes first.
NewestFirst(files) ==
    LET Rank(p) == IF disk[p].there THEN CHOOSE i \in DOMAIN recent : recent[i] = p ELSE 0
    IN  SortSeq(files, LAMBDA p, q : Rank(p) < Rank(q))

GlobReturns(c) ==
    /\ In(c, "glob", "search") /\ calls[c].todo = <<>>
    /\ LET found == NewestFirst(calls[c].files)
       IN  Finish(c, [filenames |-> SubSeq(found, 1, Shortest(GlobMax, Len(found))),
                      truncated |-> Len(found) > GlobMax])
    /\ UNCHANGED fileSteps /\ ChangeNothing

-----------------------------------------------------------------------------
(* The rest of the world: a file is deleted, the link is set to another    *)
(* place, the process ends in the middle of its calls.                     *)

DeleteFile(p) ==
    /\ disk[p].there /\ Counted
    /\ disk' = [disk EXCEPT ![p] = NoText]
    /\ serial' = [serial EXCEPT ![p] = NoText]
    /\ recent' = SelectSeq(recent, LAMBDA q : q # p)
    /\ overlap' = IF \E c \in Callers : calls[c].tool \in {"write", "edit"}
                                        /\ calls[c].pc \in {"truncate", "fill"} /\ calls[c].place = p
                  THEN overlap \cup {p} ELSE overlap
    /\ UNCHANGED <<link, calls, wholeTexts>>

Repoint ==
    /\ Counted
    /\ \E p \in FilePlaces \ {link} : link' = p
    /\ calls' = [c \in Callers |->
                    IF calls[c].tool \in {"read", "write", "edit"} /\ calls[c].pc = "read"
                       /\ calls[c].name = "l"
                    THEN [calls[c] EXCEPT !.repointed = TRUE] ELSE calls[c]]
    /\ UNCHANGED <<disk, recent, serial, overlap, wholeTexts>>

ProcessEnds ==
    /\ Counted
    /\ \E c \in Callers : calls[c].tool # "none" /\ calls[c].pc = "fill"
    /\ overlap' = overlap \cup {p \in FilePlaces : HalfWritten(p, "nobody")}
    /\ calls' = [c \in Callers |-> NoFileCall]
    /\ UNCHANGED <<disk, link, recent, serial, wholeTexts>>

FileNext ==
    \/ \E c \in Callers :
         \/ StartRead(c) \/ StartWrite(c) \/ StartEdit(c)
         \/ read_file(c) \/ WriteReads(c) \/ EditReads(c) \/ TruncateFile(c) \/ FillFile(c)
         \/ StartGrep(c) \/ GrepFile(c) \/ GrepReturns(c)
         \/ StartGlob(c) \/ GlobFile(c) \/ GlobReturns(c)
    \/ \E p \in FilePlaces : DeleteFile(p)
    \/ Repoint \/ ProcessEnds

-----------------------------------------------------------------------------
Returned(c, tools) == calls[c].tool \in tools /\ calls[c].pc = "done"

\* Writes and edits that did not overlap took effect one after the other:
\* the file is what the calls, each as a single step, make of it.  Two calls
\* that meet on a file between the read and the fill may lose one's change.
FilesAreSerial ==
    \A p \in FilePlaces \ overlap :
        (~\E c \in Callers : calls[c].tool \in {"write", "edit"} /\ calls[c].pc = "fill"
                             /\ calls[c].place = p)
        => disk[p] = serial[p]

\* The original a call reports is a complete text the file has held, unless
\* another call, or a process that ended, had left the file half written.
OriginalsAreWhole ==
    \A c \in Callers :
        Returned(c, {"write", "edit", "read"}) =>
            LET call == calls[c].call
            IN  \/ call.original \in wholeTexts[call.place]
                \/ ~call.original.there
                \/ call.torn
                \/ call.place \in overlap

\* A call works on the place the workspace check allowed, unless the link was
\* set elsewhere after the check or led nowhere when it was checked.
WorksWhereChecked ==
    \A c \in Callers :
        Returned(c, {"write", "edit", "read"}) =>
            LET call == calls[c].call
            IN  \/ call.place = call.checked /\ call.place \in WorkspacePlaces
                \/ call.repointed
                \/ call.dangling

\* Pages of a limit, each starting where the one before ended, give every
\* line once and in order, and a page says it was cut unless it is the last.
PagesCoverTheResults ==
    \A p \in FilePlaces, n \in 1..2 :
        LET text == disk[p].text
            pages == [k \in 1..Len(text) |-> apply_limit(text, <<n>>, (k - 1) * n)]
            windows == [k \in 1..Len(text) |-> ReadWindow(text, (k - 1) * n, n)]
        IN  /\ FlattenSeq([k \in DOMAIN pages |-> pages[k].items]) = text
            /\ FlattenSeq([k \in DOMAIN windows |-> windows[k].content]) = text
            /\ \A k \in DOMAIN pages : (pages[k].limited # <<>>) <=> (k * n < Len(text))

\* A glob search names a file once, and says so when it names fewer than it
\* found; a count that found matches names the files they are in.
SearchesAreHonest ==
    \A c \in Callers :
        /\ Returned(c, {"glob"}) =>
              /\ IsInjective(calls[c].result.filenames)
              /\ calls[c].result.truncated <=> Len(calls[c].call.files) > Len(calls[c].result.filenames)
        /\ Returned(c, {"grep"}) =>
              (calls[c].result.numMatches > 0 => calls[c].result.filenames # <<>>)

\* The file tools: calls that do not overlap are serial, the originals they
\* report are whole texts, they work where the workspace check allowed,
\* pages cover the results, and searches say when they leave something out.
FileToolsSound == FilesAreSerial /\ OriginalsAreWhole /\ WorksWhereChecked
                  /\ PagesCoverTheResults /\ SearchesAreHonest
=============================================================================
