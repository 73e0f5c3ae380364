----------------------------- MODULE SessionFile -----------------------------
(***************************************************************************)
(* The transcript of a session in memory and in its JSONL file              *)
(* (runtime/session.rs): appends, snapshots with rotation, and what a       *)
(* restart finds after the process died or the disk was full in the middle. *)
(*                                                                         *)
(* A message is its number.  An append is two writes, the record and its    *)
(* newline, so a file may end in text without a newline; the next record is *)
(* then glued to it and the line is no longer JSON (Bad).  The header line  *)
(* and the prompt history are left out.                                     *)
(***************************************************************************)
EXTENDS Integers, Sequences, SequencesExt

CONSTANTS
  MaxMessages,        \* bound on the messages of a behaviour
  MaxFaults,          \* bound on the crashes and failed writes
  ROTATE_AFTER,       \* lines at which a snapshot rotates the file (bytes in the code)
  MAX_ROTATED_FILES

ASSUME FileAssumption ==
  /\ MaxMessages \in Nat /\ MaxFaults \in Nat
  /\ ROTATE_AFTER \in Nat \ {0} /\ MAX_ROTATED_FILES \in Nat

VARIABLES
  pc,        \* "down", "idle", or where an append or a snapshot is
  saver,     \* who makes the snapshot: "append", "resume", "persist"
  messages,  \* Session::messages
  main,      \* the session file
  rotated,   \* the rotated files, oldest first
  made,      \* messages made so far
  faults,    \* crashes and failed writes so far
  cut,       \* history: a write to the present file was cut short
  kept,      \* history: messages acknowledged by push_message
  excused    \* history: messages the environment or the rotation limit gave up

vars == <<pc, saver, messages, main, rotated, made, faults, cut, kept, excused>>

Bad  == -1      \* text that does not parse
None == 0       \* no text

\* lines: the terminated lines; open: what follows the last newline.
NoFile == [exists |-> FALSE, lines |-> <<>>, open |-> None]
File(lines, open) == [exists |-> TRUE, lines |-> lines, open |-> open]

Init ==
  /\ pc = "idle" /\ saver = "append"
  /\ messages = <<>> /\ main = NoFile /\ rotated = <<>>
  /\ made = 0 /\ faults = 0
  /\ cut = FALSE /\ kept = {} /\ excused = {}

-----------------------------------------------------------------------------
(* Reading a file *)

Text(f) == IF f.open = None THEN f.lines ELSE Append(f.lines, f.open)

\* from_jsonl gives up at the first line that does not parse.
Readable(f) == f.exists /\ Bad \notin ToSet(Text(f))

\* The acknowledged messages that go with a file; of an unreadable one nobody
\* can tell.
Contents(f) == IF Bad \in ToSet(Text(f)) THEN kept ELSE ToSet(Text(f))

-----------------------------------------------------------------------------
(* push_message *)

\* The message is in memory before it is on disk.  A missing file is made by a
\* snapshot, else the record is appended.
PushMessage ==
  /\ pc = "idle" /\ made < MaxMessages
  /\ made' = made + 1
  /\ messages' = Append(messages, made + 1)
  /\ IF main.exists THEN pc' = "record" /\ UNCHANGED saver
                    ELSE pc' = "rotate" /\ saver' = "append"
  /\ UNCHANGED <<main, rotated, faults, cut, kept, excused>>

\* The record lands behind whatever the file ends with.
WriteRecord ==
  /\ pc = "record" /\ main.exists
  /\ main' = [main EXCEPT !.open = IF @ = None THEN Last(messages) ELSE Bad]
  /\ pc' = "newline"
  /\ UNCHANGED <<saver, messages, rotated, made, faults, cut, kept, excused>>

Acknowledge ==
  /\ pc' = "idle"
  /\ kept' = kept \cup {Last(messages)}

WriteNewline ==
  /\ pc = "newline" /\ main.exists
  /\ main' = File(Append(main.lines, main.open), None)
  /\ Acknowledge
  /\ UNCHANGED <<saver, messages, rotated, made, faults, cut, excused>>

\* The file was removed after it was found: what is written goes with it
\* (newline) or it cannot be opened (record).
WriteToNoFile ==
  /\ pc \in {"record", "newline"} /\ ~main.exists
  /\ IF pc = "newline"
       THEN /\ Acknowledge
            /\ excused' = excused \cup {Last(messages)}
            /\ UNCHANGED messages
       ELSE /\ pc' = "idle"
            /\ messages' = Front(messages)
            /\ UNCHANGED <<kept, excused>>
  /\ UNCHANGED <<saver, main, rotated, made, faults, cut>>

\* The disk is full: nothing, a part of the record, or all of it but the newline
\* has been written.  push_message takes the message back from memory.
WriteFails ==
  /\ pc \in {"record", "newline"} /\ main.exists /\ faults < MaxFaults
  /\ faults' = faults + 1
  /\ main' \in IF pc = "record" THEN {main, [main EXCEPT !.open = Bad]} ELSE {main}
  /\ cut' = (cut \/ main' # main \/ pc = "newline")
  /\ pc' = "idle"
  /\ messages' = Front(messages)
  /\ UNCHANGED <<saver, rotated, made, kept, excused>>

-----------------------------------------------------------------------------
(* save_to_path *)

PersistSession ==
  /\ pc = "idle"
  /\ pc' = "rotate" /\ saver' = "persist"
  /\ UNCHANGED <<messages, main, rotated, made, faults, cut, kept, excused>>

\* mutant: a large file is removed instead of renamed
RotateRemoves ==
  /\ pc = "rotate"
  /\ pc' = "write"
  /\ IF main.exists /\ Len(Text(main)) >= ROTATE_AFTER
       THEN /\ main' = NoFile /\ cut' = FALSE
       ELSE UNCHANGED <<main, cut>>
  /\ UNCHANGED <<saver, messages, rotated, made, faults, kept, excused>>

\* rotate_session_file_if_needed: a large file is renamed.
Rotate ==
  /\ pc = "rotate"
  /\ pc' = "write"
  /\ IF main.exists /\ Len(Text(main)) >= ROTATE_AFTER
       THEN /\ rotated' = Append(rotated, main)
            /\ main' = NoFile /\ cut' = FALSE
       ELSE UNCHANGED <<rotated, main, cut>>
  /\ UNCHANGED <<saver, messages, made, faults, kept, excused>>

\* write_atomic: the snapshot goes into a temporary file of its own name,
WriteTemp ==
  /\ pc = "write"
  /\ pc' = "rename"
  /\ UNCHANGED <<saver, messages, main, rotated, made, faults, cut, kept, excused>>

\* which is renamed over the session file, also over one that cannot be read.
RenameTemp ==
  /\ pc = "rename"
  /\ pc' = "cleanup"
  /\ main' = File(messages, None)
  /\ cut' = FALSE
  /\ excused' = IF Readable(main) THEN excused ELSE excused \cup Contents(main)
  /\ UNCHANGED <<saver, messages, rotated, made, faults, kept>>

\* cleanup_rotated_logs removes the oldest files over the limit.
Cleanup ==
  /\ pc = "cleanup"
  /\ LET over == IF Len(rotated) > MAX_ROTATED_FILES THEN Len(rotated) - MAX_ROTATED_FILES ELSE 0
     IN /\ rotated' = SubSeq(rotated, over + 1, Len(rotated))
        /\ excused' = excused \cup UNION {Contents(rotated[i]) : i \in 1 .. over}
  /\ pc' = "idle"
  /\ kept' = IF saver = "append" THEN kept \cup {Last(messages)} ELSE kept
  /\ UNCHANGED <<saver, messages, main, made, faults, cut>>

\* A step fails.  push_message takes its message back, the others report.
SaveFails ==
  /\ pc \in {"rotate", "write", "rename", "cleanup"} /\ faults < MaxFaults
  /\ faults' = faults + 1
  /\ pc' = "idle"
  /\ IF saver = "append"
       THEN /\ messages' = Front(messages)
            /\ cut' = (cut \/ pc = "cleanup")
       ELSE UNCHANGED <<messages, cut>>
  /\ UNCHANGED <<saver, main, rotated, made, kept, excused>>

-----------------------------------------------------------------------------
(* The process dies and comes back; the gateway deletes the file *)

Crash ==
  /\ pc # "down" /\ faults < MaxFaults
  /\ faults' = faults + 1
  /\ pc' = "down"
  /\ messages' = <<>>
  /\ cut' = (cut \/ pc = "newline")
  /\ UNCHANGED <<saver, main, rotated, made, kept, excused>>

\* A record the crash left half written.
CrashInRecord ==
  /\ pc = "record" /\ main.exists /\ faults < MaxFaults
  /\ faults' = faults + 1
  /\ pc' = "down"
  /\ messages' = <<>>
  /\ main' = [main EXCEPT !.open = Bad]
  /\ cut' = TRUE
  /\ UNCHANGED <<saver, rotated, made, kept, excused>>

\* ResumeSession: the file is loaded; if that fails a fresh session is saved
\* over it.
Resume ==
  /\ pc = "down"
  /\ IF Readable(main)
       THEN /\ pc' = "idle" /\ messages' = Text(main)
            /\ UNCHANGED saver
       ELSE /\ pc' = "rotate" /\ messages' = <<>>
            /\ saver' = "resume"
  /\ UNCHANGED <<main, rotated, made, faults, cut, kept, excused>>

\* DELETE /api/sessions removes the session file.
DeleteFile ==
  /\ main.exists
  /\ main' = NoFile
  /\ cut' = FALSE
  /\ excused' = excused \cup Contents(main)
  /\ UNCHANGED <<pc, saver, messages, rotated, made, faults, kept>>

Next ==
  \/ PushMessage \/ WriteRecord \/ WriteNewline \/ WriteToNoFile \/ WriteFails
  \/ PersistSession \/ Rotate \/ WriteTemp \/ RenameTemp \/ Cleanup \/ SaveFails
  \/ Crash \/ CrashInRecord \/ Resume \/ DeleteFile

Spec == Init /\ [][Next]_vars

-----------------------------------------------------------------------------
(* Properties *)

Numbers == 1 .. MaxMessages
Files == {main} \cup ToSet(rotated)

TypeOK ==
  /\ pc \in {"down", "idle", "record", "newline", "rotate", "write", "rename", "cleanup"}
  /\ saver \in {"append", "resume", "persist"}
  /\ ToSet(messages) \subseteq Numbers
  /\ \A f \in Files : ToSet(f.lines) \subseteq Numbers \cup {Bad} /\ f.open \in Numbers \cup {Bad, None}
  /\ \A i \in 1 .. Len(rotated) : rotated[i].exists
  /\ faults \in 0 .. MaxFaults
  /\ cut \in BOOLEAN
  /\ kept \subseteq Numbers

(* Between operations the file replays to what is in memory, whatever crashes,
   snapshots and rotations came before, until a write to it is cut short or it
   is deleted. *)
FileReplaysMemory ==
  pc = "idle" /\ main.exists /\ ~cut => Readable(main) /\ Text(main) = messages

(* A crash in the middle of a snapshot never damages the file: the only thing
   that makes it unreadable is an append cut short (session.rs write_atomic). *)
OnlyAppendsDamage ==
  main.exists /\ ~Readable(main) => cut

(* No acknowledged message is lost by the program itself: it is in memory, in
   the file or in a rotated one, unless the file was deleted, the file could not
   be read and Resume replaced it, or its rotated file was over the limit. *)
AcknowledgedAreSomewhere ==
  \A m \in kept \ excused :
    m \in ToSet(messages) \/ \E f \in Files : m \in ToSet(Text(f)) \/ Bad \in ToSet(Text(f))

(* Rotated files do not pile up: over the limit there is at most the one a
   running snapshot has made and one for each snapshot that was interrupted. *)
RotatedFilesBounded ==
  Len(rotated) <= MAX_ROTATED_FILES + faults + (IF pc \in {"idle", "down"} THEN 0 ELSE 1)

\* A session file replays to the session in memory except where a crash cut an
\* append, acknowledged messages are in it or in a rotated copy, and the copies
\* are bounded.
SessionFileSound ==
  /\ TypeOK
  /\ FileReplaysMemory
  /\ OnlyAppendsDamage
  /\ AcknowledgedAreSomewhere
  /\ RotatedFilesBounded
=============================================================================
