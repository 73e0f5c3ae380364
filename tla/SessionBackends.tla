--------------------------- MODULE SessionBackends ---------------------------
(***************************************************************************)
(* The SessionBackend trait (session-persistence/src/lib.rs) and its three  *)
(* implementations, driven side by side by the same calls: MemoryBackend,   *)
(* JsonlBackend (a directory per session) and SqliteBackend (five tables,   *)
(* the rows of four of them owned by a session_meta row).                   *)
(*                                                                         *)
(* A stored item is the number of the call that stored it, with its step    *)
(* where it has one, so that the contents of two backends can be compared.  *)
(* Calls are atomic: the first and the third backend run under a mutex.     *)
(***************************************************************************)
EXTENDS Integers, Sequences, FiniteSets, SequencesExt

CONSTANTS
  Sids,      \* session ids
  Users,     \* values of SessionRecord::username
  NoUser,    \* its None
  Steps,     \* step indices
  MaxOps     \* bound on the calls of a behaviour

ASSUME BackendAssumption ==
  /\ NoUser \notin Users
  /\ Steps \subseteq Nat
  /\ MaxOps \in Nat

VARIABLES
  memory,   \* MemoryBackend::inner
  jsonl,    \* the files under JsonlBackend::root
  sqlite,   \* the tables of sessions.db
  ops,      \* calls so far
  saved,    \* history: the last record saved per session and not deleted since
  stored    \* history: per session, the checkpoints saved since it was created

vars == <<memory, jsonl, sqlite, ops, saved, stored>>

NoRecord == [at |-> 0, user |-> NoUser]
Record(at, user) == [at |-> at, user |-> user]
Row(at, step) == [at |-> at, step |-> step]

Nothing == [meta        |-> [s \in Sids |-> NoRecord],
            messages    |-> [s \in Sids |-> <<>>],
            checkpoints |-> [s \in Sids |-> <<>>],
            prompts     |-> [s \in Sids |-> <<>>],
            compaction  |-> [s \in Sids |-> 0]]

\* Of the checkpoints a table has a set of rows: their order is the reader's.
NoTables == [Nothing EXCEPT !.checkpoints = [s \in Sids |-> {}]]

\* A JSONL root also has directories: of a session, and of a session of a user.
NoFiles == [meta        |-> [s \in Sids |-> NoRecord],
            messages    |-> [s \in Sids |-> <<>>],
            checkpoints |-> [s \in Sids |-> <<>>],
            prompts     |-> [s \in Sids |-> <<>>],
            compaction  |-> [s \in Sids |-> 0],
            dirs        |-> {},
            user_meta   |-> [us \in Users \X Sids |-> NoRecord]]

Init ==
  /\ memory = Nothing /\ jsonl = NoFiles /\ sqlite = NoTables
  /\ ops = 0
  /\ saved = [s \in Sids |-> NoRecord]
  /\ stored = [s \in Sids |-> {}]

-----------------------------------------------------------------------------
(* MemoryBackend: five maps *)

memory_save_session_meta(s, r) == [memory EXCEPT !.meta[s] = r]

\* Only the record goes.
memory_delete_session(s) == [memory EXCEPT !.meta[s] = NoRecord]

memory_append_message(s, row) == [memory EXCEPT !.messages[s] = Append(@, row)]
memory_save_checkpoint(s, row) == [memory EXCEPT !.checkpoints[s] = Append(@, row)]
memory_delete_checkpoints(s) == [memory EXCEPT !.checkpoints[s] = <<>>]
memory_save_prompt_history(s, at) == [memory EXCEPT !.prompts[s] = Append(@, at)]
memory_save_compaction(s, at) == [memory EXCEPT !.compaction[s] = at]

-----------------------------------------------------------------------------
(* JsonlBackend: meta.json of a user's session lives in the user's directory, *)
(* everything else in the directory of the session                            *)

jsonl_save_session_meta(s, r) ==
  IF r.user = NoUser
    THEN [jsonl EXCEPT !.meta[s] = r, !.dirs = @ \cup {s}]
    ELSE [jsonl EXCEPT !.user_meta[<<r.user, s>>] = r]

\* remove_dir_all of the session's directory.
jsonl_delete_session(s) ==
  IF s \in jsonl.dirs
    THEN [jsonl EXCEPT !.meta[s] = NoRecord, !.messages[s] = <<>>, !.checkpoints[s] = <<>>,
                       !.prompts[s] = <<>>, !.compaction[s] = 0, !.dirs = @ \ {s}]
    ELSE jsonl

\* The line is appended and the record, if there is one, rewritten.
jsonl_append_message(s, row) ==
  [jsonl EXCEPT !.messages[s] = Append(@, row),
                !.meta[s] = IF @ = NoRecord THEN @ ELSE [@ EXCEPT !.at = row.at],
                !.dirs = @ \cup {s}]

jsonl_save_checkpoint(s, row) ==
  [jsonl EXCEPT !.checkpoints[s] = Append(@, row), !.dirs = @ \cup {s}]

jsonl_delete_checkpoints(s) == [jsonl EXCEPT !.checkpoints[s] = <<>>]

jsonl_save_prompt_history(s, at) ==
  [jsonl EXCEPT !.prompts[s] = Append(@, at), !.dirs = @ \cup {s}]

jsonl_save_compaction(s, at) == [jsonl EXCEPT !.compaction[s] = at, !.dirs = @ \cup {s}]

-----------------------------------------------------------------------------
(* SqliteBackend: foreign keys are on, children cascade *)

\* A session_meta row is deleted, and its rows in the other tables with it.
cascade(db, s) ==
  [db EXCEPT !.meta[s] = NoRecord, !.messages[s] = <<>>, !.checkpoints[s] = {},
             !.prompts[s] = <<>>, !.compaction[s] = 0]

\* INSERT OR REPLACE deletes the old row before it inserts the new one.
sqlite_save_session_meta(s, r) == [cascade(sqlite, s) EXCEPT !.meta[s] = r]

sqlite_delete_session(s) == cascade(sqlite, s)

\* A row of a session without a session_meta row is refused.
HasParent(s) == sqlite.meta[s] # NoRecord

sqlite_append_message(s, row) ==
  IF HasParent(s)
    THEN [sqlite EXCEPT !.messages[s] = Append(@, row), !.meta[s].at = row.at]
    ELSE sqlite

\* UNIQUE (session_id, step_index): a checkpoint replaces the one of its step.
sqlite_save_checkpoint(s, row) ==
  IF HasParent(s)
    THEN [sqlite EXCEPT !.checkpoints[s] = {c \in @ : c.step # row.step} \cup {row}]
    ELSE sqlite

sqlite_delete_checkpoints(s) == [sqlite EXCEPT !.checkpoints[s] = {}]

sqlite_save_prompt_history(s, at) ==
  IF HasParent(s) THEN [sqlite EXCEPT !.prompts[s] = Append(@, at)] ELSE sqlite

sqlite_save_compaction(s, at) ==
  IF HasParent(s) THEN [sqlite EXCEPT !.compaction[s] = at] ELSE sqlite

-----------------------------------------------------------------------------
(* What the readers of the trait answer *)

load_session_meta(b, s) == b.meta[s]

\* JsonlBackend lists the directories of sessions/: one with a meta.json is a
\* session, any other is taken for a user's, whose sessions it loads by id.
list_sessions(b) == {s \in Sids : load_session_meta(b, s) # NoRecord}

load_messages(b, s) == b.messages[s]

\* ORDER BY step_index ASC, id ASC: the id of a row grows with every insertion.
Before(x, y) == x.step < y.step \/ (x.step = y.step /\ x.at < y.at)
IsOrdered(q) == \A i, j \in DOMAIN q : i < j => Before(q[i], q[j])
OrderedByStep(rows) ==
  CHOOSE q \in [1 .. Cardinality(rows) -> rows] : IsOrdered(q) /\ ToSet(q) = rows

sqlite_load_messages(s) == OrderedByStep(ToSet(sqlite.messages[s]))

list_checkpoints(b, s) == b.checkpoints[s]
sqlite_list_checkpoints(s) == OrderedByStep(sqlite.checkpoints[s])

NoRow == [at |-> 0, step |-> 0]
LastOf(q) == IF q = <<>> THEN NoRow ELSE Last(q)

\* mutant: ORDER BY step_index ASC LIMIT 1
sqlite_load_oldest_checkpoint(s) ==
  IF sqlite.checkpoints[s] = {} THEN NoRow ELSE Head(sqlite_list_checkpoints(s))

\* The last line of the file and the last of the vector; the highest step in SQL.
load_latest_checkpoint(b, s) == LastOf(list_checkpoints(b, s))
sqlite_load_latest_checkpoint(s) == LastOf(sqlite_list_checkpoints(s))

\* The first that matches; in SQL there is at most one.
load_checkpoint_at_step(b, s, step) ==
  LET q == list_checkpoints(b, s)
      at == {i \in DOMAIN q : q[i].step = step}
  IN IF at = {} THEN NoRow ELSE q[CHOOSE i \in at : \A j \in at : i <= j]

sqlite_load_checkpoint_at_step(s, step) ==
  LET at == {c \in sqlite.checkpoints[s] : c.step = step}
  IN IF at = {} THEN NoRow ELSE CHOOSE c \in at : TRUE

-----------------------------------------------------------------------------
(* The calls *)

Call == ops < MaxOps /\ ops' = ops + 1

save_session_meta(s, u) ==
  /\ Call
  /\ LET r == Record(ops + 1, u)
     IN /\ memory' = memory_save_session_meta(s, r)
        /\ jsonl' = jsonl_save_session_meta(s, r)
        /\ sqlite' = sqlite_save_session_meta(s, r)
        /\ saved' = [saved EXCEPT ![s] = r]
  /\ UNCHANGED stored

delete_session(s) ==
  /\ Call
  /\ memory' = memory_delete_session(s)
  /\ jsonl' = jsonl_delete_session(s)
  /\ sqlite' = sqlite_delete_session(s)
  /\ saved' = [saved EXCEPT ![s] = NoRecord]
  /\ stored' = [stored EXCEPT ![s] = {}]

append_message(s, step) ==
  /\ Call
  /\ LET row == Row(ops + 1, step)
     IN /\ memory' = memory_append_message(s, row)
        /\ jsonl' = jsonl_append_message(s, row)
        /\ sqlite' = sqlite_append_message(s, row)
  /\ UNCHANGED <<saved, stored>>

save_checkpoint(s, step) ==
  /\ Call
  /\ LET row == Row(ops + 1, step)
     IN /\ memory' = memory_save_checkpoint(s, row)
        /\ jsonl' = jsonl_save_checkpoint(s, row)
        /\ sqlite' = sqlite_save_checkpoint(s, row)
        /\ stored' = [stored EXCEPT ![s] = IF saved[s] = NoRecord THEN @ ELSE @ \cup {step}]
  /\ UNCHANGED saved

delete_checkpoints(s) ==
  /\ Call
  /\ memory' = memory_delete_checkpoints(s)
  /\ jsonl' = jsonl_delete_checkpoints(s)
  /\ sqlite' = sqlite_delete_checkpoints(s)
  /\ stored' = [stored EXCEPT ![s] = {}]
  /\ UNCHANGED saved

save_prompt_history(s) ==
  /\ Call
  /\ memory' = memory_save_prompt_history(s, ops + 1)
  /\ jsonl' = jsonl_save_prompt_history(s, ops + 1)
  /\ sqlite' = sqlite_save_prompt_history(s, ops + 1)
  /\ UNCHANGED <<saved, stored>>

save_compaction(s) ==
  /\ Call
  /\ memory' = memory_save_compaction(s, ops + 1)
  /\ jsonl' = jsonl_save_compaction(s, ops + 1)
  /\ sqlite' = sqlite_save_compaction(s, ops + 1)
  /\ UNCHANGED <<saved, stored>>

Next == \E s \in Sids :
  \/ \E u \in Users \cup {NoUser} : save_session_meta(s, u)
  \/ delete_session(s)
  \/ \E step \in Steps : append_message(s, step) \/ save_checkpoint(s, step)
  \/ delete_checkpoints(s)
  \/ save_prompt_history(s)
  \/ save_compaction(s)

Spec == Init /\ [][Next]_vars

-----------------------------------------------------------------------------
(* Properties *)

Numbers == 0 .. MaxOps
Rows == [at : Numbers, step : Steps]

StoredOK(b, s) ==
  /\ b.meta[s].at \in Numbers /\ b.meta[s].user \in Users \cup {NoUser}
  /\ ToSet(b.messages[s]) \subseteq Rows
  /\ ToSet(b.prompts[s]) \subseteq Numbers
  /\ b.compaction[s] \in Numbers

TypeOK ==
  /\ ops \in Numbers
  /\ \A s \in Sids :
       /\ StoredOK(memory, s) /\ StoredOK(jsonl, s) /\ StoredOK(sqlite, s)
       /\ ToSet(memory.checkpoints[s]) \cup ToSet(jsonl.checkpoints[s]) \subseteq Rows
       /\ sqlite.checkpoints[s] \subseteq Rows
       /\ \A c, d \in sqlite.checkpoints[s] : c.step = d.step => c = d
  /\ jsonl.dirs \subseteq Sids

(* The backends differ in what they forget, never in what they remember: what
   sqlite has of a session the JSONL files have too, and what these have memory
   has, in the same order of storing. *)
NestedContents ==
  \A s \in Sids :
    /\ IsSuffix(load_messages(sqlite, s), load_messages(jsonl, s))
    /\ IsSuffix(load_messages(jsonl, s), load_messages(memory, s))
    /\ sqlite.checkpoints[s] \subseteq ToSet(jsonl.checkpoints[s])
    /\ IsSuffix(jsonl.checkpoints[s], memory.checkpoints[s])
    /\ IsSuffix(sqlite.prompts[s], jsonl.prompts[s])
    /\ IsSuffix(jsonl.prompts[s], memory.prompts[s])
    /\ sqlite.compaction[s] \in {0, jsonl.compaction[s]}
    /\ jsonl.compaction[s] \in {0, memory.compaction[s]}

(* Without usernames the three backends agree on which sessions there are and
   on the age of their records, whatever else is called in between. *)
RecordsAgree ==
  (\A s \in Sids, u \in Users : jsonl.user_meta[u, s] = NoRecord) =>
    /\ list_sessions(memory) = list_sessions(jsonl)
    /\ list_sessions(jsonl) = list_sessions(sqlite)
    /\ \A s \in Sids : load_session_meta(jsonl, s) = load_session_meta(sqlite, s)

\* Is q sorted by step, each step once if strict?
InOrder(q, strict) ==
  \A i, j \in 1 .. Len(q) : i < j => q[i].step < q[j].step \/ (~strict /\ q[i].step = q[j].step)

(* While sqlite has lost nothing and steps are stored in order, its readers,
   which sort by step, answer as those of the files, which keep the order of
   storing. *)
ReadersAgree ==
  \A s \in Sids :
    /\ Len(sqlite.messages[s]) = Len(jsonl.messages[s]) /\ InOrder(jsonl.messages[s], FALSE)
         => sqlite_load_messages(s) = load_messages(jsonl, s)
    /\ ToSet(jsonl.checkpoints[s]) \subseteq sqlite.checkpoints[s] /\ InOrder(jsonl.checkpoints[s], TRUE)
         => /\ sqlite_list_checkpoints(s) = list_checkpoints(jsonl, s)
            /\ sqlite_load_latest_checkpoint(s) = load_latest_checkpoint(jsonl, s)
            /\ \A step \in Steps :
                 sqlite_load_checkpoint_at_step(s, step) = load_checkpoint_at_step(jsonl, s, step)

(* A checkpoint of a session with a record is listed until it is deleted, in
   every backend. *)
CheckpointsAreKept ==
  \A s \in Sids :
    LET lists == {list_checkpoints(memory, s), list_checkpoints(jsonl, s), sqlite_list_checkpoints(s)}
    IN \A q \in lists : stored[s] \subseteq {c.step : c \in ToSet(q)}

\* The three backends differ only in what they forget, agree on the sessions
\* there are, and read the same in order.
SessionBackendsSound ==
  ops > 0 => TypeOK /\ NestedContents /\ RecordsAgree /\ ReadersAgree
=============================================================================
