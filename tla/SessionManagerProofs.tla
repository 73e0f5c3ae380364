------------------------ MODULE SessionManagerProofs ------------------------
(***************************************************************************)
(* Proof that the session kernel keeps its books (SessionManagerSound).    *)
(* The inductive invariant says what the code relies on without writing it *)
(* down: which calls may be at which stage, that a queued command is the   *)
(* only one of its call, whose entry an entry is, and that a turn that     *)
(* runs is at the head of its entry's lock queue.                          *)
(***************************************************************************)
EXTENDS SessionManager, FiniteSetTheorems, SequenceTheorems, TLAPS

\* Every call is where its kind can be; it has a session unless it has not begun.
Staged ==
  /\ \A c \in Creators \cup Resumers : stage[c] \in {"idle", "sent", "done"}
  /\ \A c \in Turns :
       stage[c] \in {"idle", "sent", "spawned", "waiting", "done"} \cup Running
  /\ \A c \in Closers :
       stage[c] \in {"idle", "looked_up", "cancelling", "cancelled", "sent", "spawned",
                     "waiting", "usage_known", "removed", "done"}
  /\ \A c \in Cancellers : stage[c] \in {"idle", "looked_up", "cancelling", "cancelled"}
  /\ \A c \in Clients : stage[c] = "idle" <=> target[c] = NoTarget

\* The kind of call that sends a command.
Senders(op) ==
  IF op = "create" THEN Creators
  ELSE IF op = "turn" THEN Turns
  ELSE IF op = "resume" THEN Resumers
  ELSE Closers

\* A command in the channel is awaited by its call, which has no other there.
Queued ==
  /\ \A i \in 1 .. Len(cmd_q) :
       stage[cmd_q[i].by] = "sent" /\ cmd_q[i].by \in Senders(cmd_q[i].op)
  /\ \A i, j \in 1 .. Len(cmd_q) : cmd_q[i].by = cmd_q[j].by => i = j

\* Sessions are created once, known to others afterwards only, and stay in the map
\* until they are first removed.
Known ==
  /\ \A c, d \in Creators : target[c] = target[d] /\ target[c] # NoTarget => c = d
  /\ \A c \in Clients \ Creators : stage[c] # "idle" => target[c] \in Issued
  /\ \A s \in Sessions \ Issued :
       sessions[s] = 0 /\ file[s] = NoFile /\ \A cp \in Taken : cp[1] # s
  /\ \A s \in Issued : NeverRemoved(s) => sessions[s] # 0

\* Entries that are not built yet are blank and nobody's.
Blank ==
  /\ \A s \in Sessions : sessions[s] <= built
  /\ \A c \in Clients : entry[c] <= built
  /\ \A k \in Entries :
       k > built => lock[k] = <<>> /\ messages[k] = 0 /\ msg_count[k] = 0 /\ step_index[k] = 0

\* An entry belongs to one session: the calls that hold it, and the map, agree.
Owned ==
  /\ \A c, d \in Clients : entry[c] = entry[d] /\ entry[c] # 0 => target[c] = target[d]
  /\ \A c \in Clients, s \in Sessions :
       entry[c] = sessions[s] /\ entry[c] # 0 => target[c] = s
  /\ \A c \in Clients :
       entry[c] # 0 /\ NeverRemoved(target[c]) => entry[c] = sessions[target[c]]

\* Which calls hold an entry.
Holding ==
  \A c \in Clients :
    /\ stage[c] \in {"spawned", "waiting", "looked_up", "cancelling"} \cup Running
         => entry[c] # 0
    /\ stage[c] \in {"idle", "sent", "cancelled", "usage_known", "removed"} => entry[c] = 0

\* The queue of a lock: each waits once and for its own entry, only the head runs,
\* and a turn that runs is the head.
LockQueue ==
  /\ \A k \in Entries :
       /\ \A i \in 1 .. Len(lock[k]) :
            /\ entry[lock[k][i]] = k
            /\ stage[lock[k][i]] \in {"waiting"} \cup Running
            /\ i > 1 => stage[lock[k][i]] = "waiting"
       /\ \A i, j \in 1 .. Len(lock[k]) : lock[k][i] = lock[k][j] => i = j
  /\ \A t \in Turns : stage[t] \in Running => Holder(t)

\* The published count lags only between the first message and its publication.
CountPublished ==
  \A k \in Entries :
    (\A t \in Turns : stage[t] \in Running \ {"unlock"} => entry[t] # k)
      => msg_count[k] = messages[k]

\* The stages of a turn that has no answer yet.
Unsettled == {"idle", "sent", "spawned", "waiting", "checking", "calling", "tool", "proxy"}

\* The flag of an entry is set just when its unanswered turns have seen a cancel that
\* nothing erased.  Only a turn that got an entry is cancelled.
FlagNoted ==
  /\ NoCancelIsIgnored
  /\ \A t \in Turns :
       /\ result[t] = "cancelled" => entry[t] # 0
       /\ stage[t] \in Unsettled => result[t] = "none"
       /\ entry[t] = 0 => cancel_seen[t] # "yes"
       /\ entry[t] # 0 /\ result[t] = "none" => (cancel_flag[entry[t]] <=> cancel_seen[t] = "yes")

\* The stages of a turn after its checkpoint.
Saved == {"load_meta", "save_meta", "publish", "unlock", "done"}

\* A turn that went past the iteration limit has left its loop.
Looping == \A t \in Turns : iteration[t] > MaxIterations => stage[t] \in {"finish"} \cup Saved

\* There are finitely many live sessions, and the counter says how many.
Counted ==
  /\ IsFiniteSet({s \in Sessions : sessions[s] # 0})
  /\ MapsAgree

IInv ==
  /\ TypeOK /\ Staged /\ Queued /\ Known /\ Blank /\ Owned /\ Holding /\ LockQueue
  /\ CountPublished /\ Counted /\ TranscriptOnDisk /\ FlagNoted /\ CancelledForAReason
  /\ OneCheckpointPerTurn /\ Looping

-----------------------------------------------------------------------------
(* What the invariant says of single calls *)

Files == [n : Int, compacted : BOOLEAN]


USE DEF Entries, OwnToken, memoryVars

LEMMA ClientKinds ==
  /\ Creators \subseteq Clients /\ Turns \subseteq Clients /\ Closers \subseteq Clients
  /\ Resumers \subseteq Clients /\ Cancellers \subseteq Clients
  BY DEF Clients

\* A call that has begun knows its session.
LEMMA HasTarget ==
  ASSUME TypeOK, Staged, NEW c \in Clients, stage[c] # "idle"
  PROVE  target[c] \in Sessions
  BY DEF TypeOK, Staged

LEMMA IssuedSessions ==
  ASSUME TypeOK, Staged
  PROVE  Issued \subseteq Sessions
  BY HasTarget, ClientKinds DEF Issued

LEMMA CallersAreClients ==
  ASSUME TypeOK
  PROVE  \A i \in 1 .. Len(cmd_q) : cmd_q[i].by \in Clients
  <1> DEFINE Cmd == [op : {"create", "turn", "resume", "usage", "remove"}, by : Clients]
  <1>1. cmd_q \in Seq(Cmd)
    BY DEF TypeOK
  <1>2. \A i \in 1 .. Len(cmd_q) : cmd_q[i] \in Cmd
    <2> HIDE DEF Cmd
    <2> QED
      BY <1>1
  <1> QED
    BY <1>2

\* The steps of a set of checkpoints that has one more.
LEMMA SecondOfAdded ==
  ASSUME NEW A, NEW a, NEW b
  PROVE  {x[2] : x \in A \cup {<<a, b>>}} = {x[2] : x \in A} \cup {b}
  <1>1. <<a, b>>[2] = b
    OBVIOUS
  <1>2. \A y : y \in {x[2] : x \in A \cup {<<a, b>>}} <=> y \in {x[2] : x \in A} \cup {b}
    BY <1>1, Zenon
  <1> QED
    BY <1>2, Zenon

\* Two turns that run on one entry are both the head of its lock.
LEMMA OneRuns ==
  ASSUME LockQueue, NEW t \in Turns, NEW u \in Turns,
         stage[t] \in Running, stage[u] \in Running, entry[t] = entry[u]
  PROVE  t = u
  BY DEF LockQueue, Holder

-----------------------------------------------------------------------------
(* A turn that holds its lock moves on: only its own stage changes among what *)
(* orders the calls.                                                          *)

LEMMA TurnMoves ==
  ASSUME IInv, NEW t \in Turns, NEW s \in Running,
         stage[t] \in {"waiting"} \cup Running, Holder(t),
         stage' = [stage EXCEPT ![t] = s],
         UNCHANGED <<cmd_q, storeVars, lock, target, entry>>
  PROVE  /\ Staged' /\ Queued' /\ Owned' /\ Holding' /\ LockQueue' /\ Counted'
         /\ Issued' = Issued
         /\ \A r \in Sessions : NeverRemoved(r)' <=> NeverRemoved(r)
  <1> USE ClientKinds
  <1>1. /\ stage'[t] = s
        /\ \A c \in Clients \ {t} : stage'[c] = stage[c]
    BY DEF IInv, TypeOK
  <1>2. t \notin Creators /\ t \notin Closers /\ t \notin Resumers /\ t \notin Cancellers
    BY ManagerAssumption
  <1>3. Issued' = Issued
    BY <1>1, <1>2 DEF Issued
  <1>4. \A r : NeverRemoved(r)' <=> NeverRemoved(r)
    BY <1>1, <1>2 DEF NeverRemoved
  <1>5. Staged'
    BY <1>1, <1>2 DEF IInv, Staged, Running
  <1>6. Queued'
    BY <1>1, <1>2 DEF IInv, Queued, TypeOK, Running
  <1>7. Owned'
    BY <1>4 DEF IInv, Owned, storeVars
  <1>8. Holding'
    BY <1>1 DEF IInv, Holding, Running
  <1>9. LockQueue'
    <2>1. entry[t] \in Entries /\ lock[entry[t]] \in Seq(Clients) /\ lock[entry[t]][1] = t
      BY DEF IInv, TypeOK, Holder
    <2>2. ASSUME NEW k \in Entries, NEW i \in 1 .. Len(lock[k]), lock[k][i] = t
          PROVE  k = entry[t] /\ i = 1
      BY <2>1, <2>2 DEF IInv, LockQueue, Holder
    <2>3. ASSUME NEW k \in Entries, NEW i \in 1 .. Len(lock[k])
          PROVE  /\ entry[lock[k][i]] = k
                 /\ stage'[lock[k][i]] \in {"waiting"} \cup Running
                 /\ i > 1 => stage'[lock[k][i]] = "waiting"
      BY <1>1, <2>2 DEF IInv, LockQueue, TypeOK
    <2>4. \A u \in Turns : stage'[u] \in Running => Holder(u)'
      BY <1>1 DEF IInv, LockQueue, Holder
    <2> QED
      BY <2>3, <2>4 DEF IInv, LockQueue
  <1>10. Counted'
    BY DEF IInv, Counted, MapsAgree, LiveCount, storeVars
  <1> QED
    BY <1>3, <1>4, <1>5, <1>6, <1>7, <1>8, <1>9, <1>10

\* What a turn may do to the results: its own, only when it leaves its loop, and
\* "cancelled" only with a reason.
ResultOf(t) ==
  /\ result' \in [Turns -> Results]
  /\ \A u \in Turns \ {t} : result'[u] = result[u]
  /\ result'[t] # result[t] => stage'[t] = "finish" /\ result'[t] # "none"
  /\ result'[t] = "cancelled"
       => result[t] = "cancelled" \/ cancel_seen[t] = "yes" \/ OwnToken \in cancelled[entry[t]]

\* A step of a turn that neither finishes nor publishes keeps the conjuncts about
\* results, flags, counts and checkpoints.
LEMMA TurnKeepsBooks ==
  ASSUME IInv, NEW t \in Turns, NEW s \in Running \ {"unlock"},
         stage[t] \in {"waiting"} \cup Running, Holder(t),
         stage[t] \in Saved <=> s \in Saved,
         stage[t] \notin Unsettled => s \notin Unsettled,
         stage' = [stage EXCEPT ![t] = s], ResultOf(t),
         \A r \in Sessions \ {target[t]} : file'[r] = file[r], Taken' = Taken,
         UNCHANGED <<cmd_q, storeVars, lock, cancel_flag, cancelled, step_index,
                     target, entry, cancel_seen>>
  PROVE  /\ Known' /\ FlagNoted' /\ CancelledForAReason' /\ OneCheckpointPerTurn'
  <1> USE ClientKinds
  <1>1. /\ stage'[t] = s
        /\ \A c \in Clients \ {t} : stage'[c] = stage[c]
    BY DEF IInv, TypeOK
  <1>2. /\ Issued' = Issued
        /\ \A r \in Sessions : NeverRemoved(r)' <=> NeverRemoved(r)
    BY TurnMoves
  <1>3. Known'
    <2>1. \A c \in Clients \ Creators : stage'[c] # "idle" => target[c] \in Issued
      BY <1>1, ManagerAssumption DEF IInv, Known, Running
    <2>2. Issued \subseteq Sessions
      BY IssuedSessions DEF IInv
    <2>3. target[t] \in Issued
      BY <1>1, ManagerAssumption DEF IInv, Known, Running
    <2>4. \A r \in Sessions \ Issued : file'[r] = file[r]
      BY <2>3
    <2> QED
      BY <1>2, <2>1, <2>2, <2>4 DEF IInv, Known, storeVars
  <1>4. FlagNoted'
    <2>1. entry[t] # 0
      BY DEF Holder
    <2>2. \A u \in Turns : result'[u] = "cancelled" => entry[u] # 0
      BY <2>1 DEF IInv, FlagNoted, ResultOf
    <2>3. \A u \in Turns : stage'[u] \in Unsettled => result'[u] = "none"
      BY <1>1 DEF IInv, FlagNoted, ResultOf, Unsettled
    <2>4. \A u \in Turns : result'[u] = "none" => result[u] = "none"
      BY DEF ResultOf
    <2> QED
      BY <2>2, <2>3, <2>4 DEF IInv, FlagNoted, NoCancelIsIgnored
  <1>5. CancelledForAReason'
    BY DEF IInv, CancelledForAReason, ResultOf
  <1>6. OneCheckpointPerTurn'
    <2>1. ASSUME NEW k \in Entries
          PROVE  {u \in Turns : entry[u] = k /\ stage[u] \in Saved}
                 = {u \in Turns : entry[u] = k /\ stage'[u] \in Saved}
      BY <1>1
    <2>2. \A k \in Entries :
            step_index[k] = Cardinality({u \in Turns : entry[u] = k /\ stage[u] \in Saved})
      BY DEF IInv, OneCheckpointPerTurn, Saved
    <2>3. \A k \in Entries :
            step_index[k] = Cardinality({u \in Turns : entry[u] = k /\ stage'[u] \in Saved})
      BY <2>1, <2>2
    <2> QED
      BY <1>2, <2>3 DEF IInv, OneCheckpointPerTurn, Saved, storeVars
  <1> QED
    BY <1>3, <1>4, <1>5, <1>6

\* A turn appends a message to its entry and to the file of its session, and is left
\* with n messages, z saying whether the others are summarised.
LEMMA PushKeeps ==
  ASSUME IInv, NEW t \in Turns, NEW s \in {"checking", "finish", "tool"},
         stage[t] \in {"waiting", "calling", "tool", "proxy"}, Holder(t),
         NEW n \in Nat, NEW z \in BOOLEAN, PushAndKeep(t, n, z),
         n <= messages[entry[t]] + 1, n # messages[entry[t]] + 1 => z, compacted[entry[t]] => z,
         stage' = [stage EXCEPT ![t] = s], ResultOf(t), TurnKeeps,
         UNCHANGED <<iteration, cancel_seen>>
  PROVE  IInv'
  <1> USE ClientKinds DEF TurnKeeps
  <1>1. /\ stage'[t] = s
        /\ \A c \in Clients \ {t} : stage'[c] = stage[c]
    BY DEF IInv, TypeOK
  <1>2. s \in Running \ {"unlock"} /\ stage[t] \in {"waiting"} \cup Running
    BY DEF Running
  <1>3. (stage[t] \in Saved <=> s \in Saved) /\ (stage[t] \notin Unsettled => s \notin Unsettled)
    BY DEF Saved, Unsettled
  <1> DEFINE k == entry[t]
             g == Extended(file[target[t]], k)
  <1>4. /\ Staged' /\ Queued' /\ Owned' /\ Holding' /\ LockQueue' /\ Counted'
        /\ Issued' = Issued
        /\ \A r \in Sessions : NeverRemoved(r)' <=> NeverRemoved(r)
    BY <1>2, TurnMoves DEF PushAndKeep
  <1>5. /\ k \in Entries /\ target[t] \in Sessions /\ k <= built
        /\ messages \in [Entries -> Nat] /\ whole \in [Entries -> Nat]
        /\ compacted \in [Entries -> BOOLEAN] /\ persisted \in [Entries -> BOOLEAN]
        /\ file \in [Sessions -> Files]
    <2>1. target[t] \in Sessions
      BY HasTarget DEF IInv
    <2>2. k \in Entries /\ k <= built
      BY DEF IInv, TypeOK, Blank, Holder
    <2> QED
      BY <2>1, <2>2 DEF IInv, TypeOK, Files
  <1>6. /\ messages' = [messages EXCEPT ![k] = n]
        /\ compacted' = [compacted EXCEPT ![k] = z]
        /\ whole' = [whole EXCEPT ![k] = @ + 1]
        /\ file' = [file EXCEPT ![target[t]] = g]
        /\ UNCHANGED <<lock, cancel_flag, shared_token, cancelled, msg_count, step_index, persisted>>
    BY DEF PushAndKeep
  <1>7. g \in Files
    <2>1. file[target[t]] \in Files /\ messages[k] \in Nat /\ compacted[k] \in BOOLEAN
      BY <1>5
    <2> QED
      BY <2>1 DEF Files, Extended
  <1>8. /\ file[target[t]] = TornFile => g = TornFile
        /\ persisted[k] /\ file[target[t]] = NoFile => g.n = messages[k] + 1
        /\ persisted[k] /\ file[target[t]].n \in Nat => g.n = file[target[t]].n + 1
    BY <1>5 DEF Files, NoFile, TornFile, Extended
  <1> HIDE DEF g
  <1>9. Known' /\ FlagNoted' /\ CancelledForAReason' /\ OneCheckpointPerTurn'
    <2>1. \A r \in Sessions \ {target[t]} : file'[r] = file[r]
      BY <1>5, <1>6
    <2>2. Taken' = Taken
      BY DEF Taken
    <2> QED
      BY <1>2, <1>3, <1>6, <2>1, <2>2, TurnKeepsBooks
  <1>10. TypeOK'
    <2>1. /\ messages' \in [Entries -> Nat] /\ file' \in [Sessions -> Files]
          /\ whole' \in [Entries -> Nat] /\ compacted' \in [Entries -> BOOLEAN]
      BY <1>5, <1>6, <1>7
    <2>2. stage' \in [Clients -> Stages]
      BY DEF IInv, TypeOK, Stages, Running
    <2> QED
      BY <1>6, <2>1, <2>2 DEF IInv, TypeOK, storeVars, ResultOf, Files
  <1>11. Blank'
    <2>1. built \in Nat /\ \A j \in Entries : j > built => messages'[j] = messages[j]
      BY <1>5, <1>6 DEF IInv, TypeOK
    <2> QED
      BY <1>6, <2>1 DEF IInv, Blank, storeVars
  <1>12. CountPublished'
    BY <1>1, <1>2, <1>5, <1>6 DEF IInv, CountPublished, Holder
  <1>13. TranscriptOnDisk'
    <2> SUFFICES ASSUME NEW r \in Sessions, NeverRemoved(r), sessions[r] # 0
                 PROVE  LET j == sessions[r] IN
                          /\ persisted[j] => \/ file'[r].n = whole'[j] \/ file'[r] = TornFile
                                             \/ file'[r] = NoFile /\ whole'[j] = 0
                          /\ messages'[j] <= whole'[j]
                          /\ messages'[j] # whole'[j] => compacted'[j]
      BY <1>4, <1>6 DEF TranscriptOnDisk, storeVars
    <2> DEFINE j == sessions[r]
    <2>1. /\ j \in Entries
          /\ persisted[j] => \/ file[r].n = whole[j] \/ file[r] = TornFile
                             \/ file[r] = NoFile /\ whole[j] = 0
          /\ messages[j] <= whole[j]
          /\ messages[j] # whole[j] => compacted[j]
      <3>1. sessions \in [Sessions -> 0 .. MaxEntries]
        BY DEF IInv, TypeOK
      <3>2. j \in Entries
        BY <3>1
      <3> QED
        BY <3>2 DEF IInv, TranscriptOnDisk
    <2>2. CASE target[t] = r
      <3>1. k = j
        BY <1>5, <2>2 DEF IInv, Owned
      <3>2. /\ file'[r] = g /\ whole'[j] = whole[j] + 1 /\ messages'[j] = n /\ compacted'[j] = z
            /\ messages[j] \in Nat /\ whole[j] \in Nat
        BY <1>5, <1>6, <2>1, <2>2, <3>1
      <3>3. persisted[j] => file'[r].n = whole'[j] \/ file'[r] = TornFile
        <4>1. CASE file[r] = TornFile
          BY <1>8, <2>2, <3>2, <4>1
        <4>2. CASE file[r] = NoFile /\ whole[j] = 0
          BY <1>8, <2>1, <2>2, <3>1, <3>2, <4>2
        <4>3. CASE file[r].n = whole[j]
          BY <1>8, <2>2, <3>1, <3>2, <4>3
        <4> QED
          BY <2>1, <4>1, <4>2, <4>3
      <3> QED
        BY <2>1, <3>1, <3>2, <3>3
    <2>3. CASE target[t] # r
      <3>1. k # j
        BY <1>5, <2>3 DEF IInv, Owned
      <3>2. /\ file'[r] = file[r] /\ whole'[j] = whole[j] /\ messages'[j] = messages[j]
            /\ compacted'[j] = compacted[j]
        BY <1>5, <1>6, <2>1, <2>3, <3>1
      <3> QED
        BY <2>1, <3>2
    <2> QED
      BY <2>2, <2>3
  <1>14. Looping'
    BY <1>1 DEF IInv, Looping, Saved
  <1> QED
    BY <1>4, <1>9, <1>10, <1>11, <1>12, <1>13, <1>14 DEF IInv

\* A turn that runs, or begins, moves on without a message: it checks, fails, dispatches
\* a proxy call, or handles its record in the backend; a failing append may tear its file.
LEMMA QuietKeeps ==
  ASSUME IInv, NEW t \in Turns, NEW s \in Running \ {"unlock"}, Holder(t),
         stage[t] \in ({"waiting"} \cup Running) \ {"unlock"}, stage[t] \in Saved <=> s \in Saved,
         stage[t] \notin Unsettled => s \notin Unsettled,
         stage' = [stage EXCEPT ![t] = s], ResultOf(t),
         file' = file \/ file' = [file EXCEPT ![target[t]] = TornFile],
         meta' \subseteq Sessions, checkpoints' \subseteq Sessions \X Nat,
         unsaved' \subseteq Sessions \X Nat, Taken' = Taken,
         iteration' \in [Turns -> 0 .. MaxIterations + 1],
         \A u \in Turns \ {t} : iteration'[u] = iteration[u],
         iteration'[t] > MaxIterations => s \in {"finish"} \cup Saved,
         UNCHANGED <<cmd_q, storeVars, entryVars, backend, target, entry, snapshot, cancel_seen>>
  PROVE  IInv'
  <1> USE ClientKinds
  <1>1. /\ stage'[t] = s
        /\ \A c \in Clients \ {t} : stage'[c] = stage[c]
    BY DEF IInv, TypeOK
  <1>2. target[t] \in Sessions /\ file \in [Sessions -> Files]
    <2>1. target[t] \in Sessions
      BY HasTarget DEF IInv, Running
    <2> QED
      BY <2>1 DEF IInv, TypeOK, Files
  <1>3. /\ file' \in [Sessions -> Files]
        /\ \A r \in Sessions :
             file'[r] = file[r] \/ (r = target[t] /\ file'[r] = TornFile)
    <2>1. TornFile \in Files
      BY DEF Files, TornFile
    <2> QED
      BY <1>2, <2>1
  <1>4. /\ Staged' /\ Queued' /\ Owned' /\ Holding' /\ LockQueue' /\ Counted'
        /\ Issued' = Issued
        /\ \A r \in Sessions : NeverRemoved(r)' <=> NeverRemoved(r)
    BY TurnMoves DEF entryVars
  <1>5. Known' /\ FlagNoted' /\ CancelledForAReason' /\ OneCheckpointPerTurn'
    BY <1>3, TurnKeepsBooks DEF entryVars
  <1>7. TypeOK'
    <2>1. stage' \in [Clients -> Stages]
      BY DEF IInv, TypeOK, Stages, Running
    <2> QED
      BY <1>3, <2>1 DEF IInv, TypeOK, storeVars, entryVars, ResultOf, Files
  <1>8. Blank'
    BY DEF IInv, Blank, storeVars, entryVars
  <1>9. CountPublished'
    BY <1>1 DEF IInv, CountPublished, entryVars
  <1>10. TranscriptOnDisk'
    BY <1>3, <1>4 DEF IInv, TranscriptOnDisk, storeVars, entryVars
  <1>11. Looping'
    BY <1>1 DEF IInv, Looping
  <1> QED
    BY <1>4, <1>5, <1>7, <1>8, <1>9, <1>10, <1>11 DEF IInv

-----------------------------------------------------------------------------
(* The actions of a turn's worker *)

\* A turn that runs holds the lock of its entry.
LEMMA RunsHolding ==
  ASSUME IInv, NEW t \in Turns, stage[t] \in Running
  PROVE  Holder(t)
  BY DEF IInv, LockQueue

\* Neither a turn nor its backend has lost anything when nothing there has changed.
LEMMA BackendKept ==
  ASSUME IInv, UNCHANGED <<meta, checkpoints, unsaved>>
  PROVE  /\ meta' \subseteq Sessions /\ checkpoints' \subseteq Sessions \X Nat
         /\ unsaved' \subseteq Sessions \X Nat /\ Taken' = Taken
  BY DEF IInv, TypeOK, Taken

\* A message is pushed, with nothing or with all that came before it summarised.
LEMMA PushMessageKeeps ==
  ASSUME IInv, NEW t \in Turns, NEW s \in {"checking", "finish", "tool"},
         stage[t] \in {"waiting", "calling", "tool", "proxy"}, Holder(t),
         PushMessage(t) \/ PushAndCompact(t),
         stage' = [stage EXCEPT ![t] = s], ResultOf(t), TurnKeeps,
         UNCHANGED <<iteration, cancel_seen>>
  PROVE  IInv'
  <1>1. entry[t] \in Entries /\ messages[entry[t]] \in Nat /\ compacted[entry[t]] \in BOOLEAN
    BY ClientKinds DEF IInv, TypeOK, Holder
  <1>2. CASE PushMessage(t)
    <2>1. PICK n \in Nat, z \in BOOLEAN :
            n = messages[entry[t]] + 1 /\ z = compacted[entry[t]] /\ PushAndKeep(t, n, z)
      BY <1>1, <1>2 DEF PushMessage
    <2>2. n <= messages[entry[t]] + 1
      BY <1>1, <2>1
    <2> QED
      BY <2>1, <2>2, PushKeeps
  <1>3. CASE PushAndCompact(t)
    <2>1. PICK n \in {PreservedMessages + 1, PreservedMessages + 2} :
            n <= messages[entry[t]] + 1 /\ PushAndKeep(t, n, TRUE)
      BY <1>3 DEF PushAndCompact
    <2>2. n \in Nat
      BY <2>1, ManagerAssumption
    <2> QED
      BY <1>1, <2>1, <2>2, PushKeeps
  <1> QED
    BY <1>2, <1>3

\* A turn that fails to push a message, or whose probe fails, ends with an error.
LEMMA EndKeeps ==
  ASSUME IInv, NEW t \in Turns, stage[t] \in {"waiting", "calling", "tool", "proxy"}, Holder(t),
         file' = file \/ file' = [file EXCEPT ![target[t]] = TornFile],
         Goto(t, "finish"), result' = [result EXCEPT ![t] = "error"],
         UNCHANGED <<entryVars, iteration, cancel_seen>>, TurnKeeps
  PROVE  IInv'
  <1>1. ResultOf(t)
    BY ClientKinds DEF IInv, TypeOK, ResultOf, Results, Goto
  <1>2. stage' = [stage EXCEPT ![t] = "finish"]
    BY DEF Goto
  <1>3. /\ "finish" \in Running \ {"unlock"} /\ stage[t] \in ({"waiting"} \cup Running) \ {"unlock"}
        /\ stage[t] \in Saved <=> "finish" \in Saved
        /\ stage[t] \in Unsettled
    BY DEF Running, Saved, Unsettled
  <1>4. /\ iteration' \in [Turns -> 0 .. MaxIterations + 1]
        /\ \A u \in Turns \ {t} : iteration'[u] = iteration[u]
    BY DEF IInv, TypeOK
  <1>5. /\ meta' \subseteq Sessions /\ checkpoints' \subseteq Sessions \X Nat
        /\ unsaved' \subseteq Sessions \X Nat /\ Taken' = Taken
    BY BackendKept DEF TurnKeeps
  <1> QED
    BY <1>1, <1>2, <1>3, <1>4, <1>5, QuietKeeps DEF TurnKeeps

LEMMA PushFailsKeeps ==
  ASSUME IInv, NEW t \in Turns, stage[t] \in {"waiting", "calling", "tool", "proxy"}, Holder(t),
         PushFails(t), TurnKeeps, UNCHANGED cancel_seen
  PROVE  IInv'
  <1>1. file' = file \/ file' = [file EXCEPT ![target[t]] = TornFile]
    BY DEF PushFails
  <1>2. /\ Goto(t, "finish") /\ result' = [result EXCEPT ![t] = "error"]
        /\ UNCHANGED <<entryVars, iteration>>
    BY DEF PushFails
  <1> QED
    BY <1>1, <1>2, EndKeeps

LEMMA TurnBeginKeeps ==
  ASSUME IInv, NEW t \in Turns, TurnBegin(t)
  PROVE  IInv'
  <1>1. stage[t] = "waiting" /\ Holder(t) /\ TurnKeeps /\ UNCHANGED cancel_seen
    BY DEF TurnBegin
  <1>2. CASE PushMessage(t) /\ Goto(t, "checking") /\ UNCHANGED <<iteration, result>>
    <2>1. ResultOf(t)
      BY <1>2 DEF IInv, TypeOK, ResultOf
    <2> QED
      BY <1>1, <1>2, <2>1, PushMessageKeeps DEF Goto
  <1>3. CASE PushFails(t)
    BY <1>1, <1>3, PushFailsKeeps
  <1>4. CASE /\ Goto(t, "finish") /\ result' = [result EXCEPT ![t] = "error"]
             /\ UNCHANGED <<entryVars, file, iteration>>
    BY <1>1, <1>4, EndKeeps
  <1> QED
    BY <1>2, <1>3, <1>4 DEF TurnBegin

LEMMA TurnCheckKeeps ==
  ASSUME IInv, NEW t \in Turns, TurnCheck(t)
  PROVE  IInv'
  <1> USE ClientKinds
  <1>1. stage[t] = "checking" /\ entry[t] \in Entries /\ entry[t] # 0 /\ Holder(t)
    <2>1. stage[t] = "checking"
      BY DEF TurnCheck
    <2>2. Holder(t)
      BY <2>1, RunsHolding DEF Running
    <2>3. entry[t] # 0 /\ entry[t] \in 0 .. MaxEntries
      BY <2>2 DEF IInv, TypeOK, Holder
    <2> QED
      BY <2>1, <2>2, <2>3
  <1> iteration \in [Turns -> 0 .. MaxIterations + 1] /\ MaxIterations \in Nat
    BY ManagerAssumption DEF IInv, TypeOK
  <1>2. iteration[t] \in 0 .. MaxIterations
    <2>1. ~(iteration[t] > MaxIterations)
      BY <1>1 DEF IInv, Looping, Saved
    <2> QED
      BY <2>1
  <1>3. /\ iteration' \in [Turns -> 0 .. MaxIterations + 1]
        /\ iteration'[t] = iteration[t] + 1
        /\ \A u \in Turns \ {t} : iteration'[u] = iteration[u]
    BY <1>2 DEF TurnCheck
  <1>4. cancel_flag[entry[t]] <=> cancel_seen[t] = "yes"
    BY <1>1 DEF IInv, FlagNoted, Unsettled
  <1>5. cancel_seen' = cancel_seen
    BY <1>4 DEF IInv, TypeOK, TurnCheck, CancelObserved
  <1>6. PICK s \in {"finish", "calling"} :
          /\ stage' = [stage EXCEPT ![t] = s]
          /\ iteration'[t] > MaxIterations => s = "finish"
          /\ result' # result => s = "finish"
    BY <1>2, <1>3 DEF TurnCheck, Goto
  <1>7. ResultOf(t)
    <2>1. stage'[t] = s
      BY <1>6 DEF IInv, TypeOK
    <2> QED
      BY <1>4, <1>6, <2>1 DEF IInv, TypeOK, ResultOf, TurnCheck, CancelObserved, Results
  <1>8. /\ meta' \subseteq Sessions /\ checkpoints' \subseteq Sessions \X Nat
        /\ unsaved' \subseteq Sessions \X Nat /\ Taken' = Taken
    BY BackendKept DEF TurnCheck, TurnKeeps
  <1>9. /\ s \in Running \ {"unlock"} /\ stage[t] \in ({"waiting"} \cup Running) \ {"unlock"}
        /\ stage[t] \in Saved <=> s \in Saved
        /\ stage[t] \in Unsettled
    BY <1>1 DEF Running, Saved, Unsettled
  <1> QED
    BY <1>1, <1>3, <1>5, <1>6, <1>7, <1>8, <1>9, QuietKeeps DEF TurnCheck, TurnKeeps

LEMMA TurnFailsKeeps ==
  ASSUME IInv, NEW t \in Turns, TurnFails(t)
  PROVE  IInv'
  BY RunsHolding, EndKeeps DEF TurnFails, Running

LEMMA TurnAnsweredKeeps ==
  ASSUME IInv, NEW t \in Turns, TurnAnswered(t)
  PROVE  IInv'
  <1>1. stage[t] = "calling" /\ Holder(t) /\ TurnKeeps /\ UNCHANGED cancel_seen
    BY RunsHolding DEF TurnAnswered, Running
  <1>2. CASE /\ PushMessage(t) \/ PushAndCompact(t)
             /\ Goto(t, "finish") /\ result' = [result EXCEPT ![t] = "ok"] /\ UNCHANGED iteration
    <2>1. ResultOf(t)
      BY <1>2, ClientKinds DEF IInv, TypeOK, ResultOf, Results, Goto
    <2> QED
      BY <1>1, <1>2, <2>1, PushMessageKeeps DEF Goto
  <1>3. CASE PushMessage(t) /\ Goto(t, "tool") /\ UNCHANGED <<iteration, result>>
    <2>1. ResultOf(t)
      BY <1>3 DEF IInv, TypeOK, ResultOf
    <2> QED
      BY <1>1, <1>3, <2>1, PushMessageKeeps DEF Goto
  <1>4. CASE PushFails(t)
    BY <1>1, <1>4, PushFailsKeeps
  <1> QED
    BY <1>2, <1>3, <1>4 DEF TurnAnswered

LEMMA ReturnedKeeps ==
  ASSUME IInv, NEW t \in Turns, stage[t] \in {"tool", "proxy"}, Returned(t)
  PROVE  IInv'
  <1>1. Holder(t) /\ TurnKeeps /\ UNCHANGED cancel_seen
    BY RunsHolding DEF Returned, Running
  <1>2. CASE PushMessage(t) /\ Goto(t, "checking") /\ UNCHANGED <<iteration, result>>
    <2>1. ResultOf(t)
      BY <1>2 DEF IInv, TypeOK, ResultOf
    <2> QED
      BY <1>1, <1>2, <2>1, PushMessageKeeps DEF Goto
  <1>3. CASE PushFails(t)
    BY <1>1, <1>3, PushFailsKeeps
  <1> QED
    BY <1>2, <1>3 DEF Returned

LEMMA ToolReturnsKeeps ==
  ASSUME IInv, NEW t \in Turns, ToolReturns(t)
  PROVE  IInv'
  BY ReturnedKeeps DEF ToolReturns

LEMMA ProxyDispatchKeeps ==
  ASSUME IInv, NEW t \in Turns, ProxyDispatch(t)
  PROVE  IInv'
  <1>1. ResultOf(t) /\ Holder(t)
    BY RunsHolding DEF IInv, TypeOK, ResultOf, ProxyDispatch, Running
  <1>2. /\ meta' \subseteq Sessions /\ checkpoints' \subseteq Sessions \X Nat
        /\ unsaved' \subseteq Sessions \X Nat /\ Taken' = Taken
    BY BackendKept DEF ProxyDispatch, TurnKeeps
  <1>3. /\ "proxy" \in Running \ {"unlock"} /\ "tool" \in ({"waiting"} \cup Running) \ {"unlock"}
        /\ "tool" \in Saved <=> "proxy" \in Saved
        /\ "tool" \in Unsettled
    BY DEF Running, Saved, Unsettled
  <1>4. ~(iteration[t] > MaxIterations)
    BY DEF IInv, Looping, ProxyDispatch, Saved
  <1> QED
    BY <1>1, <1>2, <1>3, <1>4, QuietKeeps DEF IInv, TypeOK, ProxyDispatch, Goto, TurnKeeps

LEMMA ProxyReturnKeeps ==
  ASSUME IInv, NEW t \in Turns, ProxyReturn(t)
  PROVE  IInv'
  BY ReturnedKeeps DEF ProxyReturn

\* A step between the checkpoint of a turn and the publication of its count.
LEMMA BackendStepKeeps ==
  ASSUME IInv, NEW t \in Turns, stage[t] \in {"load_meta", "save_meta"},
         NEW s \in {"save_meta", "publish"}, Goto(t, s),
         meta' \subseteq Sessions, checkpoints' \subseteq Sessions \X Nat,
         unsaved' \subseteq Sessions \X Nat, Taken' = Taken,
         UNCHANGED <<cmd_q, storeVars, entryVars, backend, file, target, entry, iteration,
                     result, snapshot, cancel_seen>>
  PROVE  IInv'
  <1>1. ResultOf(t) /\ Holder(t)
    BY RunsHolding DEF IInv, TypeOK, ResultOf, Running
  <1>2. /\ s \in Running \ {"unlock"} /\ stage[t] \in ({"waiting"} \cup Running) \ {"unlock"}
        /\ stage[t] \in Saved /\ s \in Saved
        /\ s \notin Unsettled
    BY DEF Running, Saved, Unsettled
  <1> QED
    BY <1>1, <1>2, QuietKeeps DEF IInv, TypeOK, Goto

LEMMA LoadMetaKeeps ==
  ASSUME IInv, NEW t \in Turns, LoadMeta(t)
  PROVE  IInv'
  <1>1. /\ meta' \subseteq Sessions /\ checkpoints' \subseteq Sessions \X Nat
        /\ unsaved' \subseteq Sessions \X Nat /\ Taken' = Taken
    BY BackendKept DEF LoadMeta, backendVars, Taken
  <1>2. PICK s \in {"save_meta", "publish"} : Goto(t, s)
    BY DEF LoadMeta
  <1> QED
    BY <1>1, <1>2, BackendStepKeeps DEF LoadMeta, backendVars, Taken

\* A record that replaces another may take the checkpoints with it, never out of what
\* was taken.
LEMMA SaveRecordKeeps ==
  ASSUME IInv, NEW s \in Sessions, SaveRecord(s)
  PROVE  /\ meta' \subseteq Sessions /\ checkpoints' \subseteq Sessions \X Nat
         /\ unsaved' \subseteq Sessions \X Nat /\ Taken' = Taken
  BY DEF IInv, TypeOK, SaveRecord, Taken

LEMMA SaveMetaKeeps ==
  ASSUME IInv, NEW t \in Turns, SaveMeta(t)
  PROVE  IInv'
  <1>1. target[t] \in Sessions
    BY HasTarget, ClientKinds DEF IInv, SaveMeta
  <1>2. /\ meta' \subseteq Sessions /\ checkpoints' \subseteq Sessions \X Nat
        /\ unsaved' \subseteq Sessions \X Nat /\ Taken' = Taken
    BY <1>1, SaveRecordKeeps DEF SaveMeta
  <1> QED
    BY <1>2, BackendStepKeeps DEF SaveMeta

LEMMA SaveCheckpointKeeps ==
  ASSUME IInv, NEW t \in Turns, SaveCheckpoint(t)
  PROVE  IInv'
  <1> USE ClientKinds
  <1> DEFINE k == entry[t]
  <1>1. /\ stage[t] = "finish"
        /\ stage' = [stage EXCEPT ![t] = "load_meta"]
        /\ step_index' = [step_index EXCEPT ![k] = @ + 1]
        /\ \/ checkpoints' = checkpoints \cup {<<target[t], step_index[k]>>} /\ UNCHANGED unsaved
           \/ unsaved' = unsaved \cup {<<target[t], step_index[k]>>} /\ UNCHANGED checkpoints
        /\ UNCHANGED <<cmd_q, storeVars, lock, cancel_flag, shared_token, cancelled, memoryVars,
                       backend, file, meta, target, entry, iteration, result, snapshot, cancel_seen>>
    BY DEF SaveCheckpoint, Goto
  <1>2. /\ stage'[t] = "load_meta"
        /\ \A c \in Clients \ {t} : stage'[c] = stage[c]
    BY <1>1 DEF IInv, TypeOK
  <1>3. /\ k \in Entries /\ k <= built
        /\ target[t] \in Sessions /\ target[t] \in Issued
    <2>1. t \notin Creators
      BY ManagerAssumption
    <2>2. Holder(t)
      BY <1>1 DEF IInv, LockQueue, Running
    <2>3. target[t] \in Issued
      BY <1>1, <2>1 DEF IInv, Known
    <2>4. target[t] \in Sessions
      BY <2>3, IssuedSessions DEF IInv
    <2> QED
      BY <2>2, <2>3, <2>4 DEF IInv, TypeOK, Blank, Holder
  <1>4. /\ Staged' /\ Queued' /\ Owned' /\ Holding' /\ LockQueue' /\ Counted'
        /\ Issued' = Issued
        /\ \A r \in Sessions : NeverRemoved(r)' <=> NeverRemoved(r)
    <2>1. Holder(t)
      BY <1>1 DEF IInv, LockQueue, Running
    <2> QED
      BY <1>1, <2>1, TurnMoves DEF Running
  <1>5. /\ step_index \in [Entries -> Nat]
        /\ checkpoints \subseteq Sessions \X Nat /\ unsaved \subseteq Sessions \X Nat
        /\ Taken' = Taken \cup {<<target[t], step_index[k]>>}
    BY <1>1 DEF IInv, TypeOK, Taken
  <1>6. TypeOK'
    <2>1. stage' \in [Clients -> Stages]
      BY <1>1 DEF IInv, TypeOK, Stages, Running
    <2>2. /\ step_index' \in [Entries -> Nat]
          /\ checkpoints' \subseteq Sessions \X Nat /\ unsaved' \subseteq Sessions \X Nat
      BY <1>1, <1>3, <1>5
    <2> QED
      BY <1>1, <2>1, <2>2 DEF IInv, TypeOK, storeVars
  <1>7. Known'
    <2>1. \A c \in Clients \ Creators : stage'[c] # "idle" => target[c] \in Issued
      BY <1>2, <1>3 DEF IInv, Known
    <2>2. \A s \in Sessions \ Issued : \A cp \in Taken' : cp[1] # s
      BY <1>3, <1>5 DEF IInv, Known
    <2>3. Issued \subseteq Sessions
      BY IssuedSessions DEF IInv
    <2> QED
      BY <1>1, <1>4, <2>1, <2>2, <2>3 DEF IInv, Known, storeVars
  <1>8. Blank'
    <2>1. \A j \in Entries : j > built => step_index'[j] = step_index[j]
      BY <1>1, <1>3, <1>5 DEF IInv, TypeOK
    <2> QED
      BY <1>1, <2>1 DEF IInv, Blank, storeVars
  <1>9. CountPublished'
    BY <1>1, <1>2 DEF IInv, CountPublished, Running
  <1>10. TranscriptOnDisk'
    BY <1>1, <1>4 DEF IInv, TranscriptOnDisk, storeVars
  <1>11. FlagNoted' /\ CancelledForAReason'
    BY <1>1, <1>2 DEF IInv, FlagNoted, NoCancelIsIgnored, CancelledForAReason, Unsettled
  <1>12. Looping'
    BY <1>1, <1>2 DEF IInv, Looping, Saved
  <1>13. \A j \in Entries :
           step_index'[j] = Cardinality({u \in Turns : entry[u] = j /\ stage'[u] \in Saved})
    <2> SUFFICES ASSUME NEW j \in Entries
                 PROVE  step_index'[j]
                        = Cardinality({u \in Turns : entry[u] = j /\ stage'[u] \in Saved})
      OBVIOUS
    <2> DEFINE S == {u \in Turns : entry[u] = j /\ stage[u] \in Saved}
               T == {u \in Turns : entry[u] = j /\ stage'[u] \in Saved}
    <2>1. step_index[j] = Cardinality(S)
      BY DEF IInv, OneCheckpointPerTurn, Saved
    <2>2. IsFiniteSet(S)
      <3>1. S \subseteq Clients
        OBVIOUS
      <3> QED
        BY <3>1, FS_Subset, ManagerAssumption
    <2>3. CASE j = k
      <3>1. T = S \cup {t} /\ t \notin S
        BY <1>1, <1>2, <2>3 DEF Saved
      <3>2. Cardinality(T) = Cardinality(S) + 1
        <4> HIDE DEF S, T
        <4> QED
          BY <3>1, <2>2, FS_AddElement
      <3> QED
        BY <1>1, <1>5, <2>1, <2>3, <3>2
    <2>4. CASE j # k
      <3>1. T = S
        BY <1>2, <2>4
      <3> QED
        BY <1>1, <1>5, <2>1, <2>4, <3>1
    <2> QED
      BY <2>3, <2>4
  <1>14. ASSUME NEW s \in Sessions, NeverRemoved(s), sessions[s] # 0
         PROVE  {cp[2] : cp \in {c \in Taken' : c[1] = s}} = 0 .. step_index'[sessions[s]] - 1
    <2> DEFINE n == step_index[sessions[s]]
    <2>1. {cp[2] : cp \in {c \in Taken : c[1] = s}} = 0 .. n - 1
      BY <1>14 DEF IInv, OneCheckpointPerTurn
    <2>2. sessions[s] \in Entries /\ n \in Nat
      BY <1>14, <1>5 DEF IInv, TypeOK
    <2>3. CASE target[t] = s
      <3>1. k = sessions[s]
        BY <1>3, <1>14, <2>3 DEF IInv, Owned
      <3>2. {cp[2] : cp \in {c \in Taken' : c[1] = s}}
            = {cp[2] : cp \in {c \in Taken : c[1] = s}} \cup {n}
        <4>1. {c \in Taken' : c[1] = s} = {c \in Taken : c[1] = s} \cup {<<s, n>>}
          BY <1>5, <2>3, <3>1
        <4>2. {cp[2] : cp \in {c \in Taken : c[1] = s} \cup {<<s, n>>}}
              = {cp[2] : cp \in {c \in Taken : c[1] = s}} \cup {n}
          BY SecondOfAdded
        <4> QED
          BY <4>1, <4>2, Zenon
      <3>3. step_index'[sessions[s]] = n + 1
        BY <1>1, <1>5, <2>2, <3>1
      <3>4. 0 .. (n + 1) - 1 = (0 .. n - 1) \cup {n}
        <4> HIDE DEF n
        <4> QED
          BY <2>2
      <3> QED
        BY <2>1, <3>2, <3>3, <3>4
    <2>4. CASE target[t] # s
      <3>1. k # sessions[s]
        BY <1>3, <1>14, <2>4 DEF IInv, Owned
      <3>2. {c \in Taken' : c[1] = s} = {c \in Taken : c[1] = s}
        BY <1>5, <2>4
      <3>3. step_index'[sessions[s]] = n
        BY <1>1, <1>5, <2>2, <3>1
      <3> QED
        BY <2>1, <3>2, <3>3
    <2> QED
      BY <2>3, <2>4
  <1>15. OneCheckpointPerTurn'
    BY <1>1, <1>4, <1>13, <1>14 DEF OneCheckpointPerTurn, Saved, storeVars
  <1> QED
    BY <1>4, <1>6, <1>7, <1>8, <1>9, <1>10, <1>11, <1>12, <1>15 DEF IInv

LEMMA PublishCountKeeps ==
  ASSUME IInv, NEW t \in Turns, PublishCount(t)
  PROVE  IInv'
  <1> USE ClientKinds
  <1> DEFINE k == entry[t]
  <1>1. /\ stage[t] = "publish"
        /\ stage' = [stage EXCEPT ![t] = "unlock"]
        /\ msg_count' = [msg_count EXCEPT ![k] = messages[k]]
        /\ UNCHANGED <<cmd_q, storeVars, lock, cancel_flag, shared_token, cancelled, messages,
                       persisted, compacted, whole, step_index, backendVars, target, entry, iteration, result, snapshot,
                       cancel_seen>>
    BY DEF PublishCount, Goto
  <1>2. /\ stage'[t] = "unlock"
        /\ \A c \in Clients \ {t} : stage'[c] = stage[c]
    BY <1>1 DEF IInv, TypeOK
  <1>3. Holder(t) /\ k \in Entries /\ k <= built
    BY <1>1 DEF IInv, LockQueue, Running, TypeOK, Blank, Holder
  <1>4. /\ Staged' /\ Queued' /\ Owned' /\ Holding' /\ LockQueue' /\ Counted'
        /\ Issued' = Issued
        /\ \A r \in Sessions : NeverRemoved(r)' <=> NeverRemoved(r)
    BY <1>1, <1>3, TurnMoves DEF Running
  <1>5. messages \in [Entries -> Nat] /\ msg_count \in [Entries -> Nat] /\ built \in Nat
    BY DEF IInv, TypeOK
  <1>6. TypeOK'
    <2>1. stage' \in [Clients -> Stages]
      BY <1>1 DEF IInv, TypeOK, Stages, Running
    <2>2. msg_count' \in [Entries -> Nat]
      BY <1>1, <1>3, <1>5
    <2> QED
      BY <1>1, <2>1, <2>2 DEF IInv, TypeOK, storeVars, backendVars, Taken
  <1>7. Known'
    <2>1. \A c \in Clients \ Creators : stage'[c] # "idle" => target[c] \in Issued
      BY <1>1, <1>2 DEF IInv, Known
    <2>2. Issued \subseteq Sessions
      BY IssuedSessions DEF IInv
    <2> QED
      BY <1>1, <1>4, <2>1, <2>2 DEF IInv, Known, storeVars, backendVars, Taken
  <1>8. Blank'
    <2>1. \A j \in Entries : j > built => msg_count'[j] = msg_count[j]
      BY <1>1, <1>3, <1>5
    <2> QED
      BY <1>1, <2>1 DEF IInv, Blank, storeVars
  <1>9. CountPublished'
    <2>1. ASSUME NEW j \in Entries, j # k,
                 \A u \in Turns : stage'[u] \in Running \ {"unlock"} => entry[u] # j
          PROVE  msg_count'[j] = messages[j]
      <3>1. \A u \in Turns : stage[u] \in Running \ {"unlock"} => entry[u] # j
        BY <1>2, <2>1
      <3> QED
        BY <1>1, <1>5, <2>1, <3>1 DEF IInv, CountPublished
    <2>2. msg_count'[k] = messages[k]
      BY <1>1, <1>3, <1>5
    <2> QED
      BY <1>1, <2>1, <2>2 DEF CountPublished
  <1>10. TranscriptOnDisk'
    BY <1>1, <1>4 DEF IInv, TranscriptOnDisk, storeVars, backendVars, Taken
  <1>11. FlagNoted' /\ CancelledForAReason'
    BY <1>1, <1>2 DEF IInv, FlagNoted, NoCancelIsIgnored, Unsettled, CancelledForAReason, Running
  <1>12. Looping'
    BY <1>1, <1>2 DEF IInv, Looping, Saved
  <1>13. \A j \in Entries : {u \in Turns : entry[u] = j /\ stage[u] \in Saved}
                            = {u \in Turns : entry[u] = j /\ stage'[u] \in Saved}
    BY <1>1, <1>2 DEF Saved
  <1>14. OneCheckpointPerTurn'
    BY <1>1, <1>4, <1>13 DEF IInv, OneCheckpointPerTurn, Saved, storeVars, backendVars, Taken
  <1> QED
    BY <1>4, <1>6, <1>7, <1>8, <1>9, <1>10, <1>11, <1>12, <1>14 DEF IInv

-----------------------------------------------------------------------------
(* The lock *)

\* A call that has been answered by the actor moves on, away from the channel.
LEMMA CallMoves ==
  ASSUME IInv, NEW c \in Clients \ Creators, NEW s,
         stage[c] \notin {"idle", "sent"}, s \notin {"idle", "sent"},
         c \in Closers => (stage[c] \in {"removed", "done"} <=> s \in {"removed", "done"}),
         stage' = [stage EXCEPT ![c] = s],
         Taken' = Taken, \A r \in Sessions \ Issued : file'[r] = file[r],
         UNCHANGED <<cmd_q, storeVars, target>>
  PROVE  /\ Issued' = Issued
         /\ \A r \in Sessions : NeverRemoved(r)' <=> NeverRemoved(r)
         /\ Queued' /\ Known' /\ Counted'
  <1> USE ClientKinds
  <1>1. /\ stage'[c] = s
        /\ \A d \in Clients \ {c} : stage'[d] = stage[d]
    BY DEF IInv, TypeOK
  <1>2. Issued' = Issued
    BY <1>1 DEF Issued
  <1>3. \A r : NeverRemoved(r)' <=> NeverRemoved(r)
    BY <1>1 DEF NeverRemoved
  <1>4. Queued'
    BY <1>1 DEF IInv, Queued, TypeOK
  <1>5. Known'
    <2>1. \A d \in Clients \ Creators : stage'[d] # "idle" => target[d] \in Issued
      BY <1>1 DEF IInv, Known
    <2>2. Issued \subseteq Sessions
      BY IssuedSessions DEF IInv
    <2> QED
      BY <1>2, <1>3, <2>1, <2>2 DEF IInv, Known, storeVars
  <1>6. Counted'
    BY DEF IInv, Counted, MapsAgree, LiveCount, storeVars
  <1> QED
    BY <1>2, <1>3, <1>4, <1>5, <1>6

\* The head of a lock queue leaves it.
LEMMA HeadLeaves ==
  ASSUME IInv, NEW c \in Clients, Holder(c),
         lock' = [lock EXCEPT ![entry[c]] = Tail(@)],
         stage'[c] \notin Running,
         \A d \in Clients \ {c} : stage'[d] = stage[d] /\ entry'[d] = entry[d]
  PROVE  LockQueue' /\ lock' \in [Entries -> Seq(Clients)]
  <1> USE ClientKinds
  <1> DEFINE k == entry[c]
             q == lock[k]
  <1>1. /\ k \in Entries /\ q \in Seq(Clients) /\ q # <<>> /\ q[1] = c
        /\ lock \in [Entries -> Seq(Clients)]
    BY DEF IInv, TypeOK, Holder
  <1>2. /\ Tail(q) \in Seq(Clients) /\ Len(Tail(q)) = Len(q) - 1
        /\ \A i \in 1 .. Len(Tail(q)) : i + 1 \in 2 .. Len(q) /\ Tail(q)[i] = q[i + 1]
    BY <1>1
  <1>3. /\ lock' \in [Entries -> Seq(Clients)]
        /\ lock'[k] = Tail(q)
        /\ \A j \in Entries \ {k} : lock'[j] = lock[j]
    BY <1>1, <1>2
  <1>4. ASSUME NEW j \in Entries, NEW i \in 1 .. Len(lock[j]), j # k \/ i > 1
        PROVE  lock[j][i] \in Clients /\ lock[j][i] # c
    <2>1. lock[j][i] \in Clients
      BY <1>1
    <2>2. CASE j # k
      <3>1. entry[lock[j][i]] = j
        BY DEF IInv, LockQueue
      <3> QED
        BY <2>1, <2>2, <3>1
    <2>3. CASE j = k /\ i > 1
      <3>1. 1 \in 1 .. Len(q)
        BY <1>1
      <3> QED
        BY <1>1, <2>3, <3>1 DEF IInv, LockQueue
    <2> QED
      BY <1>4, <2>1, <2>2, <2>3
  <1>5. ASSUME NEW j \in Entries, NEW i \in 1 .. Len(lock'[j])
        PROVE  /\ entry'[lock'[j][i]] = j
               /\ stage'[lock'[j][i]] \in {"waiting"} \cup Running
               /\ i > 1 => stage'[lock'[j][i]] = "waiting"
    <2>1. CASE j # k
      BY <1>3, <1>4, <2>1 DEF IInv, LockQueue
    <2>2. CASE j = k
      <3>1. i + 1 \in 2 .. Len(q) /\ lock'[j][i] = q[i + 1]
        BY <1>2, <1>3, <2>2
      <3>2. i + 1 \in 1 .. Len(lock[k]) /\ i + 1 > 1
        BY <3>1
      <3>3. q[i + 1] \in Clients /\ q[i + 1] # c
        BY <1>1, <1>4, <3>2
      <3>4. entry[q[i + 1]] = k /\ stage[q[i + 1]] = "waiting"
        BY <1>1, <3>2 DEF IInv, LockQueue
      <3> QED
        BY <2>2, <3>1, <3>3, <3>4
    <2> QED
      BY <2>1, <2>2
  <1>6. ASSUME NEW j \in Entries, NEW i \in 1 .. Len(lock'[j]), NEW h \in 1 .. Len(lock'[j]),
               lock'[j][i] = lock'[j][h]
        PROVE  i = h
    <2>1. CASE j # k
      BY <1>3, <1>6, <2>1 DEF IInv, LockQueue
    <2>2. CASE j = k
      <3>1. /\ i + 1 \in 2 .. Len(q) /\ lock'[j][i] = q[i + 1]
            /\ h + 1 \in 2 .. Len(q) /\ lock'[j][h] = q[h + 1]
        BY <1>2, <1>3, <2>2
      <3>2. i + 1 \in 1 .. Len(lock[k]) /\ h + 1 \in 1 .. Len(lock[k])
        BY <3>1
      <3>3. i + 1 = h + 1
        BY <1>1, <1>6, <3>1, <3>2 DEF IInv, LockQueue
      <3> QED
        BY <3>3
    <2> QED
      BY <2>1, <2>2
  <1>7. ASSUME NEW u \in Turns, stage'[u] \in Running
        PROVE  Holder(u)'
    <2>1. u # c
      BY <1>7
    <2>2. Holder(u) /\ entry'[u] = entry[u]
      <3>1. u \in Clients \ {c}
        BY <2>1
      <3>2. stage'[u] = stage[u] /\ entry'[u] = entry[u]
        BY <3>1
      <3>3. stage[u] \in Running
        BY <1>7, <3>2
      <3> QED
        BY <3>2, <3>3 DEF IInv, LockQueue
    <2>3. entry[u] # k
      BY <1>1, <2>1, <2>2 DEF Holder
    <2>4. entry[u] \in Entries
      <3>1. entry \in [Clients -> 0 .. MaxEntries]
        BY DEF IInv, TypeOK
      <3> QED
        BY <2>2, <3>1 DEF Holder
    <2> QED
      BY <1>3, <2>2, <2>3, <2>4 DEF Holder
  <1> QED
    BY <1>3, <1>5, <1>6, <1>7 DEF LockQueue

LEMMA LockRequestKeeps ==
  ASSUME IInv, NEW c \in Turns \cup Closers, LockRequest(c)
  PROVE  IInv'
  <1> USE ClientKinds
  <1> DEFINE k == entry[c]
             q == lock[k]
  <1>1. /\ stage[c] = "spawned"
        /\ stage' = [stage EXCEPT ![c] = "waiting"]
        /\ lock' = [lock EXCEPT ![k] = Append(@, c)]
        /\ UNCHANGED <<cmd_q, storeVars, cancel_flag, shared_token, cancelled, memoryVars,
                       step_index, backendVars, target, entry, iteration, result,
                       snapshot, cancel_seen>>
    BY DEF LockRequest, Goto
  <1>2. /\ stage'[c] = "waiting"
        /\ \A d \in Clients \ {c} : stage'[d] = stage[d]
    BY <1>1 DEF IInv, TypeOK
  <1>3. c \in Clients \ Creators
    BY ManagerAssumption
  <1>4. /\ Queued' /\ Known' /\ Counted'
        /\ \A r \in Sessions : NeverRemoved(r)' <=> NeverRemoved(r)
    <2>1. Taken' = Taken /\ UNCHANGED file
      BY <1>1 DEF backendVars, Taken
    <2> QED
      BY <1>1, <1>3, <2>1, CallMoves
  <1>5. entry \in [Clients -> 0 .. MaxEntries] /\ lock \in [Entries -> Seq(Clients)]
    BY DEF IInv, TypeOK
  <1>6. k \in Entries /\ k <= built /\ built \in Nat
    <2>1. k # 0 /\ k <= built /\ built \in Nat
      BY <1>1 DEF IInv, TypeOK, Holding, Blank
    <2> QED
      BY <1>5, <2>1
  <1>7. /\ lock' \in [Entries -> Seq(Clients)]
        /\ lock'[k] = Append(q, c)
        /\ \A j \in Entries \ {k} : lock'[j] = lock[j]
    BY <1>1, <1>5, <1>6
  <1>8. /\ Len(Append(q, c)) = Len(q) + 1 /\ Append(q, c)[Len(q) + 1] = c
        /\ \A i \in 1 .. Len(q) : Append(q, c)[i] = q[i]
        /\ Len(q) \in Nat /\ q \in Seq(Clients)
    BY <1>5, <1>6
  <1>9. \A j \in Entries : \A i \in 1 .. Len(lock[j]) : lock[j][i] \in Clients \ {c}
    <2>1. \A j \in Entries : \A i \in 1 .. Len(lock[j]) : lock[j][i] # c
      BY <1>1 DEF IInv, LockQueue, Running
    <2> QED
      BY <1>5, <2>1
  <1>10. TypeOK'
    <2>1. stage' \in [Clients -> Stages]
      BY <1>1 DEF IInv, TypeOK, Stages, Running
    <2> QED
      BY <1>1, <1>7, <2>1 DEF IInv, TypeOK, storeVars, backendVars, Taken
  <1>11. Staged'
    BY <1>1, <1>2, <1>3, ManagerAssumption DEF IInv, Staged
  <1>12. Blank'
    BY <1>1, <1>6, <1>7 DEF IInv, Blank, storeVars
  <1>13. Owned'
    <2>1. \A d \in Clients : entry[d] # 0 => target[d] \in Sessions
      BY HasTarget DEF IInv, Holding
    <2> QED
      BY <1>1, <1>4, <2>1 DEF IInv, Owned, storeVars
  <1>14. Holding'
    BY <1>1, <1>2, <1>6 DEF IInv, Holding
  <1>15. LockQueue'
    <2>1. ASSUME NEW j \in Entries, NEW i \in 1 .. Len(lock'[j])
          PROVE  /\ entry[lock'[j][i]] = j
                 /\ stage'[lock'[j][i]] \in {"waiting"} \cup Running
                 /\ i > 1 => stage'[lock'[j][i]] = "waiting"
      <3>1. CASE j # k
        BY <1>2, <1>7, <1>9, <3>1 DEF IInv, LockQueue
      <3>2. CASE j = k /\ i = Len(q) + 1
        BY <1>2, <1>7, <1>8, <3>2
      <3>3. CASE j = k /\ i \in 1 .. Len(q)
        <4>1. lock'[j][i] = lock[j][i]
          BY <1>7, <1>8, <3>3
        <4> QED
          BY <1>2, <1>9, <3>3, <4>1 DEF IInv, LockQueue
      <3> QED
        BY <1>7, <1>8, <3>1, <3>2, <3>3
    <2>2. ASSUME NEW j \in Entries, NEW i \in 1 .. Len(lock'[j]), NEW h \in 1 .. Len(lock'[j]),
                 lock'[j][i] = lock'[j][h]
          PROVE  i = h
      <3>1. CASE j # k
        BY <1>7, <2>2, <3>1 DEF IInv, LockQueue
      <3>2. CASE j = k
        <4>1. i \in 1 .. Len(q) => lock'[j][i] = lock[k][i] /\ lock'[j][i] # c
          BY <1>6, <1>7, <1>8, <1>9, <3>2
        <4>2. h \in 1 .. Len(q) => lock'[j][h] = lock[k][h] /\ lock'[j][h] # c
          BY <1>6, <1>7, <1>8, <1>9, <3>2
        <4>3. i \notin 1 .. Len(q) => i = Len(q) + 1 /\ lock'[j][i] = c
          BY <1>7, <1>8, <3>2
        <4>4. h \notin 1 .. Len(q) => h = Len(q) + 1 /\ lock'[j][h] = c
          BY <1>7, <1>8, <3>2
        <4>5. i \in 1 .. Len(q) /\ h \in 1 .. Len(q) /\ lock[k][i] = lock[k][h] => i = h
          BY <1>6 DEF IInv, LockQueue
        <4> QED
          BY <2>2, <4>1, <4>2, <4>3, <4>4, <4>5
      <3> QED
        BY <3>1, <3>2
    <2>3. ASSUME NEW u \in Turns, stage'[u] \in Running
          PROVE  Holder(u)'
      <3>1. Holder(u)
        BY <1>2, <2>3 DEF IInv, LockQueue, Running
      <3>2. entry[u] \in Entries
        BY <1>5, <3>1 DEF Holder
      <3>3. Len(q) > 0 => Head(Append(q, c)) = Head(q) /\ Append(q, c) # <<>>
        BY <1>8
      <3>4. lock[entry[u]] # <<>> /\ Head(lock[entry[u]]) = u /\ entry[u] # 0
        BY <3>1 DEF Holder
      <3>5. CASE entry[u] = k
        BY <1>1, <1>7, <1>8, <3>3, <3>4, <3>5 DEF Holder
      <3>6. CASE entry[u] # k
        BY <1>1, <1>7, <3>2, <3>4, <3>6 DEF Holder
      <3> QED
        BY <3>5, <3>6
    <2> QED
      BY <1>1, <2>1, <2>2, <2>3 DEF LockQueue
  <1>16. CountPublished'
    BY <1>1, <1>2 DEF IInv, CountPublished, Running
  <1>17. TranscriptOnDisk'
    BY <1>1, <1>4 DEF IInv, TranscriptOnDisk, storeVars, backendVars, Taken
  <1>18. FlagNoted' /\ CancelledForAReason'
    BY <1>1, <1>2 DEF IInv, FlagNoted, NoCancelIsIgnored, Unsettled, CancelledForAReason, Running
  <1>19. Looping'
    BY <1>1, <1>2 DEF IInv, Looping, Saved
  <1>20. OneCheckpointPerTurn'
    <2>1. \A j \in Entries : {u \in Turns : entry[u] = j /\ stage[u] \in Saved}
                             = {u \in Turns : entry[u] = j /\ stage'[u] \in Saved}
      BY <1>1, <1>2 DEF Saved
    <2> QED
      BY <1>1, <1>4, <2>1 DEF IInv, OneCheckpointPerTurn, Saved, storeVars, backendVars, Taken
  <1> QED
    BY <1>4, <1>10, <1>11, <1>12, <1>13, <1>14, <1>15, <1>16, <1>17, <1>18, <1>19, <1>20 DEF IInv

-----------------------------------------------------------------------------
(* Calls that are not in a lock queue, and the books they leave alone *)

\* A call outside the lock queues that does not enter one leaves them as they are.
LEMMA OutsiderMoves ==
  ASSUME IInv, NEW c \in Clients, stage[c] \notin {"waiting"} \cup Running,
         stage'[c] \notin Running, UNCHANGED lock,
         \A d \in Clients \ {c} : stage'[d] = stage[d] /\ entry'[d] = entry[d]
  PROVE  LockQueue'
  <1> USE ClientKinds
  <1>1. lock \in [Entries -> Seq(Clients)]
    BY DEF IInv, TypeOK
  <1>2. ASSUME NEW j \in Entries, NEW i \in 1 .. Len(lock[j])
        PROVE  lock[j][i] \in Clients \ {c}
    <2>1. lock[j][i] # c
      BY DEF IInv, LockQueue
    <2> QED
      BY <1>1, <2>1
  <1>3. ASSUME NEW u \in Turns, stage'[u] \in Running
        PROVE  Holder(u)'
    <2>1. stage'[u] = stage[u] /\ entry'[u] = entry[u]
      BY <1>3
    <2>2. Holder(u)
      BY <1>3, <2>1 DEF IInv, LockQueue
    <2> QED
      BY <2>1, <2>2 DEF Holder
  <1> QED
    BY <1>2, <1>3 DEF IInv, LockQueue

\* Whether t is a finished turn of entry k.
Past(t, k) == entry[t] = k /\ stage[t] \in Saved

\* Calls that leave the messages alone, and are not turns that run or finish, leave
\* the published counts and the step indices right.
LEMMA CountsKeep ==
  ASSUME IInv, NEW c \in Clients,
         \A d \in Clients \ {c} : stage'[d] = stage[d] /\ entry'[d] = entry[d],
         c \in Turns => /\ stage[c] \notin Running \ {"unlock"}
                        /\ \A k \in Entries : Past(c, k)' <=> Past(c, k),
         UNCHANGED <<messages, msg_count, step_index>>
  PROVE  /\ CountPublished'
         /\ \A k \in Entries :
              step_index'[k] = Cardinality({t \in Turns : entry'[t] = k /\ stage'[t] \in Saved})
  <1> USE ClientKinds
  <1>1. CountPublished'
    <2> SUFFICES ASSUME NEW k \in Entries,
                        \A t \in Turns : stage'[t] \in Running \ {"unlock"} => entry'[t] # k
                 PROVE  msg_count[k] = messages[k]
      BY DEF CountPublished
    <2>1. \A t \in Turns : stage[t] \in Running \ {"unlock"} => entry[t] # k
      OBVIOUS
    <2> QED
      BY <2>1 DEF IInv, CountPublished
  <1>2. ASSUME NEW k \in Entries
        PROVE  step_index'[k] = Cardinality({t \in Turns : entry'[t] = k /\ stage'[t] \in Saved})
    <2>1. {t \in Turns : entry[t] = k /\ stage[t] \in Saved}
          = {t \in Turns : entry'[t] = k /\ stage'[t] \in Saved}
      BY DEF Past
    <2>2. step_index[k] = Cardinality({t \in Turns : entry[t] = k /\ stage[t] \in Saved})
      BY DEF IInv, OneCheckpointPerTurn, Saved
    <2> QED
      BY <2>1, <2>2
  <1> QED
    BY <1>1, <1>2

\* As long as no session comes back to its first life, the store, the files and the
\* checkpoints stay in step when nobody touches them.
LEMMA RecordsKeep ==
  ASSUME IInv, \A r \in Sessions : NeverRemoved(r)' => NeverRemoved(r),
         \A k \in Entries :
           step_index'[k] = Cardinality({t \in Turns : entry'[t] = k /\ stage'[t] \in Saved}),
         Taken' = Taken, UNCHANGED <<sessions, memoryVars, step_index, file>>
  PROVE  TranscriptOnDisk' /\ OneCheckpointPerTurn'
  <1>1. TranscriptOnDisk'
    BY DEF IInv, TranscriptOnDisk
  <1>2. OneCheckpointPerTurn'
    BY DEF IInv, OneCheckpointPerTurn, Saved
  <1> QED
    BY <1>1, <1>2

LEMMA UnlockKeeps ==
  ASSUME IInv, NEW t \in Turns, Unlock(t)
  PROVE  IInv'
  <1> USE ClientKinds
  <1>1. /\ stage[t] = "unlock"
        /\ stage' = [stage EXCEPT ![t] = "done"]
        /\ lock' = [lock EXCEPT ![entry[t]] = Tail(@)]
        /\ UNCHANGED <<cmd_q, storeVars, cancel_flag, shared_token, cancelled, memoryVars,
                       step_index, backendVars, target, entry, result, snapshot, cancel_seen>>
        /\ iteration' = [iteration EXCEPT ![t] = 0]
    BY DEF Unlock, Goto
  <1>2. /\ stage'[t] = "done" /\ t \in Clients
        /\ \A d \in Clients \ {t} : stage'[d] = stage[d]
    BY <1>1 DEF IInv, TypeOK
  <1>3. Holder(t)
    BY <1>1 DEF IInv, LockQueue, Running
  <1>4. /\ Queued' /\ Known' /\ Counted'
        /\ \A r \in Sessions : NeverRemoved(r)' <=> NeverRemoved(r)
    BY <1>1, CallMoves, ManagerAssumption DEF backendVars, Taken
  <1>5. LockQueue' /\ lock' \in [Entries -> Seq(Clients)]
    BY <1>1, <1>2, <1>3, HeadLeaves DEF Running
  <1>6. TypeOK'
    <2>1. stage' \in [Clients -> Stages]
      BY <1>1 DEF IInv, TypeOK, Stages
    <2>2. iteration' \in [Turns -> 0 .. MaxIterations + 1]
      BY <1>1, ManagerAssumption DEF IInv, TypeOK
    <2> QED
      BY <1>1, <1>5, <2>1, <2>2 DEF IInv, TypeOK, storeVars, backendVars, Taken
  <1>7. Staged'
    BY <1>1, <1>2, ManagerAssumption DEF IInv, Staged
  <1>8. Blank'
    <2>1. entry[t] <= built /\ entry[t] \in Entries /\ built \in Nat
      BY <1>3 DEF IInv, Blank, TypeOK, Holder
    <2>2. lock \in [Entries -> Seq(Clients)]
      BY DEF IInv, TypeOK
    <2>3. \A j \in Entries : j > built => lock'[j] = lock[j]
      BY <1>1, <2>1, <2>2
    <2> QED
      BY <1>1, <2>3 DEF IInv, Blank, storeVars
  <1>9. Owned'
    <2>1. \A d \in Clients : entry[d] # 0 => target[d] \in Sessions
      BY HasTarget DEF IInv, Holding
    <2> QED
      BY <1>1, <1>4, <2>1 DEF IInv, Owned, storeVars
  <1>10. Holding'
    BY <1>1, <1>2 DEF IInv, Holding, Running
  <1>11. /\ CountPublished'
         /\ \A k \in Entries :
              step_index'[k] = Cardinality({u \in Turns : entry'[u] = k /\ stage'[u] \in Saved})
    BY <1>1, <1>2, CountsKeep DEF Past, Saved, Running
  <1>12. TranscriptOnDisk' /\ OneCheckpointPerTurn'
    BY <1>1, <1>4, <1>11, RecordsKeep DEF storeVars, backendVars, Taken
  <1>13. FlagNoted' /\ CancelledForAReason'
    BY <1>1, <1>2 DEF IInv, FlagNoted, NoCancelIsIgnored, Unsettled, CancelledForAReason, Running
  <1>14. Looping'
    <2>1. \A u \in Turns : iteration'[u] > MaxIterations => iteration[u] > MaxIterations
      BY <1>1, ManagerAssumption DEF IInv, TypeOK
    <2> QED
      BY <1>1, <1>2, <2>1 DEF IInv, Looping, Saved
  <1> QED
    BY <1>4, <1>5, <1>6, <1>7, <1>8, <1>9, <1>10, <1>11, <1>12, <1>13, <1>14 DEF IInv

LEMMA ReadUsageKeeps ==
  ASSUME IInv, NEW c \in Closers, ReadUsage(c)
  PROVE  IInv'
  <1> USE ClientKinds
  <1>1. /\ stage[c] = "waiting" /\ Holder(c)
        /\ stage' = [stage EXCEPT ![c] = "usage_known"]
        /\ entry' = [entry EXCEPT ![c] = 0]
        /\ lock' = [lock EXCEPT ![entry[c]] = Tail(@)]
        /\ UNCHANGED <<cmd_q, storeVars, cancel_flag, shared_token, cancelled, memoryVars,
                       step_index, backendVars, target, iteration, result, snapshot, cancel_seen>>
    BY DEF ReadUsage, Goto
  <1>2. /\ stage'[c] = "usage_known" /\ entry'[c] = 0 /\ c \in Clients \ (Creators \cup Turns)
        /\ \A d \in Clients \ {c} : stage'[d] = stage[d] /\ entry'[d] = entry[d]
    BY <1>1, ManagerAssumption DEF IInv, TypeOK
  <1>3. /\ Queued' /\ Known' /\ Counted'
        /\ \A r \in Sessions : NeverRemoved(r)' <=> NeverRemoved(r)
    BY <1>1, <1>2, CallMoves DEF backendVars, Taken
  <1>4. LockQueue' /\ lock' \in [Entries -> Seq(Clients)]
    BY <1>1, <1>2, HeadLeaves DEF Running
  <1>5. TypeOK'
    <2>1. stage' \in [Clients -> Stages] /\ entry' \in [Clients -> 0 .. MaxEntries]
      BY SMTT(40), <1>1, ManagerAssumption DEF IInv, TypeOK, Stages
    <2> QED
      BY <1>1, <1>4, <2>1 DEF IInv, TypeOK, storeVars, backendVars, Taken
  <1>6. Staged'
    BY <1>1, <1>2, ManagerAssumption DEF IInv, Staged
  <1>7. Blank'
    <2>1. entry[c] <= built /\ entry[c] \in Entries /\ built \in Nat
      BY <1>1 DEF IInv, Blank, TypeOK, Holder
    <2>2. lock \in [Entries -> Seq(Clients)]
      BY DEF IInv, TypeOK
    <2>3. \A j \in Entries : j > built => lock'[j] = lock[j]
      BY <1>1, <2>1, <2>2
    <2> QED
      BY <1>1, <1>2, <2>1, <2>3 DEF IInv, Blank, storeVars
  <1>8. Owned'
    <2>1. \A d \in Clients : entry[d] # 0 => target[d] \in Sessions
      BY HasTarget DEF IInv, Holding
    <2> QED
      BY <1>1, <1>2, <1>3, <2>1 DEF IInv, Owned, storeVars
  <1>9. Holding'
    BY <1>2 DEF IInv, Holding, Running
  <1>10. /\ CountPublished'
         /\ \A k \in Entries :
              step_index'[k] = Cardinality({u \in Turns : entry'[u] = k /\ stage'[u] \in Saved})
    BY <1>1, <1>2, CountsKeep
  <1>11. TranscriptOnDisk' /\ OneCheckpointPerTurn'
    BY <1>1, <1>3, <1>10, RecordsKeep DEF storeVars, backendVars, Taken
  <1>12. FlagNoted' /\ CancelledForAReason'
    BY <1>1, <1>2 DEF IInv, FlagNoted, NoCancelIsIgnored, Unsettled, CancelledForAReason
  <1>13. Looping'
    BY <1>1, <1>2 DEF IInv, Looping
  <1> QED
    BY <1>3, <1>4, <1>5, <1>6, <1>7, <1>8, <1>9, <1>10, <1>11, <1>12, <1>13 DEF IInv

-----------------------------------------------------------------------------
(* The cancel path *)

LEMMA CancelLookupKeeps ==
  ASSUME IInv, NEW c \in Closers \cup Cancellers, CancelLookup(c)
  PROVE  IInv'
  <1> USE ClientKinds
  <1>1. PICK s \in Issued :
          /\ target' = [target EXCEPT ![c] = s]
          /\ entry' = [entry EXCEPT ![c] = shared[s]]
          /\ IF shared[s] = 0
               THEN Goto(c, "cancelled") /\ UNCHANGED snapshot
               ELSE /\ Goto(c, "looked_up")
                    /\ snapshot' = [snapshot EXCEPT ![c] = shared_token[shared[s]]]
    BY DEF CancelLookup
  <1>2. /\ stage[c] = "idle"
        /\ UNCHANGED <<cmd_q, storeVars, entryVars, backendVars, iteration, result, cancel_seen>>
    BY DEF CancelLookup
  <1>3. /\ s \in Sessions /\ shared[s] = sessions[s] /\ sessions[s] \in 0 .. MaxEntries
        /\ c \in Clients \ (Creators \cup Turns \cup Resumers)
        /\ target[c] = NoTarget /\ NoTarget \notin Sessions
    BY <1>2, IssuedSessions, ManagerAssumption DEF IInv, TypeOK, Counted, MapsAgree, Staged
  <1>4. PICK a \in {"cancelled", "looked_up"} :
          stage' = [stage EXCEPT ![c] = a] /\ (a = "cancelled" <=> sessions[s] = 0)
    BY <1>1, <1>3 DEF Goto
  <1>5. /\ stage'[c] = a /\ target'[c] = s /\ entry'[c] = sessions[s]
        /\ \A d \in Clients \ {c} :
             stage'[d] = stage[d] /\ target'[d] = target[d] /\ entry'[d] = entry[d]
    BY <1>1, <1>3, <1>4 DEF IInv, TypeOK
  <1>6. Issued' = Issued
    BY <1>3, <1>5 DEF Issued
  <1>7. \A r \in Sessions : NeverRemoved(r)' <=> NeverRemoved(r)
    BY <1>2, <1>3, <1>5 DEF NeverRemoved
  <1>8. TypeOK'
    <2>1. /\ stage' \in [Clients -> Stages] /\ target' \in [Clients -> Sessions \cup {NoTarget}]
          /\ entry' \in [Clients -> 0 .. MaxEntries]
      BY <1>1, <1>3, <1>4 DEF IInv, TypeOK, Stages
    <2>2. snapshot' \in [Closers \cup Cancellers -> Nat]
      <3>1. snapshot \in [Closers \cup Cancellers -> Nat] /\ shared_token \in [Entries -> Nat]
        BY DEF IInv, TypeOK
      <3>2. sessions[s] # 0 => shared_token[sessions[s]] \in Nat
        BY <1>3, <3>1
      <3> QED
        BY <1>1, <1>3, <3>1, <3>2
    <2> QED
      BY <1>2, <2>1, <2>2 DEF IInv, TypeOK, storeVars, entryVars, backendVars, Taken
  <1>9. Staged'
    BY <1>3, <1>5, ManagerAssumption DEF IInv, Staged
  <1>10. Queued'
    <2>1. \A i \in 1 .. Len(cmd_q) : cmd_q[i].by \in Clients \ {c}
      BY <1>2, CallersAreClients DEF IInv, Queued
    <2> QED
      BY <1>2, <1>5, <2>1 DEF IInv, Queued
  <1>11. Known'
    <2>1. Issued \subseteq Sessions
      BY IssuedSessions DEF IInv
    <2>2. \A d \in Clients \ Creators : stage'[d] # "idle" => target'[d] \in Issued
      BY <1>5 DEF IInv, Known
    <2>3. \A d, e \in Creators : target'[d] = target'[e] /\ target'[d] # NoTarget => d = e
      BY <1>3, <1>5 DEF IInv, Known
    <2> QED
      BY <1>2, <1>6, <1>7, <2>1, <2>2, <2>3 DEF IInv, Known, storeVars, backendVars, Taken
  <1>12. Blank'
    BY <1>2, <1>3, <1>5 DEF IInv, Blank, storeVars, entryVars
  <1>13. Owned'
    <2>1. \A d, e \in Clients : entry'[d] = entry'[e] /\ entry'[d] # 0 => target'[d] = target'[e]
      BY <1>3, <1>5 DEF IInv, Owned
    <2>2. \A d \in Clients, r \in Sessions :
            entry'[d] = sessions[r] /\ entry'[d] # 0 => target'[d] = r
      BY <1>3, <1>5 DEF IInv, Owned, Counted, MapsAgree
    <2>3. \A d \in Clients :
            entry'[d] # 0 /\ NeverRemoved(target'[d]) => entry'[d] = sessions[target'[d]]
      BY <1>5 DEF IInv, Owned
    <2>4. \A d \in Clients : entry'[d] # 0 => target'[d] \in Sessions
      BY <1>3, <1>5, HasTarget DEF IInv, Holding
    <2> QED
      BY <1>2, <1>7, <2>1, <2>2, <2>3, <2>4 DEF Owned, storeVars
  <1>14. Holding'
    BY <1>4, <1>5 DEF IInv, Holding, Running
  <1>15. LockQueue'
    BY <1>2, <1>3, <1>5, OutsiderMoves DEF Running, entryVars
  <1>16. Counted'
    BY <1>2 DEF IInv, Counted, MapsAgree, LiveCount, storeVars
  <1>17. /\ CountPublished'
         /\ \A k \in Entries :
              step_index'[k] = Cardinality({u \in Turns : entry'[u] = k /\ stage'[u] \in Saved})
    BY <1>2, <1>3, <1>5, CountsKeep DEF entryVars
  <1>18. TranscriptOnDisk' /\ OneCheckpointPerTurn'
    BY <1>2, <1>7, <1>17, RecordsKeep DEF storeVars, entryVars, backendVars, Taken
  <1>19. FlagNoted' /\ CancelledForAReason' /\ Looping'
    <2>1. \A t \in Turns : stage'[t] = stage[t] /\ entry'[t] = entry[t]
      BY <1>3, <1>5
    <2> QED
      BY <1>2, <2>1 DEF IInv, FlagNoted, NoCancelIsIgnored, Unsettled, CancelledForAReason, Looping, entryVars
  <1> QED
    BY <1>8, <1>9, <1>10, <1>11, <1>12, <1>13, <1>14, <1>15, <1>16, <1>17, <1>18, <1>19 DEF IInv

\* What CancelFlag and CancelToken share: a cancel that has its entry moves on.
LEMMA CancelActs ==
  ASSUME IInv, NEW c \in Closers \cup Cancellers, NEW s \in {"cancelling", "cancelled"},
         stage[c] \in {"looked_up", "cancelling"}, Goto(c, s),
         s = "cancelling" => UNCHANGED entry,
         s = "cancelled" => entry' = [entry EXCEPT ![c] = 0],
         cancel_flag' \in [Entries -> BOOLEAN], cancelled' \in [Entries -> SUBSET Nat],
         cancel_seen' \in [Turns -> {"no", "yes", "erased", "ignored"}],
         snapshot' \in [Closers \cup Cancellers -> Nat],
         FlagNoted', CancelledForAReason',
         UNCHANGED <<cmd_q, storeVars, lock, shared_token, memoryVars, step_index,
                     backendVars, target, iteration, result>>
  PROVE  IInv'
  <1> USE ClientKinds
  <1>1. /\ stage'[c] = s
        /\ c \in Clients \ (Creators \cup Turns \cup Resumers)
        /\ entry'[c] = IF s = "cancelled" THEN 0 ELSE entry[c]
        /\ \A d \in Clients \ {c} : stage'[d] = stage[d] /\ entry'[d] = entry[d]
    BY ManagerAssumption DEF IInv, TypeOK, Goto
  <1>2. /\ Queued' /\ Known' /\ Counted'
        /\ \A r \in Sessions : NeverRemoved(r)' <=> NeverRemoved(r)
    BY <1>1, CallMoves DEF backendVars, Taken, Goto
  <1>4. TypeOK'
    <2>1. stage' \in [Clients -> Stages]
      BY DEF IInv, TypeOK, Stages, Goto
    <2>3. entry' \in [Clients -> 0 .. MaxEntries]
      <3>1. entry \in [Clients -> 0 .. MaxEntries] /\ 0 \in 0 .. MaxEntries
        BY ManagerAssumption DEF IInv, TypeOK
      <3>2. entry' = entry \/ entry' = [entry EXCEPT ![c] = 0]
        OBVIOUS
      <3> QED
        BY <3>1, <3>2
    <2> QED
      BY <2>1, <2>3 DEF IInv, TypeOK, storeVars, backendVars, Taken
  <1>5. Staged'
    BY <1>1, ManagerAssumption DEF IInv, Staged
  <1>6. Blank'
    <2>1. \A d \in Clients : entry'[d] <= built
      <3>1. built \in Nat /\ \A d \in Clients : entry[d] <= built
        BY DEF IInv, Blank, TypeOK
      <3> QED
        BY <1>1, <3>1
    <2> QED
      BY <2>1 DEF IInv, Blank, storeVars
  <1>7. Owned'
    <2>1. \A d \in Clients : entry[d] # 0 => target[d] \in Sessions
      BY HasTarget DEF IInv, Holding
    <2> QED
      BY <1>1, <1>2, <2>1 DEF IInv, Owned, storeVars
  <1>8. Holding'
    BY <1>1 DEF IInv, Holding, Running
  <1>9. LockQueue'
    BY <1>1, OutsiderMoves DEF Running
  <1>10. /\ CountPublished'
         /\ \A k \in Entries :
              step_index'[k] = Cardinality({u \in Turns : entry'[u] = k /\ stage'[u] \in Saved})
    BY <1>1, CountsKeep
  <1>11. TranscriptOnDisk' /\ OneCheckpointPerTurn'
    BY <1>2, <1>10, RecordsKeep DEF storeVars, backendVars, Taken
  <1>12. Looping'
    <2>1. \A t \in Turns : stage'[t] = stage[t]
      BY <1>1
    <2> QED
      BY <2>1 DEF IInv, Looping
  <1> QED
    BY <1>2, <1>4, <1>5, <1>6, <1>7, <1>8, <1>9, <1>10, <1>11, <1>12 DEF IInv

LEMMA CancelFlagKeeps ==
  ASSUME IInv, NEW c \in Closers \cup Cancellers, CancelFlag(c)
  PROVE  IInv'
  <1> USE ClientKinds
  <1> DEFINE k == entry[c]
  <1>1. /\ cancel_flag' = [cancel_flag EXCEPT ![k] = TRUE]
        /\ cancel_seen' = [t \in Turns |-> IF t \in Pending(k) THEN "yes" ELSE cancel_seen[t]]
        /\ stage[c] = "looked_up" /\ stage' = [stage EXCEPT ![c] = "cancelling"]
        /\ UNCHANGED <<entry, result, cancelled>>
    BY DEF CancelFlag, Goto
  <1>2. k \in Entries /\ cancel_flag \in [Entries -> BOOLEAN] /\ entry \in [Clients -> 0 .. MaxEntries]
    BY <1>1 DEF IInv, TypeOK, Holding
  <1>3. \A t \in Turns : stage'[t] = stage[t]
    BY <1>1, ManagerAssumption DEF IInv, TypeOK
  <1>4. cancel_seen' \in [Turns -> {"no", "yes", "erased", "ignored"}]
    BY <1>1 DEF IInv, TypeOK
  <1>5. FlagNoted'
    <2>1. ASSUME NEW t \in Turns, entry[t] # 0, result[t] = "none"
          PROVE  cancel_flag'[entry[t]] <=> cancel_seen'[t] = "yes"
      <3>1. entry[t] \in Entries
        BY <1>2, <2>1
      <3>2. CASE entry[t] = k
        BY <1>1, <1>2, <2>1, <3>2 DEF Pending
      <3>3. CASE entry[t] # k
        BY <1>1, <1>2, <2>1, <3>1, <3>3 DEF Pending, IInv, FlagNoted
      <3> QED
        BY <3>2, <3>3
    <2>2. \A t \in Turns : entry[t] = 0 => cancel_seen'[t] # "yes"
      BY <1>1, <1>2 DEF Pending, IInv, FlagNoted
    <2>3. \A t \in Turns : cancel_seen'[t] # "ignored"
      BY <1>1 DEF IInv, FlagNoted, NoCancelIsIgnored
    <2> QED
      BY <1>1, <1>3, <2>1, <2>2, <2>3 DEF IInv, FlagNoted, NoCancelIsIgnored
  <1>6. CancelledForAReason'
    BY <1>1 DEF Pending, IInv, CancelledForAReason
  <1>7. /\ cancel_flag' \in [Entries -> BOOLEAN] /\ cancelled' \in [Entries -> SUBSET Nat]
        /\ snapshot' \in [Closers \cup Cancellers -> Nat]
    BY <1>1, <1>2 DEF IInv, TypeOK, CancelFlag
  <1> QED
    BY <1>1, <1>4, <1>5, <1>6, <1>7, CancelActs DEF CancelFlag

LEMMA CancelTokenKeeps ==
  ASSUME IInv, NEW c \in Closers \cup Cancellers, CancelToken(c)
  PROVE  IInv'
  <1> USE ClientKinds
  <1>1. /\ cancelled \in [Entries -> SUBSET Nat] /\ snapshot \in [Closers \cup Cancellers -> Nat]
        /\ stage[c] = "cancelling" /\ stage' = [stage EXCEPT ![c] = "cancelled"]
        /\ entry' = [entry EXCEPT ![c] = 0]
        /\ UNCHANGED <<cancel_flag, result, cancel_seen>>
    BY DEF CancelToken, Goto, IInv, TypeOK
  <1>2. /\ cancelled' \in [Entries -> SUBSET Nat]
        /\ \A k \in Entries : cancelled[k] \subseteq cancelled'[k]
        /\ snapshot' \in [Closers \cup Cancellers -> Nat]
    BY <1>1 DEF CancelToken
  <1>3. \A t \in Turns : stage'[t] = stage[t] /\ entry'[t] = entry[t]
    BY SMTT(40), <1>1, ManagerAssumption DEF IInv, TypeOK
  <1>4. FlagNoted'
    BY <1>1, <1>3 DEF IInv, FlagNoted, NoCancelIsIgnored
  <1>5. CancelledForAReason'
    <2> SUFFICES ASSUME NEW t \in Turns, result[t] = "cancelled", cancel_seen[t] # "yes"
                 PROVE  0 \in cancelled'[entry[t]]
      BY <1>1, <1>3 DEF CancelledForAReason
    <2>1. 0 \in cancelled[entry[t]]
      BY DEF IInv, CancelledForAReason
    <2>2. entry[t] \in Entries
      BY DEF IInv, TypeOK, FlagNoted
    <2> QED
      BY <1>2, <2>1, <2>2
  <1>6. /\ cancel_flag' \in [Entries -> BOOLEAN]
        /\ cancel_seen' \in [Turns -> {"no", "yes", "erased", "ignored"}]
    BY <1>1 DEF IInv, TypeOK
  <1> QED
    BY <1>1, <1>2, <1>4, <1>5, <1>6, CancelActs DEF CancelToken

-----------------------------------------------------------------------------
(* The command channel *)

Commands == [op : {"create", "turn", "resume", "usage", "remove"}, by : Clients]

LEMMA SendersAreClients ==
  ASSUME NEW op
  PROVE  Senders(op) \subseteq Clients
  BY ClientKinds DEF Senders

\* A call that has no command in the channel puts one there.
LEMMA SendQueues ==
  ASSUME IInv, NEW op \in {"create", "turn", "resume", "usage", "remove"}, NEW c \in Senders(op),
         stage[c] # "sent", stage'[c] = "sent",
         \A d \in Clients \ {c} : stage'[d] = stage[d], Send(c, op)
  PROVE  Queued' /\ cmd_q' \in Seq(Commands)
  <1> DEFINE m == [op |-> op, by |-> c]
  <1>1. cmd_q \in Seq(Commands) /\ m \in Commands /\ m.op = op /\ m.by = c
    BY SendersAreClients DEF IInv, TypeOK, Commands
  <1>2. cmd_q' = Append(cmd_q, m)
    BY DEF Send
  <1>3. \A i \in 1 .. Len(cmd_q) : cmd_q[i].by \in Clients \ {c}
    BY CallersAreClients DEF IInv, Queued
  <1> HIDE DEF m
  <1>4. /\ cmd_q' \in Seq(Commands) /\ Len(cmd_q') = Len(cmd_q) + 1 /\ Len(cmd_q) \in Nat
        /\ cmd_q'[Len(cmd_q) + 1] = m
        /\ \A i \in 1 .. Len(cmd_q) : cmd_q'[i] = cmd_q[i]
    BY <1>1, <1>2
  <1>5. ASSUME NEW i \in 1 .. Len(cmd_q')
        PROVE  stage'[cmd_q'[i].by] = "sent" /\ cmd_q'[i].by \in Senders(cmd_q'[i].op)
    <2>1. CASE i = Len(cmd_q) + 1
      BY <1>1, <1>4, <2>1
    <2>2. CASE i \in 1 .. Len(cmd_q)
      BY <1>3, <1>4, <2>2 DEF IInv, Queued
    <2> QED
      BY <1>4, <2>1, <2>2
  <1>6. ASSUME NEW i \in 1 .. Len(cmd_q'), NEW j \in 1 .. Len(cmd_q'),
               cmd_q'[i].by = cmd_q'[j].by
        PROVE  i = j
    <2>1. CASE i \in 1 .. Len(cmd_q) /\ j \in 1 .. Len(cmd_q)
      BY <1>4, <1>6, <2>1 DEF IInv, Queued
    <2>2. CASE i \notin 1 .. Len(cmd_q) \/ j \notin 1 .. Len(cmd_q)
      BY <1>1, <1>3, <1>4, <1>6, <2>2
    <2> QED
      BY <2>1, <2>2
  <1> QED
    BY <1>4, <1>5, <1>6 DEF Queued

\* The actor handles the first command: its call awaits it and holds no entry.
LEMMA CallerWaits ==
  ASSUME IInv, NEW op, Command(op)
  PROVE  /\ Caller \in Senders(op) /\ Caller \in Clients
         /\ stage[Caller] = "sent" /\ entry[Caller] = 0
         /\ Called \in Sessions
         /\ Caller \notin Creators => Called \in Issued
  <1>1. cmd_q \in Seq(Commands) /\ cmd_q # <<>>
    BY DEF IInv, TypeOK, Commands, Command
  <1>2. 1 \in 1 .. Len(cmd_q) /\ Head(cmd_q) = cmd_q[1]
    BY <1>1
  <1>3. stage[Caller] = "sent" /\ Caller \in Senders(op)
    BY <1>2 DEF IInv, Queued, Caller, Command
  <1>4. Caller \in Clients
    BY <1>3, SendersAreClients
  <1>5. entry[Caller] = 0
    BY <1>3, <1>4 DEF IInv, Holding
  <1>6. Called \in Sessions
    BY <1>3, <1>4, HasTarget DEF IInv, Called
  <1>7. Caller \notin Creators => Called \in Issued
    BY <1>3, <1>4 DEF IInv, Known, Called
  <1> QED
    BY <1>3, <1>4, <1>5, <1>6, <1>7

\* Handling it takes it out of the channel.
LEMMA DequeueQueues ==
  ASSUME IInv, cmd_q # <<>>, Dequeue,
         \A d \in Clients \ {Caller} : stage'[d] = stage[d]
  PROVE  Queued' /\ cmd_q' \in Seq(Commands)
  <1>1. cmd_q \in Seq(Commands)
    BY DEF IInv, TypeOK, Commands
  <1>2. Caller = cmd_q[1].by /\ 1 \in 1 .. Len(cmd_q)
    BY <1>1 DEF Caller
  <1>3. /\ cmd_q' \in Seq(Commands)
        /\ \A i \in 1 .. Len(cmd_q') :
             i + 1 \in 1 .. Len(cmd_q) /\ i + 1 # 1 /\ cmd_q'[i] = cmd_q[i + 1]
    BY <1>1 DEF Dequeue
  <1>4. ASSUME NEW i \in 1 .. Len(cmd_q')
        PROVE  stage'[cmd_q'[i].by] = "sent" /\ cmd_q'[i].by \in Senders(cmd_q'[i].op)
    <2>1. i + 1 \in 1 .. Len(cmd_q) /\ i + 1 # 1 /\ cmd_q'[i] = cmd_q[i + 1]
      BY <1>3
    <2>2. cmd_q[i + 1].by \in Clients /\ cmd_q[i + 1].by # Caller
      BY <1>2, <2>1, CallersAreClients DEF IInv, Queued
    <2>3. stage[cmd_q[i + 1].by] = "sent" /\ cmd_q[i + 1].by \in Senders(cmd_q[i + 1].op)
      BY <2>1 DEF IInv, Queued
    <2> QED
      BY <2>1, <2>2, <2>3
  <1>5. ASSUME NEW i \in 1 .. Len(cmd_q'), NEW j \in 1 .. Len(cmd_q'),
               cmd_q'[i].by = cmd_q'[j].by
        PROVE  i = j
    <2>1. /\ i + 1 \in 1 .. Len(cmd_q) /\ cmd_q'[i] = cmd_q[i + 1]
          /\ j + 1 \in 1 .. Len(cmd_q) /\ cmd_q'[j] = cmd_q[j + 1]
      BY <1>3
    <2>2. i + 1 = j + 1
      BY <1>5, <2>1 DEF IInv, Queued
    <2> QED
      BY <2>2
  <1> QED
    BY <1>3, <1>4, <1>5 DEF Queued

-----------------------------------------------------------------------------
(* Requests are sent, and handled without touching the store *)

\* A call that holds nothing sends its command, is answered, or is given the entry e
\* of its session; then it is at s.
CallStep(c, s, e) ==
  /\ stage[c] \in {"idle", "sent", "cancelled", "usage_known"}
  /\ stage' = [stage EXCEPT ![c] = s]
  /\ c \in Creators => /\ stage[c] = "idle" /\ s = "sent"
                       /\ target'[c] \notin {target[d] : d \in Creators}
  /\ c \notin Creators => target'[c] \in Issued
  /\ c \in Resumers => s \in {"sent", "done"}
  /\ c \in Turns => s # "usage_known"
  /\ c \in Closers => s # "done"
  /\ c \notin Cancellers
  /\ target' \in [Clients -> Sessions \cup {NoTarget}] /\ target'[c] \in Sessions
  /\ stage[c] # "idle" => target'[c] = target[c]
  /\ \A d \in Clients \ {c} : target'[d] = target[d]
  /\ entry' = [entry EXCEPT ![c] = e] /\ e \in {0, sessions[target'[c]]}
  /\ e # 0 <=> s = "spawned"
  /\ Queued' /\ cmd_q' \in Seq(Commands)
  /\ cancel_flag' \in [Entries -> BOOLEAN] /\ shared_token' \in [Entries -> Nat]
  /\ result' \in [Turns -> Results]
  /\ cancel_seen' \in [Turns -> {"no", "yes", "erased", "ignored"}]
  /\ FlagNoted' /\ CancelledForAReason'
  /\ UNCHANGED <<storeVars, lock, cancelled, memoryVars, step_index, backendVars,
                 iteration, snapshot>>

\* Nothing changes for the turns that have an entry.
LEMMA FlagsKept ==
  ASSUME IInv, UNCHANGED <<cancel_flag, cancelled, result, cancel_seen>>,
         \A t \in Turns : entry'[t] = entry[t] /\ (stage'[t] \in Unsettled => stage[t] \in Unsettled)
  PROVE  FlagNoted' /\ CancelledForAReason'
  BY DEF IInv, FlagNoted, NoCancelIsIgnored, CancelledForAReason

LEMMA CallSteps ==
  ASSUME IInv, NEW c \in Clients, NEW s \in {"sent", "done", "spawned", "usage_known"}, NEW e,
         CallStep(c, s, e)
  PROVE  IInv'
  <1> USE ClientKinds DEF CallStep
  <1>1. /\ stage'[c] = s /\ entry'[c] = e
        /\ \A d \in Clients \ {c} : stage'[d] = stage[d] /\ entry'[d] = entry[d]
    BY DEF IInv, TypeOK
  <1>2. entry[c] = 0 /\ NoTarget \notin Sessions
    BY ManagerAssumption DEF IInv, Holding
  <1>3. Issued' = Issued
    <2>1. ASSUME NEW d \in Creators
          PROVE  /\ stage'[d] = "done" <=> stage[d] = "done"
                 /\ stage[d] = "done" => target'[d] = target[d]
      BY <1>1
    <2> QED
      BY <2>1 DEF Issued
  <1>4. \A r \in Sessions : NeverRemoved(r)' <=> NeverRemoved(r)
    BY <1>1 DEF NeverRemoved
  <1>5. sessions[target'[c]] \in 0 .. MaxEntries /\ sessions[target'[c]] <= built /\ built \in Nat
    BY DEF IInv, TypeOK, Blank
  <1>6. TypeOK'
    <2>1. stage' \in [Clients -> Stages]
      BY DEF IInv, TypeOK, Stages
    <2>2. entry' \in [Clients -> 0 .. MaxEntries]
      BY <1>5, ManagerAssumption DEF IInv, TypeOK
    <2> QED
      BY <2>1, <2>2 DEF IInv, TypeOK, storeVars, backendVars, Taken, Commands
  <1>7. Staged'
    <2>1. \A d \in Clients : stage'[d] = "idle" <=> target'[d] = NoTarget
      BY <1>1, <1>2 DEF IInv, Staged
    <2> QED
      BY <1>1, <2>1, ManagerAssumption DEF IInv, Staged
  <1>8. Known'
    <2>1. Issued \subseteq Sessions
      BY IssuedSessions DEF IInv
    <2>2. \A d \in Clients \ Creators : stage'[d] # "idle" => target'[d] \in Issued
      BY <1>1 DEF IInv, Known
    <2>3. \A d, f \in Creators : target'[d] = target'[f] /\ target'[d] # NoTarget => d = f
      BY <1>1 DEF IInv, Known
    <2> QED
      BY <1>3, <1>4, <2>1, <2>2, <2>3 DEF IInv, Known, storeVars, backendVars, Taken
  <1>9. Blank'
    <2>1. \A d \in Clients : entry'[d] <= built
      BY <1>1, <1>5 DEF IInv, Blank
    <2> QED
      BY <2>1 DEF IInv, Blank, storeVars
  <1>10. Owned'
    <2>1. \A d \in Clients, r \in Sessions :
            entry'[d] = sessions[r] /\ entry'[d] # 0 => target'[d] = r
      BY <1>1 DEF IInv, Owned, Counted, MapsAgree
    <2>2. \A d, f \in Clients : entry'[d] = entry'[f] /\ entry'[d] # 0 => target'[d] = target'[f]
      BY <1>1, <2>1 DEF IInv, Owned
    <2>3. \A d \in Clients :
            entry'[d] # 0 /\ NeverRemoved(target'[d]) => entry'[d] = sessions[target'[d]]
      <3>1. ASSUME NEW d \in Clients \ {c}, entry[d] # 0, NeverRemoved(target[d])
            PROVE  entry[d] = sessions[target[d]]
        BY <3>1 DEF IInv, Owned
      <3>2. entry'[c] # 0 => entry'[c] = sessions[target'[c]]
        BY <1>1
      <3>3. \A d \in Clients \ {c} : entry'[d] = entry[d] /\ target'[d] = target[d]
        BY <1>1
      <3> QED
        BY <3>1, <3>2, <3>3
    <2>4. \A d \in Clients : entry'[d] # 0 => target'[d] \in Sessions
      BY <1>1, HasTarget DEF IInv, Holding
    <2> QED
      BY <1>4, <2>1, <2>2, <2>3, <2>4 DEF Owned, storeVars
  <1>11. Holding'
    BY <1>1 DEF IInv, Holding, Running
  <1>12. LockQueue'
    BY <1>1, OutsiderMoves DEF Running
  <1>13. Counted'
    BY DEF IInv, Counted, MapsAgree, LiveCount, storeVars
  <1>14. /\ CountPublished'
         /\ \A k \in Entries :
              step_index'[k] = Cardinality({u \in Turns : entry'[u] = k /\ stage'[u] \in Saved})
    <2>1. ASSUME NEW k \in Entries, c \in Turns
          PROVE  Past(c, k)' <=> Past(c, k)
      BY <1>1, <1>2 DEF Past, Saved
    <2> QED
      BY <1>1, <2>1, CountsKeep DEF Running
  <1>15. TranscriptOnDisk' /\ OneCheckpointPerTurn'
    BY <1>4, <1>14, RecordsKeep DEF storeVars, backendVars, Taken
  <1>18. Looping'
    BY <1>1 DEF IInv, Looping, Saved
  <1> QED
    BY <1>6, <1>7, <1>8, <1>9, <1>10, <1>11, <1>12, <1>13, <1>14, <1>15, <1>18 DEF IInv

LEMMA SendCreateKeeps ==
  ASSUME IInv, NEW c \in Creators, SendCreate(c)
  PROVE  IInv'
  <1> USE ClientKinds
  <1>1. PICK r \in Sessions \ {target[d] : d \in Creators} : target' = [target EXCEPT ![c] = r]
    BY DEF SendCreate
  <1>2. /\ target' \in [Clients -> Sessions \cup {NoTarget}] /\ target'[c] = r
        /\ \A d \in Clients \ {c} : target'[d] = target[d]
    BY <1>1 DEF IInv, TypeOK
  <1>3. /\ stage[c] = "idle" /\ stage' = [stage EXCEPT ![c] = "sent"] /\ stage'[c] = "sent"
        /\ \A d \in Clients \ {c} : stage'[d] = stage[d]
    BY DEF SendCreate, Goto, IInv, TypeOK
  <1>4. c \in Senders("create")
    BY DEF Senders
  <1>5. Queued' /\ cmd_q' \in Seq(Commands)
    BY <1>3, <1>4, SendQueues DEF SendCreate
  <1>6. entry' = [entry EXCEPT ![c] = 0]
    BY <1>3 DEF SendCreate, IInv, Holding, TypeOK
  <1>7. c \notin Turns /\ c \notin Closers /\ c \notin Cancellers
    BY ManagerAssumption
  <1>8. /\ cancel_flag \in [Entries -> BOOLEAN] /\ shared_token \in [Entries -> Nat]
        /\ result \in [Turns -> Results] /\ cancel_seen \in [Turns -> {"no", "yes", "erased", "ignored"}]
        /\ target \in [Clients -> Sessions \cup {NoTarget}]
    BY DEF IInv, TypeOK
  <1>9. /\ UNCHANGED <<storeVars, entryVars, backendVars, iteration, result, snapshot, cancel_seen>>
        /\ UNCHANGED <<lock, cancelled, memoryVars, step_index, cancel_flag, shared_token>>
    BY DEF SendCreate, entryVars
  <1>20. FlagNoted' /\ CancelledForAReason'
    <2>1. \A t \in Turns : entry'[t] = entry[t] /\ (stage'[t] \in Unsettled => stage[t] \in Unsettled)
      BY <1>3, <1>6, <1>7, <1>9 DEF IInv, TypeOK, Unsettled
    <2> QED
      BY <1>3, <1>6, <1>7, <1>9, <2>1, FlagsKept
  <1>11. CallStep(c, "sent", 0)
    BY <1>1, <1>2, <1>3, <1>5, <1>6, <1>7, <1>8, <1>9, <1>20 DEF CallStep
  <1> QED
    BY <1>11, CallSteps

LEMMA SendCallKeeps ==
  ASSUME IInv, NEW c \in Turns \cup Resumers, NEW op \in {"turn", "resume"},
         c \in Senders(op), SendCall(c, op)
  PROVE  IInv'
  <1> USE ClientKinds
  <1>1. PICK r \in Issued : target' = [target EXCEPT ![c] = r]
    BY DEF SendCall
  <1>2. /\ target' \in [Clients -> Sessions \cup {NoTarget}] /\ target'[c] = r /\ r \in Sessions
        /\ \A d \in Clients \ {c} : target'[d] = target[d]
    BY <1>1, IssuedSessions DEF IInv, TypeOK
  <1>3. /\ stage[c] = "idle" /\ stage' = [stage EXCEPT ![c] = "sent"] /\ stage'[c] = "sent"
        /\ \A d \in Clients \ {c} : stage'[d] = stage[d]
    BY DEF SendCall, Goto, IInv, TypeOK
  <1>5. Queued' /\ cmd_q' \in Seq(Commands)
    BY <1>3, SendQueues DEF SendCall
  <1>6. entry' = [entry EXCEPT ![c] = 0]
    BY <1>3 DEF SendCall, IInv, Holding, TypeOK
  <1>7. c \notin Creators /\ c \notin Closers /\ c \notin Cancellers
    BY ManagerAssumption
  <1>9. /\ cancel_flag \in [Entries -> BOOLEAN] /\ shared_token \in [Entries -> Nat]
        /\ result \in [Turns -> Results] /\ cancel_seen \in [Turns -> {"no", "yes", "erased", "ignored"}]
        /\ target \in [Clients -> Sessions \cup {NoTarget}]
    BY DEF IInv, TypeOK
  <1>10. /\ UNCHANGED <<storeVars, entryVars, backendVars, iteration, result, snapshot, cancel_seen>>
         /\ UNCHANGED <<lock, cancelled, memoryVars, step_index, cancel_flag, shared_token>>
    BY DEF SendCall, entryVars
  <1>20. FlagNoted' /\ CancelledForAReason'
    <2>1. \A t \in Turns : entry'[t] = entry[t] /\ (stage'[t] \in Unsettled => stage[t] \in Unsettled)
      BY <1>3 DEF SendCall, Unsettled
    <2> QED
      BY <1>3, <1>6, <1>7, <1>10, <2>1, FlagsKept
  <1>11. CallStep(c, "sent", 0)
    BY <1>1, <1>2, <1>3, <1>5, <1>6, <1>7, <1>9, <1>10, <1>20 DEF CallStep
  <1> QED
    BY <1>11, CallSteps

\* close_session sends its next command.
LEMMA CloserSends ==
  ASSUME IInv, NEW c \in Closers, NEW op \in {"usage", "remove"},
         stage[c] \in {"cancelled", "usage_known"}, Goto(c, "sent"), Send(c, op),
         UNCHANGED <<storeVars, entryVars, backendVars, target, entry, iteration, result,
                     snapshot, cancel_seen>>
  PROVE  IInv'
  <1> USE ClientKinds
  <1>1. /\ stage' = [stage EXCEPT ![c] = "sent"] /\ stage'[c] = "sent"
        /\ \A d \in Clients \ {c} : stage'[d] = stage[d]
    BY DEF Goto, IInv, TypeOK
  <1>2. c \in Senders(op)
    BY DEF Senders
  <1>3. Queued' /\ cmd_q' \in Seq(Commands)
    BY <1>1, <1>2, SendQueues
  <1>4. entry' = [entry EXCEPT ![c] = 0]
    BY DEF IInv, Holding, TypeOK
  <1>5. c \notin Creators /\ c \notin Turns /\ c \notin Resumers /\ c \notin Cancellers
    BY ManagerAssumption
  <1>6. target[c] \in Sessions /\ target[c] \in Issued
    BY <1>5, HasTarget DEF IInv, Known
  <1>7. /\ cancel_flag \in [Entries -> BOOLEAN] /\ shared_token \in [Entries -> Nat]
        /\ result \in [Turns -> Results] /\ cancel_seen \in [Turns -> {"no", "yes", "erased", "ignored"}]
        /\ target \in [Clients -> Sessions \cup {NoTarget}]
    BY DEF IInv, TypeOK
  <1>8. UNCHANGED <<lock, cancelled, memoryVars, step_index, cancel_flag, shared_token>>
    BY DEF entryVars
  <1>9. FlagNoted' /\ CancelledForAReason'
    BY <1>1, <1>5, <1>8, FlagsKept
  <1>11. CallStep(c, "sent", 0)
    BY <1>1, <1>3, <1>4, <1>5, <1>6, <1>7, <1>8, <1>9 DEF CallStep
  <1> QED
    BY <1>11, CallSteps

LEMMA SendUsageKeeps ==
  ASSUME IInv, NEW c \in Closers, SendUsage(c)
  PROVE  IInv'
  BY CloserSends DEF SendUsage

LEMMA SendRemoveKeeps ==
  ASSUME IInv, NEW c \in Closers, SendRemove(c)
  PROVE  IInv'
  BY CloserSends DEF SendRemove

\* The gateway's deletion of the file comes after the removal of the session.
LEMMA DeleteFileKeeps ==
  ASSUME IInv, NEW c \in Closers, DeleteFile(c)
  PROVE  IInv'
  <1> USE ClientKinds
  <1>1. /\ stage[c] = "removed" /\ stage' = [stage EXCEPT ![c] = "done"]
        /\ file' = [file EXCEPT ![target[c]] = NoFile]
        /\ UNCHANGED <<cmd_q, storeVars, entryVars, backend, meta, checkpoints, unsaved, target,
                       entry, iteration, result, snapshot, cancel_seen>>
    BY DEF DeleteFile, Goto
  <1>2. /\ stage'[c] = "done" /\ c \in Clients \ (Creators \cup Turns)
        /\ \A d \in Clients \ {c} : stage'[d] = stage[d]
    BY <1>1, ManagerAssumption DEF IInv, TypeOK
  <1>3. /\ Queued' /\ Known' /\ Counted'
        /\ \A r \in Sessions : NeverRemoved(r)' <=> NeverRemoved(r)
    <2>1. target[c] \in Issued
      BY <1>1, ManagerAssumption DEF IInv, Known
    <2>2. \A r \in Sessions \ Issued : file'[r] = file[r]
      BY <1>1, <2>1 DEF IInv, TypeOK
    <2>3. Taken' = Taken
      BY <1>1 DEF Taken
    <2> QED
      BY <1>1, <1>2, <2>2, <2>3, CallMoves
  <1>4. target[c] \in Sessions /\ ~NeverRemoved(target[c])
    BY <1>1, HasTarget DEF IInv, NeverRemoved
  <1>5. TypeOK'
    <2>1. stage' \in [Clients -> Stages]
      BY <1>1 DEF IInv, TypeOK, Stages
    <2>2. file' \in [Sessions -> Files]
      <3>1. file \in [Sessions -> Files] /\ NoFile \in Files
        BY DEF IInv, TypeOK, Files, NoFile
      <3> QED
        BY <1>1, <3>1
    <2> QED
      BY <1>1, <2>1, <2>2 DEF IInv, TypeOK, storeVars, entryVars, Files
  <1>6. Staged'
    BY <1>1, <1>2, ManagerAssumption DEF IInv, Staged
  <1>7. Blank'
    BY <1>1 DEF IInv, Blank, storeVars, entryVars
  <1>8. Owned'
    <2>1. \A d \in Clients : entry[d] # 0 => target[d] \in Sessions
      BY HasTarget DEF IInv, Holding
    <2> QED
      BY <1>1, <1>3, <2>1 DEF IInv, Owned, storeVars
  <1>9. Holding'
    BY <1>1, <1>2 DEF IInv, Holding, Running
  <1>10. LockQueue'
    BY <1>1, <1>2, OutsiderMoves DEF Running, entryVars
  <1>11. /\ CountPublished'
         /\ \A k \in Entries :
              step_index'[k] = Cardinality({u \in Turns : entry'[u] = k /\ stage'[u] \in Saved})
    BY <1>1, <1>2, CountsKeep DEF entryVars
  <1>12. TranscriptOnDisk'
    BY <1>1, <1>3, <1>4 DEF IInv, TranscriptOnDisk, TypeOK, storeVars, entryVars
  <1>13. OneCheckpointPerTurn'
    BY <1>1, <1>3, <1>11 DEF IInv, OneCheckpointPerTurn, Saved, Taken, storeVars, entryVars
  <1>14. FlagNoted' /\ CancelledForAReason' /\ Looping'
    <2>1. \A t \in Turns : stage'[t] = stage[t]
      BY <1>2
    <2> QED
      BY <1>1, <2>1 DEF IInv, FlagNoted, NoCancelIsIgnored, Unsettled, CancelledForAReason, Looping, entryVars
  <1> QED
    BY <1>3, <1>5, <1>6, <1>7, <1>8, <1>9, <1>10, <1>11, <1>12, <1>13, <1>14 DEF IInv

LEMMA HandleUsageKeeps ==
  ASSUME IInv, HandleUsage
  PROVE  IInv'
  <1> USE ClientKinds
  <1> DEFINE k == sessions[Called]
             s == IF k = 0 THEN "usage_known" ELSE "spawned"
  <1>1. /\ Command("usage") /\ Dequeue
        /\ stage' = [stage EXCEPT ![Caller] = s]
        /\ entry' = [entry EXCEPT ![Caller] = k]
        /\ UNCHANGED <<storeVars, entryVars, backendVars, target, iteration, result, snapshot,
                       cancel_seen>>
    BY DEF HandleUsage, Goto
  <1>2. /\ Caller \in Closers /\ stage[Caller] = "sent"
        /\ Called = target[Caller] /\ Called \in Sessions /\ Called \in Issued
    BY <1>1, CallerWaits, ManagerAssumption DEF Senders, Called
  <1>3. Queued' /\ cmd_q' \in Seq(Commands)
    <2>1. \A d \in Clients \ {Caller} : stage'[d] = stage[d]
      BY <1>1 DEF IInv, TypeOK
    <2> QED
      BY <1>1, <2>1, DequeueQueues DEF Command
  <1>4. /\ Caller \notin Creators /\ Caller \notin Turns /\ Caller \notin Resumers
        /\ Caller \notin Cancellers
    BY <1>2, ManagerAssumption
  <1>5. /\ cancel_flag \in [Entries -> BOOLEAN] /\ shared_token \in [Entries -> Nat]
        /\ result \in [Turns -> Results] /\ cancel_seen \in [Turns -> {"no", "yes", "erased", "ignored"}]
        /\ target \in [Clients -> Sessions \cup {NoTarget}]
    BY DEF IInv, TypeOK
  <1>6. UNCHANGED <<lock, cancelled, memoryVars, step_index, cancel_flag, shared_token>>
    BY <1>1 DEF entryVars
  <1>7. s \in {"spawned", "usage_known"} /\ s # "done" /\ (k # 0 <=> s = "spawned")
    OBVIOUS
  <1>8. FlagNoted' /\ CancelledForAReason'
    <2>1. \A t \in Turns : entry'[t] = entry[t] /\ stage'[t] = stage[t]
      BY <1>1, <1>4 DEF IInv, TypeOK
    <2> QED
      BY <1>1, <1>6, <2>1, FlagsKept
  <1> HIDE DEF s
  <1>11. CallStep(Caller, s, k)
    BY <1>1, <1>2, <1>3, <1>4, <1>5, <1>6, <1>7, <1>8 DEF CallStep
  <1> QED
    BY <1>2, <1>7, <1>11, CallSteps

LEMMA HandleTurnKeeps ==
  ASSUME IInv, HandleTurn
  PROVE  IInv'
  <1> USE ClientKinds
  <1> DEFINE k == sessions[Called]
             s == IF k = 0 THEN "done" ELSE "spawned"
  <1>1. /\ Command("turn") /\ Dequeue
        /\ UNCHANGED <<storeVars, backendVars, target, iteration, snapshot>>
        /\ UNCHANGED <<lock, cancelled, memoryVars, step_index>>
        /\ stage' = [stage EXCEPT ![Caller] = s]
    BY DEF HandleTurn, Goto, entryVars
  <1>2. /\ Caller \in Turns /\ stage[Caller] = "sent" /\ entry[Caller] = 0
        /\ Called = target[Caller] /\ Called \in Sessions /\ Called \in Issued
    BY <1>1, CallerWaits, ManagerAssumption DEF Senders, Called
  <1>3. Queued' /\ cmd_q' \in Seq(Commands)
    <2>1. \A d \in Clients \ {Caller} : stage'[d] = stage[d]
      BY <1>1 DEF IInv, TypeOK
    <2> QED
      BY <1>1, <2>1, DequeueQueues DEF Command
  <1>4. /\ Caller \notin Creators /\ Caller \notin Closers /\ Caller \notin Resumers
        /\ Caller \notin Cancellers
    BY <1>2, ManagerAssumption
  <1>5. k \in 0 .. MaxEntries
    BY <1>2 DEF IInv, TypeOK
  <1>6. entry' = [entry EXCEPT ![Caller] = k]
    BY <1>2 DEF HandleTurn, IInv, TypeOK
  <1>7. /\ cancel_flag \in [Entries -> BOOLEAN] /\ shared_token \in [Entries -> Nat]
        /\ result \in [Turns -> Results] /\ result[Caller] = "none"
        /\ cancel_seen \in [Turns -> {"no", "yes", "erased", "ignored"}]
        /\ entry \in [Clients -> 0 .. MaxEntries]
    BY <1>2 DEF IInv, TypeOK, FlagNoted, Unsettled
  <1>8. /\ cancel_flag' \in [Entries -> BOOLEAN] /\ shared_token' \in [Entries -> Nat]
        /\ result' \in [Turns -> Results]
        /\ cancel_seen' \in [Turns -> {"no", "yes", "erased", "ignored"}]
        /\ FlagNoted' /\ CancelledForAReason'
    <2>1. CASE k = 0
      <3>1. /\ result' = [result EXCEPT ![Caller] = "not_found"]
            /\ UNCHANGED <<entry, entryVars, cancel_seen>>
        BY <2>1 DEF HandleTurn
      <3>2. stage'[Caller] = "done" /\ \A t \in Turns \ {Caller} : stage'[t] = stage[t]
        BY <1>1, <1>2, <2>1 DEF IInv, TypeOK
      <3>3. result'[Caller] = "not_found" /\ \A t \in Turns \ {Caller} : result'[t] = result[t]
        BY <1>2, <1>7, <3>1
      <3>4. FlagNoted' /\ CancelledForAReason'
        BY <1>2, <3>1, <3>2, <3>3
        DEF IInv, FlagNoted, NoCancelIsIgnored, CancelledForAReason, Unsettled, entryVars
      <3> QED
        BY <1>7, <3>1, <3>4 DEF entryVars, Results
    <2>2. CASE k # 0
      <3>1. /\ entry' = [entry EXCEPT ![Caller] = k]
            /\ cancel_flag' = [cancel_flag EXCEPT ![k] = FALSE]
            /\ shared_token' = [shared_token EXCEPT ![k] = @ + 1]
            /\ cancel_seen' = [t \in Turns |->
                    IF t \in Pending(k) /\ cancel_seen[t] = "yes" THEN "erased" ELSE cancel_seen[t]]
            /\ result' = result
        BY <2>2 DEF HandleTurn
      <3>2. stage'[Caller] = "spawned" /\ \A t \in Turns \ {Caller} : stage'[t] = stage[t]
        BY <1>1, <1>2, <2>2 DEF IInv, TypeOK
      <3>3. /\ k \in Entries
            /\ entry'[Caller] = k /\ \A t \in Turns \ {Caller} : entry'[t] = entry[t]
        BY <1>2, <1>5, <1>7, <2>2, <3>1
      <3>4. /\ cancel_seen'[Caller] = cancel_seen[Caller] /\ cancel_seen[Caller] # "yes"
            /\ \A t \in Turns : cancel_seen'[t] # "ignored"
        BY <1>2, <3>1, <3>3 DEF Pending, IInv, FlagNoted, NoCancelIsIgnored
      <3>5. ASSUME NEW t \in Turns, entry'[t] # 0, result[t] = "none"
            PROVE  cancel_flag'[entry'[t]] <=> cancel_seen'[t] = "yes"
        <4>1. CASE t = Caller
          BY <1>7, <3>1, <3>3, <3>4, <4>1
        <4>2. CASE t # Caller /\ entry[t] = k
          BY <1>7, <3>1, <3>3, <3>5, <4>2 DEF Pending
        <4>3. CASE t # Caller /\ entry[t] # k
          <5>1. entry[t] \in Entries /\ entry'[t] = entry[t]
            BY <1>7, <3>3, <3>5, <4>3
          <5>2. cancel_flag[entry[t]] <=> cancel_seen[t] = "yes"
            BY <3>5, <5>1 DEF IInv, FlagNoted
          <5> QED
            BY <1>7, <3>1, <4>3, <5>1, <5>2 DEF Pending
        <4> QED
          BY <4>1, <4>2, <4>3
      <3>6. FlagNoted'
        <4>1. \A t \in Turns : entry'[t] = 0 => cancel_seen'[t] # "yes"
          BY <1>2, <2>2, <3>1, <3>3 DEF Pending, IInv, FlagNoted
        <4>2. \A t \in Turns : result[t] = "cancelled" => entry'[t] # 0
          BY <2>2, <3>3 DEF IInv, FlagNoted
        <4>3. \A t \in Turns : stage'[t] \in Unsettled => result[t] = "none"
          BY <1>7, <3>2 DEF IInv, FlagNoted
        <4> QED
          BY <3>1, <3>4, <3>5, <4>1, <4>2, <4>3 DEF FlagNoted, NoCancelIsIgnored
      <3>7. CancelledForAReason'
        <4>1. ASSUME NEW t \in Turns, result[t] = "cancelled"
              PROVE  cancel_seen'[t] = cancel_seen[t] /\ entry'[t] = entry[t]
          BY <1>7, <3>1, <3>3, <4>1 DEF Pending
        <4>2. cancelled' = cancelled
          BY <1>1
        <4> QED
          BY <3>1, <4>1, <4>2 DEF IInv, CancelledForAReason
      <3> QED
        BY <1>7, <3>1, <3>3, <3>6, <3>7
    <2> QED
      BY <2>1, <2>2
  <1>9. /\ s \in {"sent", "done", "spawned", "usage_known"} /\ s # "usage_known" /\ s # "sent"
        /\ k # 0 <=> s = "spawned"
    OBVIOUS
  <1> HIDE DEF s
  <1>10. target' \in [Clients -> Sessions \cup {NoTarget}]
    BY <1>1 DEF IInv, TypeOK
  <1>11. CallStep(Caller, s, k)
    BY <1>1, <1>2, <1>3, <1>4, <1>6, <1>7, <1>8, <1>9, <1>10 DEF CallStep
  <1> QED
    BY <1>2, <1>9, <1>11, CallSteps

-----------------------------------------------------------------------------
(* Sessions come and go *)

\* The number of live sessions is a number.
LEMMA LiveIsNat ==
  ASSUME NEW m, IsFiniteSet({r \in Sessions : m[r] # 0})
  PROVE  LiveCount(m) \in Nat
  BY FS_CardinalityType DEF LiveCount

\* A new entry for a session that is not in the map: it is first created, or comes
\* back after a close.
LEMMA BuildKeeps ==
  ASSUME IInv, NEW s \in Sessions, NEW f \in [n : Nat, compacted : BOOLEAN],
         NEW kept \in BOOLEAN, NEW c \in Creators \cup Resumers,
         BuildEntry(s, f, kept), sessions[s] = 0, target[c] = s, stage[c] = "sent",
         c \in Creators \/ s \in Issued, c \in Creators => f.n = 0,
         file' = file \/ file' = [file EXCEPT ![s] = EmptyFile],
         stage' = [stage EXCEPT ![c] = "done"], Queued', cmd_q' \in Seq(Commands),
         UNCHANGED <<target, entry, iteration, result, snapshot, cancel_seen>>
  PROVE  IInv'
  <1> USE ClientKinds
  <1> DEFINE b == built + 1
  <1>1. /\ built < MaxEntries /\ built' = b
        /\ sessions' = [sessions EXCEPT ![s] = b]
        /\ shared' = [shared EXCEPT ![s] = b]
        /\ active_count' = LiveCount(sessions')
        /\ messages' = [messages EXCEPT ![b] = f.n]
        /\ msg_count' = [msg_count EXCEPT ![b] = f.n]
        /\ compacted' = [compacted EXCEPT ![b] = f.compacted]
        /\ whole' = [whole EXCEPT ![b] = f.n]
        /\ persisted' = [persisted EXCEPT ![b] = kept]
        /\ SaveRecord(s)
        /\ UNCHANGED <<backend, lock, cancel_flag, shared_token, cancelled, step_index>>
    BY DEF BuildEntry
  <1>2. /\ built \in Nat /\ MaxEntries \in Nat /\ b \in Entries /\ b > built /\ b # 0
        /\ sessions \in [Sessions -> 0 .. MaxEntries]
        /\ messages \in [Entries -> Nat] /\ msg_count \in [Entries -> Nat]
        /\ compacted \in [Entries -> BOOLEAN] /\ whole \in [Entries -> Nat]
        /\ persisted \in [Entries -> BOOLEAN] /\ file \in [Sessions -> Files]
        /\ f.n \in Nat /\ f.compacted \in BOOLEAN
    <2>1. built \in 0 .. MaxEntries /\ MaxEntries \in Nat
      BY ManagerAssumption DEF IInv, TypeOK
    <2>2. built \in Nat /\ b \in Entries /\ b > built /\ b # 0
      BY <1>1, <2>1
    <2> QED
      BY <2>1, <2>2 DEF IInv, TypeOK, Files
  <1>3. /\ stage'[c] = "done" /\ c \in Clients /\ c \notin Turns /\ c \notin Closers
        /\ c \notin Cancellers
        /\ \A d \in Clients \ {c} : stage'[d] = stage[d]
    BY ManagerAssumption DEF IInv, TypeOK
  <1> HIDE DEF b
  <1>4. /\ sessions'[s] = b /\ \A r \in Sessions \ {s} : sessions'[r] = sessions[r]
        /\ messages'[b] = f.n /\ \A k \in Entries \ {b} : messages'[k] = messages[k]
        /\ msg_count'[b] = f.n /\ \A k \in Entries \ {b} : msg_count'[k] = msg_count[k]
        /\ whole'[b] = f.n /\ \A k \in Entries \ {b} : whole'[k] = whole[k]
        /\ \A k \in Entries \ {b} : persisted'[k] = persisted[k] /\ compacted'[k] = compacted[k]
        /\ \A r \in Sessions \ {s} : file'[r] = file[r]
        /\ file'[s] = file[s] \/ file'[s] = EmptyFile
    BY <1>1, <1>2
  <1>20. /\ meta' \subseteq Sessions /\ checkpoints' \subseteq Sessions \X Nat
         /\ unsaved' \subseteq Sessions \X Nat /\ Taken' = Taken
    BY <1>1, SaveRecordKeeps
  <1>5. \A r : NeverRemoved(r)' <=> NeverRemoved(r)
    BY <1>3 DEF NeverRemoved
  <1>6. Issued' = Issued \cup {s}
    <2>1. CASE c \in Creators
      BY <1>3, <2>1 DEF Issued
    <2>2. CASE c \notin Creators
      <3>1. \A d \in Creators : stage'[d] = stage[d]
        BY <1>3, <2>2
      <3>2. Issued' = Issued
        BY <3>1 DEF Issued
      <3> QED
        BY <2>2, <3>2
    <2> QED
      BY <2>1, <2>2
  <1>7. NeverRemoved(s) => s \notin Issued
    BY DEF IInv, Known
  <1>8. Counted'
    <2>1. {r \in Sessions : sessions'[r] # 0} = {r \in Sessions : sessions[r] # 0} \cup {s}
      BY <1>2, <1>4
    <2>2. IsFiniteSet({r \in Sessions : sessions'[r] # 0})
      <3>1. IsFiniteSet({r \in Sessions : sessions[r] # 0})
        BY DEF IInv, Counted
      <3>2. IsFiniteSet({r \in Sessions : sessions[r] # 0} \cup {s})
        BY <3>1, FS_AddElement, Zenon
      <3> QED
        BY <2>1, <3>2
    <2>3. \A r \in Sessions : sessions[r] <= built
      BY DEF IInv, Blank
    <2>4. \A r, q \in Sessions : sessions'[r] = sessions'[q] /\ sessions'[r] # 0 => r = q
      <3>1. \A r \in Sessions \ {s} : sessions'[r] # b
        BY <1>2, <1>4, <2>3
      <3>2. \A r, q \in Sessions : sessions[r] = sessions[q] /\ sessions[r] # 0 => r = q
        BY DEF IInv, Counted, MapsAgree
      <3> QED
        BY <1>4, <3>1, <3>2
    <2>5. shared' = sessions'
      BY <1>1 DEF IInv, Counted, MapsAgree
    <2> QED
      BY <1>1, <2>2, <2>4, <2>5 DEF Counted, MapsAgree, LiveCount
  <1>9. TypeOK'
    <2>1. stage' \in [Clients -> Stages]
      BY DEF IInv, TypeOK, Stages
    <2>2. sessions' \in [Sessions -> 0 .. MaxEntries] /\ shared' = sessions'
      <3>1. b \in 0 .. MaxEntries
        BY <1>2
      <3> QED
        BY <1>1, <1>2, <1>8, <3>1 DEF Counted, MapsAgree
    <2>3. built' \in 0 .. MaxEntries
      BY <1>1, <1>2
    <2>4. active_count' \in Nat
      BY <1>1, <1>8, LiveIsNat DEF Counted
    <2>5. /\ messages' \in [Entries -> Nat] /\ msg_count' \in [Entries -> Nat]
          /\ compacted' \in [Entries -> BOOLEAN] /\ whole' \in [Entries -> Nat]
          /\ persisted' \in [Entries -> BOOLEAN]
      BY <1>1, <1>2
    <2>6. file' \in [Sessions -> Files]
      <3>1. EmptyFile \in Files
        BY DEF Files, EmptyFile
      <3> QED
        BY <1>2, <3>1
    <2> QED
      BY <1>1, <1>20, <2>1, <2>2, <2>3, <2>4, <2>5, <2>6 DEF IInv, TypeOK, Commands, Files
  <1>10. Staged'
    BY <1>3, ManagerAssumption DEF IInv, Staged
  <1>11. Known'
    <2>1. Issued \subseteq Sessions
      BY IssuedSessions DEF IInv
    <2>2. \A d \in Clients \ Creators : stage'[d] # "idle" => target[d] \in Issued'
      BY <1>3, <1>6 DEF IInv, Known
    <2>3. \A r \in Sessions \ Issued' :
            sessions'[r] = 0 /\ file'[r] = NoFile /\ \A cp \in Taken : cp[1] # r
      BY <1>4, <1>6 DEF IInv, Known
    <2>4. \A r \in Issued' : NeverRemoved(r)' => sessions'[r] # 0
      BY <1>2, <1>4, <1>5, <1>6, <2>1 DEF IInv, Known
    <2> QED
      BY <1>20, <2>2, <2>3, <2>4 DEF IInv, Known
  <1>12. Blank'
    <2>1. \A r \in Sessions : sessions'[r] <= b
      <3>1. \A r \in Sessions : sessions[r] \in Nat /\ sessions[r] <= built
        BY <1>2 DEF IInv, Blank
      <3>2. b \in Nat /\ \A i \in Nat : i <= built => i <= b
        BY <1>2
      <3>3. sessions'[s] = b /\ \A r \in Sessions \ {s} : sessions'[r] = sessions[r]
        BY <1>4
      <3>4. b <= b
        BY <3>2
      <3> QED
        BY <3>1, <3>2, <3>3, <3>4
    <2>2. \A d \in Clients : entry[d] <= b
      <3>1. \A d \in Clients : entry[d] \in Nat /\ entry[d] <= built
        <4>1. entry \in [Clients -> 0 .. MaxEntries]
          BY DEF IInv, TypeOK
        <4> QED
          BY <4>1 DEF IInv, Blank
      <3>2. \A i \in Nat : i <= built => i <= b
        BY <1>2
      <3> QED
        BY <3>1, <3>2
    <2>3. \A k \in Entries : k > b => k > built /\ k # b
      BY <1>2
    <2> QED
      BY <1>1, <1>4, <2>1, <2>2, <2>3 DEF IInv, Blank
  <1>13. Owned'
    <2>1. \A d \in Clients : entry[d] # 0 => target[d] \in Sessions
      BY HasTarget DEF IInv, Holding
    <2>2. \A d \in Clients : entry[d] # b
      <3>1. \A d \in Clients : entry[d] \in Nat /\ entry[d] <= built
        <4>1. entry \in [Clients -> 0 .. MaxEntries]
          BY DEF IInv, TypeOK
        <4> QED
          BY <4>1 DEF IInv, Blank
      <3> QED
        BY <1>2, <3>1
    <2>3. \A d \in Clients, r \in Sessions :
            entry[d] = sessions'[r] /\ entry[d] # 0 => target[d] = r
      BY <1>4, <2>2 DEF IInv, Owned
    <2>4. ASSUME NEW d \in Clients, entry[d] # 0, NeverRemoved(target[d])
          PROVE  entry[d] = sessions'[target[d]]
      <3>1. entry[d] = sessions[target[d]]
        BY <2>4 DEF IInv, Owned
      <3>2. target[d] # s
        BY <2>4, <3>1
      <3> QED
        BY <1>4, <2>1, <2>4, <3>1, <3>2
    <2>5. \A d, e \in Clients : entry[d] = entry[e] /\ entry[d] # 0 => target[d] = target[e]
      BY DEF IInv, Owned
    <2> QED
      BY <1>5, <2>3, <2>4, <2>5 DEF Owned
  <1>14. Holding'
    BY <1>3 DEF IInv, Holding, Running
  <1>15. LockQueue'
    BY <1>1, <1>3, OutsiderMoves DEF Running
  <1>16. CountPublished'
    <2> SUFFICES ASSUME NEW k \in Entries,
                        \A t \in Turns : stage'[t] \in Running \ {"unlock"} => entry[t] # k
                 PROVE  msg_count'[k] = messages'[k]
      BY DEF CountPublished
    <2>1. CASE k = b
      BY <1>4, <2>1
    <2>2. CASE k # b
      <3>1. \A t \in Turns : stage[t] \in Running \ {"unlock"} => entry[t] # k
        BY <1>3
      <3> QED
        BY <1>4, <2>2, <3>1 DEF IInv, CountPublished
    <2> QED
      BY <2>1, <2>2
  <1>17. TranscriptOnDisk'
    <2> SUFFICES ASSUME NEW r \in Sessions, NeverRemoved(r), sessions'[r] # 0
                 PROVE  LET j == sessions'[r] IN
                          /\ persisted'[j] => \/ file'[r].n = whole'[j] \/ file'[r] = TornFile
                                              \/ file'[r] = NoFile /\ whole'[j] = 0
                          /\ messages'[j] <= whole'[j]
                          /\ messages'[j] # whole'[j] => compacted'[j]
      BY <1>5 DEF TranscriptOnDisk
    <2>1. CASE r = s
      <3>1. s \notin Issued
        BY <1>7, <2>1
      <3>2. f.n = 0 /\ file[s] = NoFile
        BY <3>1 DEF IInv, Known
      <3>3. file'[s] = NoFile \/ (file'[s] = EmptyFile /\ EmptyFile.n = 0)
        BY <1>4, <3>2 DEF EmptyFile
      <3> QED
        BY <1>4, <2>1, <3>2, <3>3
    <2>2. CASE r # s
      <3>1. sessions'[r] = sessions[r] /\ sessions[r] \in Entries /\ sessions[r] <= built
        BY <1>2, <1>4, <2>2 DEF IInv, Blank
      <3>2. sessions[r] # b
        BY <1>2, <3>1
      <3> QED
        BY <1>4, <2>2, <3>1, <3>2 DEF IInv, TranscriptOnDisk
    <2> QED
      BY <2>1, <2>2
  <1>18. FlagNoted' /\ CancelledForAReason' /\ Looping'
    <2>1. \A t \in Turns : stage'[t] = stage[t]
      BY <1>3
    <2> QED
      BY <1>1, <2>1 DEF IInv, FlagNoted, NoCancelIsIgnored, Unsettled, CancelledForAReason, Looping
  <1>19. OneCheckpointPerTurn'
    <2>1. \A k \in Entries : step_index'[k]
                             = Cardinality({u \in Turns : entry'[u] = k /\ stage'[u] \in Saved})
      <3>1. \A k \in Entries : {u \in Turns : entry[u] = k /\ stage[u] \in Saved}
                               = {u \in Turns : entry'[u] = k /\ stage'[u] \in Saved}
        BY <1>3
      <3> QED
        BY <1>1, <3>1 DEF IInv, OneCheckpointPerTurn, Saved
    <2>2. ASSUME NEW r \in Sessions, NeverRemoved(r), sessions'[r] # 0
          PROVE  {cp[2] : cp \in {x \in Taken : x[1] = r}}
                 = 0 .. step_index[sessions'[r]] - 1
      <3>1. CASE r = s
        <4>1. {x \in Taken : x[1] = r} = {}
          BY <1>7, <2>2, <3>1 DEF IInv, Known
        <4>2. step_index[b] = 0
          BY <1>2 DEF IInv, Blank
        <4> QED
          BY <1>4, <3>1, <4>1, <4>2
      <3>2. CASE r # s
        BY SMTT(40), <1>4, <2>2, <3>2 DEF IInv, OneCheckpointPerTurn
      <3> QED
        BY <3>1, <3>2
    <2> QED
      BY <1>1, <1>5, <1>20, <2>1, <2>2 DEF OneCheckpointPerTurn, Saved
  <1> QED
    BY <1>8, <1>9, <1>10, <1>11, <1>12, <1>13, <1>14, <1>15, <1>16, <1>17, <1>18, <1>19 DEF IInv

LEMMA HandleCreateKeeps ==
  ASSUME IInv, HandleCreate
  PROVE  IInv'
  <1> USE ClientKinds
  <1>1. /\ Command("create") /\ Dequeue
        /\ stage' = [stage EXCEPT ![Caller] = "done"]
        /\ UNCHANGED <<target, entry, iteration, result, snapshot, cancel_seen>>
    BY DEF HandleCreate, Goto
  <1>2. /\ Caller \in Creators /\ stage[Caller] = "sent"
        /\ target[Caller] = Called /\ Called \in Sessions
    BY <1>1, CallerWaits DEF Senders, Called
  <1>3. Queued' /\ cmd_q' \in Seq(Commands)
    <2>1. \A d \in Clients \ {Caller} : stage'[d] = stage[d]
      BY <1>1 DEF IInv, TypeOK
    <2> QED
      BY <1>1, <2>1, DequeueQueues DEF Command
  <1>4. sessions[Called] = 0
    <2>1. Called \notin Issued
      <3> SUFFICES ASSUME Called \in Issued
                   PROVE  FALSE
        OBVIOUS
      <3>1. PICK d \in Creators : stage[d] = "done" /\ target[d] = Called
        BY DEF Issued
      <3>2. d = Caller
        BY <1>2, <3>1, ManagerAssumption DEF IInv, Known
      <3> QED
        BY <1>2, <3>1, <3>2
    <2> QED
      BY <1>2, <2>1 DEF IInv, Known
  <1>5. PICK f \in [n : Nat, compacted : BOOLEAN] :
          /\ BuildEntry(Called, f, TRUE) \/ BuildEntry(Called, f, FALSE)
          /\ f.n = 0
          /\ file' = file \/ file' = [file EXCEPT ![Called] = EmptyFile]
    <2>1. EmptyFile \in [n : Nat, compacted : BOOLEAN] /\ EmptyFile.n = 0
      BY DEF EmptyFile
    <2> QED
      BY <2>1 DEF HandleCreate, Bootstrap
  <1>6. CASE BuildEntry(Called, f, TRUE)
    BY <1>1, <1>2, <1>3, <1>4, <1>5, <1>6, BuildKeeps
  <1>7. CASE BuildEntry(Called, f, FALSE)
    BY <1>1, <1>2, <1>3, <1>4, <1>5, <1>7, BuildKeeps
  <1> QED
    BY <1>5, <1>6, <1>7

LEMMA HandleResumeKeeps ==
  ASSUME IInv, HandleResume
  PROVE  IInv'
  <1> USE ClientKinds
  <1>1. /\ Command("resume") /\ Dequeue
        /\ stage' = [stage EXCEPT ![Caller] = "done"]
        /\ UNCHANGED <<target, entry, iteration, result, snapshot, cancel_seen>>
    BY DEF HandleResume, Goto
  <1>2. /\ Caller \in Resumers /\ stage[Caller] = "sent" /\ entry[Caller] = 0
        /\ target[Caller] = Called /\ Called \in Sessions
    BY <1>1, CallerWaits DEF Senders, Called
  <1>3. /\ Caller \notin Creators /\ Caller \notin Turns /\ Caller \notin Closers
        /\ Caller \notin Cancellers /\ Called \in Issued
    <2>1. /\ Caller \notin Creators /\ Caller \notin Turns /\ Caller \notin Closers
          /\ Caller \notin Cancellers
      BY <1>2, ManagerAssumption
    <2> QED
      BY <1>1, <2>1, CallerWaits
  <1>4. Queued' /\ cmd_q' \in Seq(Commands)
    <2>1. \A d \in Clients \ {Caller} : stage'[d] = stage[d]
      BY <1>1 DEF IInv, TypeOK
    <2> QED
      BY <1>1, <2>1, DequeueQueues DEF Command
  <1>5. CASE sessions[Called] # 0
    <2>1. UNCHANGED <<storeVars, entryVars, backendVars>>
      BY <1>5 DEF HandleResume
    <2>2. UNCHANGED <<lock, cancelled, memoryVars, step_index, cancel_flag, shared_token>>
      BY <2>1 DEF entryVars
    <2>3. /\ cancel_flag \in [Entries -> BOOLEAN] /\ shared_token \in [Entries -> Nat]
          /\ result \in [Turns -> Results] /\ cancel_seen \in [Turns -> {"no", "yes", "erased", "ignored"}]
          /\ target \in [Clients -> Sessions \cup {NoTarget}]
          /\ entry' = [entry EXCEPT ![Caller] = 0]
      BY <1>1, <1>2 DEF IInv, TypeOK
    <2>5. FlagNoted' /\ CancelledForAReason'
      <3>1. \A t \in Turns : stage'[t] = stage[t]
        BY <1>1, <1>3 DEF IInv, TypeOK
      <3> QED
        BY <1>1, <2>2, <3>1, FlagsKept
    <2>4. CallStep(Caller, "done", 0)
      BY <1>1, <1>2, <1>3, <1>4, <2>1, <2>2, <2>3, <2>5 DEF CallStep
    <2> QED
      BY <1>2, <2>4, CallSteps
  <1>6. CASE sessions[Called] = 0
    <2>1. PICK f \in [n : Nat, compacted : BOOLEAN] :
            /\ BuildEntry(Called, f, TRUE)
            /\ file' = file \/ file' = [file EXCEPT ![Called] = EmptyFile]
      <3>1. /\ EmptyFile \in [n : Nat, compacted : BOOLEAN]
            /\ file[Called].n >= 0 => file[Called] \in [n : Nat, compacted : BOOLEAN]
        BY <1>2 DEF IInv, TypeOK, EmptyFile
      <3> QED
        BY <1>6, <3>1 DEF HandleResume, Bootstrap
    <2> QED
      BY <1>1, <1>2, <1>3, <1>4, <1>6, <2>1, BuildKeeps
  <1> QED
    BY <1>5, <1>6

\* Remove takes the session from both maps, whatever the backend then deletes; its
\* entry lives on in the calls that hold it.
LEMMA HandleRemoveKeeps ==
  ASSUME IInv, HandleRemove
  PROVE  IInv'
  <1> USE ClientKinds
  <1>0. PICK s : s = Called
    OBVIOUS
  <1>1. /\ Command("remove") /\ Dequeue
        /\ sessions' = [sessions EXCEPT ![s] = 0]
        /\ shared' = [shared EXCEPT ![s] = 0]
        /\ active_count' = LiveCount(sessions')
        /\ DeleteRecord(s)
        /\ stage' = [stage EXCEPT ![Caller] = "removed"]
        /\ UNCHANGED <<built, entryVars, backend, file, unsaved, target, entry, iteration,
                       result, snapshot, cancel_seen>>
    BY <1>0 DEF HandleRemove, Goto
  <1>2. /\ Caller \in Closers /\ stage[Caller] = "sent" /\ entry[Caller] = 0
        /\ target[Caller] = s /\ s \in Sessions
    BY <1>0, <1>1, CallerWaits DEF Senders, Called
  <1>3. Queued' /\ cmd_q' \in Seq(Commands)
    <2>1. \A d \in Clients \ {Caller} : stage'[d] = stage[d]
      BY <1>1 DEF IInv, TypeOK
    <2> QED
      BY <1>1, <2>1, DequeueQueues DEF Command
  <1>4. PICK c \in Closers : c = Caller
    BY <1>2
  <1>5. /\ stage'[c] = "removed" /\ target[c] = s /\ entry[c] = 0
        /\ c \in Clients \ (Creators \cup Turns \cup Resumers \cup Cancellers)
        /\ \A d \in Clients \ {c} : stage'[d] = stage[d]
    BY <1>1, <1>2, <1>4, ManagerAssumption DEF IInv, TypeOK
  <1>6. /\ sessions'[s] = 0 /\ \A r \in Sessions \ {s} : sessions'[r] = sessions[r]
        /\ sessions \in [Sessions -> 0 .. MaxEntries]
    BY <1>1, <1>2 DEF IInv, TypeOK
  <1>7. ~NeverRemoved(s)' /\ \A r : NeverRemoved(r)' => NeverRemoved(r)
    <2>1. ~NeverRemoved(s)'
      BY <1>1, <1>5 DEF NeverRemoved
    <2>2. stage[c] = "sent" /\ UNCHANGED target
      BY <1>1, <1>2, <1>4
    <2>3. \A r : NeverRemoved(r)' => NeverRemoved(r)
      BY <1>5, <2>2 DEF NeverRemoved
    <2> QED
      BY <2>1, <2>3
  <1>21. /\ meta' \subseteq meta /\ Taken' \subseteq Taken /\ checkpoints' \subseteq checkpoints
         /\ \A cp \in Taken : cp[1] # s => cp \in Taken'
    BY <1>1 DEF DeleteRecord, Taken
  <1>8. Issued' = Issued
    BY <1>1, <1>5 DEF Issued
  <1>9. Counted'
    <2>1. {r \in Sessions : sessions'[r] # 0} \subseteq {r \in Sessions : sessions[r] # 0}
      BY <1>6
    <2>2. IsFiniteSet({r \in Sessions : sessions'[r] # 0})
      <3>1. IsFiniteSet({r \in Sessions : sessions[r] # 0})
        BY DEF IInv, Counted
      <3> QED
        BY <2>1, <3>1, FS_Subset, Zenon
    <2>3. shared' = sessions'
      BY <1>1 DEF IInv, Counted, MapsAgree
    <2>4. \A r, q \in Sessions : sessions'[r] = sessions'[q] /\ sessions'[r] # 0 => r = q
      BY <1>6 DEF IInv, Counted, MapsAgree
    <2> QED
      BY <1>1, <2>2, <2>3, <2>4 DEF Counted, MapsAgree, LiveCount
  <1>10. TypeOK'
    <2>1. stage' \in [Clients -> Stages]
      BY <1>1 DEF IInv, TypeOK, Stages
    <2>2. sessions' \in [Sessions -> 0 .. MaxEntries] /\ shared' = sessions'
      <3>1. 0 \in 0 .. MaxEntries
        BY ManagerAssumption
      <3> QED
        BY <1>1, <1>6, <1>9, <3>1 DEF Counted, MapsAgree
    <2>3. active_count' \in Nat
      BY <1>1, <1>9, LiveIsNat DEF Counted
    <2>4. meta' \subseteq Sessions /\ checkpoints' \subseteq Sessions \X Nat
      BY <1>21 DEF IInv, TypeOK
    <2> QED
      BY <1>1, <1>3, <2>1, <2>2, <2>3, <2>4 DEF IInv, TypeOK, entryVars, Commands
  <1>11. Staged'
    BY <1>1, <1>2, <1>5, ManagerAssumption DEF IInv, Staged
  <1>12. Known'
    <2>1. Issued \subseteq Sessions
      BY IssuedSessions DEF IInv
    <2>2. \A d \in Clients \ Creators : stage'[d] # "idle" => target[d] \in Issued
      BY <1>2, <1>4, <1>5 DEF IInv, Known
    <2>3. \A r \in Sessions \ Issued :
            sessions'[r] = 0 /\ file[r] = NoFile /\ \A cp \in Taken' : cp[1] # r
      BY <1>6, <1>21 DEF IInv, Known
    <2>4. \A r \in Issued : NeverRemoved(r)' => sessions'[r] # 0
      BY <1>6, <1>7, <2>1 DEF IInv, Known
    <2> QED
      BY <1>1, <1>8, <2>2, <2>3, <2>4 DEF IInv, Known
  <1>13. Blank'
    <2>1. built \in Nat /\ \A r \in Sessions : sessions[r] <= built
      BY DEF IInv, Blank, TypeOK
    <2>2. \A r \in Sessions : sessions'[r] <= built
      BY <1>6, <2>1
    <2> QED
      BY <1>1, <2>2 DEF IInv, Blank, entryVars
  <1>14. Owned'
    <2>1. \A d \in Clients : entry[d] # 0 => target[d] \in Sessions
      BY HasTarget DEF IInv, Holding
    <2>2. \A d \in Clients, r \in Sessions :
            entry[d] = sessions'[r] /\ entry[d] # 0 => target[d] = r
      BY <1>6 DEF IInv, Owned
    <2>3. ASSUME NEW d \in Clients, entry[d] # 0, NeverRemoved(target[d])'
          PROVE  entry[d] = sessions'[target[d]]
      <3>0. PICK r : r = target[d] /\ r = target'[d]
        BY <1>1
      <3>1. target[d] # s
        BY <1>7, <2>3, <3>0 DEF NeverRemoved
      <3>2. NeverRemoved(target[d])
        BY <1>7, <2>3, <3>0 DEF NeverRemoved
      <3>3. entry[d] = sessions[target[d]]
        BY <2>3, <3>2 DEF IInv, Owned
      <3> QED
        BY <1>6, <2>1, <2>3, <3>1, <3>3
    <2>4. \A d, e \in Clients : entry[d] = entry[e] /\ entry[d] # 0 => target[d] = target[e]
      BY DEF IInv, Owned
    <2>5. \A d \in Clients : entry[d] # 0 /\ NeverRemoved(target[d])' => entry[d] = sessions'[target[d]]
      BY <2>3
    <2> QED
      BY <1>1, <2>2, <2>4, <2>5 DEF Owned, NeverRemoved
  <1>15. Holding'
    BY <1>1, <1>5 DEF IInv, Holding, Running
  <1>16. LockQueue'
    BY <1>1, <1>2, <1>4, <1>5, OutsiderMoves DEF Running, entryVars
  <1>17. /\ CountPublished'
         /\ \A k \in Entries :
              step_index'[k] = Cardinality({u \in Turns : entry'[u] = k /\ stage'[u] \in Saved})
    BY <1>1, <1>5, CountsKeep DEF entryVars
  <1>18. TranscriptOnDisk'
    BY <1>1, <1>6, <1>7 DEF IInv, TranscriptOnDisk, entryVars
  <1>19. FlagNoted' /\ CancelledForAReason' /\ Looping'
    <2>1. \A t \in Turns : stage'[t] = stage[t]
      BY <1>5
    <2> QED
      BY <1>1, <2>1 DEF IInv, FlagNoted, NoCancelIsIgnored, Unsettled, CancelledForAReason, Looping, entryVars
  <1>20. OneCheckpointPerTurn'
    <2>1. ASSUME NEW r \in Sessions, NeverRemoved(r)', sessions'[r] # 0
          PROVE  {cp[2] : cp \in {x \in Taken' : x[1] = r}}
                 = 0 .. step_index[sessions'[r]] - 1
      <3>1. r # s /\ NeverRemoved(r) /\ sessions'[r] = sessions[r]
        BY <1>6, <1>7, <2>1
      <3>2. {x \in Taken' : x[1] = r} = {x \in Taken : x[1] = r}
        BY <1>21, <3>1
      <3>3. {cp[2] : cp \in {x \in Taken : x[1] = r}} = 0 .. step_index[sessions[r]] - 1
        BY <2>1, <3>1 DEF IInv, OneCheckpointPerTurn
      <3> QED
        BY <3>1, <3>2, <3>3
    <2> QED
      BY <1>1, <1>17, <2>1 DEF OneCheckpointPerTurn, Saved, entryVars
  <1> QED
    BY <1>3, <1>9, <1>10, <1>11, <1>12, <1>13, <1>14, <1>15, <1>16, <1>17, <1>18, <1>19, <1>20
    DEF IInv

-----------------------------------------------------------------------------
(* The theorem *)

LEMMA InitHolds ==
  ASSUME Init
  PROVE  IInv
  <1> USE ClientKinds, ManagerAssumption
  <1>1. TypeOK
    <2>1. cmd_q \in Seq(Commands)
      BY DEF Init
    <2>2. /\ 0 \in 0 .. MaxEntries /\ 0 \in 0 .. MaxIterations + 1
          /\ NoFile \in Files
      BY DEF NoFile, Files
    <2>3. <<>> \in Seq(Clients)
      OBVIOUS
    <2> QED
      BY <2>1, <2>2, <2>3 DEF Init, TypeOK, Stages, Results, Commands, Files
  <1>2. Issued = {}
    BY DEF Init, Issued
  <1>3. Staged
    BY DEF Init, Staged
  <1>4. Queued
    BY DEF Init, Queued
  <1>5. Known
    BY <1>2 DEF Init, Known, Taken
  <1>6. Blank
    BY DEF Init, Blank
  <1>7. Owned
    BY DEF Init, Owned
  <1>8. Holding
    BY DEF Init, Holding, Running
  <1>9. LockQueue
    BY DEF Init, LockQueue, Running
  <1>10. CountPublished
    BY DEF Init, CountPublished
  <1>11. Counted
    <2>1. {s \in Sessions : sessions[s] # 0} = {}
      BY DEF Init
    <2>2. LiveCount(sessions) = 0
      BY <2>1, FS_EmptySet DEF LiveCount
    <2>3. IsFiniteSet({s \in Sessions : sessions[s] # 0})
      BY <2>1, FS_EmptySet
    <2> QED
      BY <2>2, <2>3 DEF Init, Counted, MapsAgree
  <1>12. TranscriptOnDisk
    BY DEF Init, TranscriptOnDisk
  <1>13. FlagNoted /\ CancelledForAReason
    BY DEF Init, FlagNoted, NoCancelIsIgnored, Unsettled, CancelledForAReason, Running
  <1>14. OneCheckpointPerTurn
    <2>1. \A k \in Entries : {t \in Turns : entry[t] = k /\ stage[t] \in Saved} = {}
      BY DEF Init, Saved
    <2>2. \A k \in Entries :
            step_index[k] = Cardinality({t \in Turns : entry[t] = k /\ stage[t] \in Saved})
      BY <2>1, FS_EmptySet DEF Init
    <2> QED
      BY <2>2 DEF Init, OneCheckpointPerTurn, Saved
  <1>15. Looping
    BY DEF Init, Looping
  <1> QED
    BY <1>1, <1>3, <1>4, <1>5, <1>6, <1>7, <1>8, <1>9, <1>10, <1>11, <1>12, <1>13, <1>14, <1>15
    DEF IInv

LEMMA WorkerKeeps ==
  ASSUME IInv, NEW t \in Turns, Worker(t) \/ ProxyAnswered(t) \/ ProxyTimedOut(t)
  PROVE  IInv'
  <1>1. CASE LockRequest(t)
    BY <1>1, LockRequestKeeps
  <1>2. CASE TurnBegin(t)
    BY <1>2, TurnBeginKeeps
  <1>3. CASE TurnCheck(t)
    BY <1>3, TurnCheckKeeps
  <1>4. CASE TurnFails(t)
    BY <1>4, TurnFailsKeeps
  <1>5. CASE TurnAnswered(t)
    BY <1>5, TurnAnsweredKeeps
  <1>6. CASE ToolReturns(t)
    BY <1>6, ToolReturnsKeeps
  <1>7. CASE ProxyDispatch(t)
    BY <1>7, ProxyDispatchKeeps
  <1>8. CASE ProxyCancelled(t) \/ ProxyAnswered(t) \/ ProxyTimedOut(t)
    BY <1>8, ProxyReturnKeeps DEF ProxyCancelled, ProxyAnswered, ProxyTimedOut
  <1>9. CASE SaveCheckpoint(t)
    BY <1>9, SaveCheckpointKeeps
  <1>10. CASE LoadMeta(t)
    BY <1>10, LoadMetaKeeps
  <1>11. CASE SaveMeta(t)
    BY <1>11, SaveMetaKeeps
  <1>12. CASE PublishCount(t)
    BY <1>12, PublishCountKeeps
  <1>13. CASE Unlock(t)
    BY <1>13, UnlockKeeps
  <1> QED
    BY <1>1, <1>2, <1>3, <1>4, <1>5, <1>6, <1>7, <1>8, <1>9, <1>10, <1>11, <1>12, <1>13
    DEF Worker

LEMMA NextKeeps ==
  ASSUME IInv, Next
  PROVE  IInv'
  <1>1. CASE ClientStep
    <2>1. ASSUME NEW c \in Creators, SendCreate(c)
          PROVE  IInv'
      BY <2>1, SendCreateKeeps
    <2>2. ASSUME NEW c \in Turns, SendCall(c, "turn")
          PROVE  IInv'
      <3>1. c \in Senders("turn")
        BY DEF Senders
      <3> QED
        BY <2>2, <3>1, SendCallKeeps
    <2>3. ASSUME NEW c \in Resumers, SendCall(c, "resume")
          PROVE  IInv'
      <3>1. c \in Senders("resume")
        BY DEF Senders
      <3> QED
        BY <2>3, <3>1, SendCallKeeps
    <2>4. ASSUME NEW c \in Closers \cup Cancellers, CancelLookup(c)
          PROVE  IInv'
      BY <2>4, CancelLookupKeeps
    <2> QED
      BY <1>1, <2>1, <2>2, <2>3, <2>4 DEF ClientStep
  <1>2. CASE Actor
    BY <1>2, HandleCreateKeeps, HandleResumeKeeps, HandleTurnKeeps, HandleUsageKeeps,
       HandleRemoveKeeps DEF Actor
  <1>3. ASSUME NEW c \in Closers \cup Cancellers, CancelStep(c)
        PROVE  IInv'
    BY <1>3, CancelFlagKeeps, CancelTokenKeeps DEF CancelStep
  <1>4. ASSUME NEW c \in Closers, CloseStep(c)
        PROVE  IInv'
    BY <1>4, SendUsageKeeps, SendRemoveKeeps, DeleteFileKeeps DEF CloseStep
  <1>5. ASSUME NEW c \in Closers, Reader(c)
        PROVE  IInv'
    BY <1>5, LockRequestKeeps, ReadUsageKeeps DEF Reader
  <1>6. ASSUME NEW t \in Turns, Worker(t) \/ ProxyAnswered(t) \/ ProxyTimedOut(t)
        PROVE  IInv'
    BY <1>6, WorkerKeeps
  <1> QED
    BY <1>1, <1>2, <1>3, <1>4, <1>5, <1>6 DEF Next

LEMMA StutterKeeps ==
  ASSUME IInv, UNCHANGED vars
  PROVE  IInv'
  <1> USE DEF vars, storeVars, entryVars, backendVars, Taken, clientVars
  <1>1. /\ cmd_q' = cmd_q /\ sessions' = sessions /\ shared' = shared /\ built' = built
        /\ active_count' = active_count /\ lock' = lock /\ cancel_flag' = cancel_flag
        /\ shared_token' = shared_token /\ cancelled' = cancelled /\ messages' = messages
        /\ msg_count' = msg_count /\ step_index' = step_index /\ file' = file /\ meta' = meta
        /\ checkpoints' = checkpoints /\ stage' = stage /\ target' = target /\ entry' = entry
        /\ iteration' = iteration /\ result' = result /\ snapshot' = snapshot
        /\ cancel_seen' = cancel_seen /\ persisted' = persisted /\ compacted' = compacted
        /\ whole' = whole /\ backend' = backend /\ unsaved' = unsaved
    OBVIOUS
  <1>2. Issued' = Issued /\ Taken' = Taken /\ \A r : NeverRemoved(r)' <=> NeverRemoved(r)
    BY <1>1 DEF Issued, Taken, NeverRemoved
  <1>2a. TypeOK'
    BY <1>1 DEF IInv, TypeOK
  <1>2b. Staged' /\ Blank' /\ Holding'
    BY <1>1 DEF IInv, Staged, Blank, Holding
  <1>2c. Queued'
    BY <1>1 DEF IInv, Queued
  <1>2d. LockQueue'
    BY <1>1 DEF IInv, LockQueue, Holder
  <1>3. TypeOK' /\ Staged' /\ Queued' /\ Blank' /\ Holding' /\ LockQueue'
    BY <1>2a, <1>2b, <1>2c, <1>2d
  <1>4. Known'
    BY <1>1, <1>2 DEF IInv, Known
  <1>5. Owned'
    BY <1>1 DEF IInv, Owned, NeverRemoved
  <1>6. TranscriptOnDisk' /\ OneCheckpointPerTurn'
    BY <1>1, <1>2 DEF IInv, TranscriptOnDisk, OneCheckpointPerTurn
  <1>7. CountPublished' /\ Counted' /\ FlagNoted' /\ CancelledForAReason' /\ Looping'
    BY <1>1 DEF IInv, CountPublished, Counted, MapsAgree, LiveCount, FlagNoted, NoCancelIsIgnored,
       CancelledForAReason, Looping
  <1> QED
    BY <1>3, <1>4, <1>5, <1>6, <1>7 DEF IInv

\* The inductive invariant holds in every state of every behaviour.
THEOREM Inductive == Spec => []IInv
  <1>1. Init => IInv
    BY InitHolds
  <1>2. IInv /\ [Next]_vars => IInv'
    BY NextKeeps, StutterKeeps
  <1> QED
    BY <1>1, <1>2, PTL DEF Spec

\* The session kernel keeps its books, for any number of sessions and of calls:
\* turns of one entry are serial, the published message count is stale only while a
\* turn runs, the actor's map, the cancel path's map and the counter agree, the file
\* of a session that was never closed holds every message it acknowledged, compacted
\* or not, unless a failed append has torn it, a turn is cancelled only for a reason
\* and goes on after a cancel only if a later message erased it, and every finished
\* turn took one step index.
THEOREM KernelKeepsItsBooks == Spec => []SessionManagerSound
  <1>1. IInv => SessionManagerSound
    <2> SUFFICES ASSUME IInv
                 PROVE  SessionManagerSound
      OBVIOUS
    <2>1. TurnsAreSerial
      BY OneRuns DEF IInv, TurnsAreSerial
    <2>2. PublishedCountIsCurrent
      BY DEF IInv, CountPublished, PublishedCountIsCurrent
    <2> QED
      BY <2>1, <2>2 DEF IInv, Counted, FlagNoted, SessionManagerSound
  <1> QED
    BY <1>1, Inductive, PTL
=============================================================================
