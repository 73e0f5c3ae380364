---------------------------- MODULE AdaptersProofs ----------------------------
(***************************************************************************)
(* Proofs about what stands between the program and its surroundings.  The  *)
(* components share no state, so an inductive invariant of one of them is   *)
(* one of PartSpec.                                                        *)
(***************************************************************************)
EXTENDS MCAdapters, SequenceTheorems, FiniteSetTheorems, TLAPS

-----------------------------------------------------------------------------
(* Sequences and their elements *)
LEMMA ToSetIs ==
  ASSUME NEW S, NEW s \in Seq(S)
  PROVE  /\ ToSet(s) \subseteq S
         /\ \A x : x \in ToSet(s) <=> \E i \in 1 .. Len(s) : s[i] = x
BY DEF ToSet

LEMMA ToSetAppend ==
  ASSUME NEW S, NEW s \in Seq(S), NEW e \in S
  PROVE  ToSet(Append(s, e)) = ToSet(s) \cup {e}
<1> DEFINE t == Append(s, e)
<1>1. /\ t \in Seq(S) /\ Len(t) = Len(s) + 1 /\ t[Len(s) + 1] = e /\ Len(s) \in Nat
      /\ \A i \in 1 .. Len(s) : t[i] = s[i]
  OBVIOUS
<1> HIDE DEF t
<1>2. ASSUME NEW x \in ToSet(t) PROVE x \in ToSet(s) \cup {e}
  <2>1. PICK i \in 1 .. Len(t) : t[i] = x
    BY <1>1, <1>2, ToSetIs
  <2>2. CASE i = Len(s) + 1
    BY <1>1, <2>1, <2>2
  <2>3. CASE i # Len(s) + 1
    <3>1. i \in 1 .. Len(s)
      BY <1>1, <2>3
    <3> QED
      BY <1>1, <2>1, <3>1, ToSetIs
  <2> QED
    BY <2>2, <2>3
<1>3. ASSUME NEW x \in ToSet(s) PROVE x \in ToSet(t)
  <2>1. PICK i \in 1 .. Len(s) : s[i] = x
    BY <1>3, ToSetIs
  <2>2. i \in 1 .. Len(t) /\ t[i] = x
    BY <1>1, <2>1
  <2> QED
    BY <1>1, <2>2, ToSetIs
<1>4. e \in ToSet(t)
  <2>1. Len(s) + 1 \in 1 .. Len(t)
    BY <1>1
  <2> QED
    BY <1>1, <2>1, ToSetIs
<1> QED
  BY <1>2, <1>3, <1>4 DEF t

\* What Append adds Front takes away.
LEMMA FrontLast ==
  ASSUME NEW S, NEW s \in Seq(S), NEW e \in S
  PROVE  /\ Front(Append(s, e)) = s /\ Last(Append(s, e)) = e
         /\ s # <<>> => /\ Front(s) \in Seq(S) /\ Last(s) \in S
                        /\ Append(Front(s), Last(s)) = s
                        /\ ToSet(s) = ToSet(Front(s)) \cup {Last(s)}
<1>1. Front(Append(s, e)) = s /\ Last(Append(s, e)) = e
  BY DEF Front, Last
<1>2. ASSUME s # <<>>
      PROVE  Front(s) \in Seq(S) /\ Last(s) \in S /\ Append(Front(s), Last(s)) = s
  BY <1>2 DEF Front, Last
<1>3. ASSUME s # <<>> PROVE ToSet(s) = ToSet(Front(s)) \cup {Last(s)}
  <2>1. Front(s) \in Seq(S) /\ Last(s) \in S /\ Append(Front(s), Last(s)) = s
    BY <1>2, <1>3
  <2>2. ToSet(Append(Front(s), Last(s))) = ToSet(Front(s)) \cup {Last(s)}
    <3>1. \A f \in Seq(S), l \in S : ToSet(Append(f, l)) = ToSet(f) \cup {l}
      BY ToSetAppend
    <3> QED
      BY <2>1, <3>1, Zenon
  <2> QED
    BY <2>1, <2>2
<1> QED
  BY <1>1, <1>2, <1>3

LEMMA ToSetEmpty == ToSet(<<>>) = {}
BY DEF ToSet

-----------------------------------------------------------------------------
(* The session file *)

Words == Numbers \cup {Bad}

FileSet == [exists : BOOLEAN, lines : Seq(Words), open : Words \cup {None}]

\* push_message is at work on the message it has put in memory.
Snapshotting == pc \in {"rotate", "write", "rename", "cleanup"}
Pushing == pc \in {"record", "newline"} \/ (Snapshotting /\ saver = "append")

FileTypes ==
  /\ pc \in {"down", "idle", "record", "newline", "rotate", "write", "rename", "cleanup"}
  /\ saver \in {"append", "resume", "persist"}
  /\ messages \in Seq(Numbers)
  /\ main \in FileSet /\ (~main.exists => main = NoFile)
  /\ rotated \in Seq({f \in FileSet : f.exists})
  /\ made \in 0 .. MaxMessages
  /\ faults \in 0 .. MaxFaults
  /\ cut \in BOOLEAN
  /\ kept \subseteq 1 .. made

\* The message being pushed is the last one made, and nobody was told that it is kept.
PushedIsNew ==
  /\ Pushing => messages # <<>> /\ Last(messages) = made /\ made \notin kept
  /\ pc = "newline" /\ main.exists => main.open \in {made, Bad}

\* A file no append was cut short in, at every step of an operation.
Intact ==
  main.exists /\ ~cut =>
    /\ Bad \notin ToSet(main.lines)
    /\ pc = "newline" => main.open = Last(messages)
    /\ pc # "newline" => main.open = None
    /\ pc \in {"record", "newline"} => main.lines = Front(messages)
    /\ pc \in {"idle", "rotate", "write", "rename", "cleanup"} => main.lines = messages

\* What a snapshot replaces: nothing (append), a file that cannot be read (resume).
Replaces ==
  /\ pc \in {"rotate", "write", "rename"} /\ saver = "append" => ~main.exists
  /\ pc \in {"rotate", "write", "rename"} /\ saver = "resume" => ~Readable(main)
  /\ pc = "cleanup" /\ main.exists => ~cut
  /\ pc = "cleanup" /\ ~main.exists /\ saver = "append" => made \in excused

\* Acknowledged messages are on disk, and those of the session file in memory.
Covers(f, m) == m \in ToSet(Text(f)) \/ Bad \in ToSet(Text(f))
OnDisk == \A m \in kept \ excused : \E f \in Files : Covers(f, m)
InMemory ==
  pc # "down" /\ Readable(main) => ToSet(Text(main)) \cap (kept \ excused) \subseteq ToSet(messages)

Bounded ==
  Len(rotated) <= MAX_ROTATED_FILES + faults
                    + (IF pc \in {"write", "rename", "cleanup"} THEN 1 ELSE 0)

FileIInv ==
  FileTypes /\ PushedIsNew /\ Intact /\ Replaces /\ OnDisk /\ InMemory /\ Bounded

LEMMA Constants ==
  /\ MaxMessages \in Nat /\ MaxFaults \in Nat /\ MAX_ROTATED_FILES \in Nat
  /\ Bad \notin Numbers /\ None \notin Words /\ Bad \in Words /\ Numbers \subseteq Words
  /\ \A n \in 0 .. MaxMessages : n < MaxMessages => n + 1 \in Numbers
BY FileAssumption DEF Bad, None, Numbers, Words

\* What can be read in a file.
LEMMA FileText ==
  ASSUME NEW f \in FileSet
  PROVE  /\ Text(f) \in Seq(Words)
         /\ ToSet(Text(f)) = ToSet(f.lines) \cup (IF f.open = None THEN {} ELSE {f.open})
         /\ Readable(f) <=> f.exists /\ Bad \notin ToSet(f.lines) /\ f.open # Bad
         /\ f.open = None => Text(f) = f.lines
<1>1. f.lines \in Seq(Words) /\ f.open \in Words \cup {None}
  BY DEF FileSet
<1>2. CASE f.open = None
  BY <1>1, <1>2, Constants DEF Text, Readable
<1>3. CASE f.open # None
  <2>1. Text(f) = Append(f.lines, f.open) /\ f.open \in Words
    BY <1>1, <1>3 DEF Text
  <2>2. ToSet(Append(f.lines, f.open)) = ToSet(f.lines) \cup {f.open}
    BY <1>1, <2>1, ToSetAppend
  <2> QED
    BY <1>1, <1>3, <2>1, <2>2 DEF Readable
<1> QED
  BY <1>2, <1>3

LEMMA NoFileText ==
  NoFile \in FileSet /\ ~NoFile.exists /\ ToSet(Text(NoFile)) = {}
<1>1. NoFile \in FileSet /\ NoFile.lines = <<>> /\ NoFile.open = None /\ ~NoFile.exists
  BY DEF NoFile, FileSet
<1> QED
  BY <1>1, FileText, ToSetEmpty

\* Only the session file changes, and what it says of the acknowledged messages stays.
LEMMA MainOnly ==
  ASSUME OnDisk, rotated' = rotated,
         \A m \in kept' \ excused' :
           \/ Covers(main', m)
           \/ m \in kept \ excused /\ ~Covers(main, m)
  PROVE  OnDisk'
<1> SUFFICES ASSUME NEW m \in kept' \ excused'
             PROVE  \E f \in {main'} \cup ToSet(rotated) : Covers(f, m)
  BY DEF OnDisk, Files, Covers
<1>1. CASE Covers(main', m)
  BY <1>1
<1>2. CASE m \in kept \ excused /\ ~Covers(main, m)
  <2>1. PICK f \in {main} \cup ToSet(rotated) : Covers(f, m)
    BY <1>2 DEF OnDisk, Files
  <2>2. f # main
    BY <1>2, <2>1
  <2> QED
    BY <2>1, <2>2
<1> QED
  BY <1>1, <1>2

LEMMA SameMain ==
  ASSUME OnDisk, rotated' = rotated, main' = main, kept' \ excused' \subseteq kept \ excused
  PROVE  OnDisk'
<1>1. \A m : Covers(main', m) <=> Covers(main, m)
  OBVIOUS
<1> QED
  BY <1>1, MainOnly

LEMMA FileFacts ==
  ASSUME FileIInv
  PROVE  /\ messages \in Seq(Numbers) /\ main \in FileSet /\ main.lines \in Seq(Words)
         /\ main.open \in Words \cup {None} /\ (~main.exists => main = NoFile)
         /\ made \in 0 .. MaxMessages /\ faults \in 0 .. MaxFaults /\ cut \in BOOLEAN
         /\ kept \subseteq 1 .. made /\ Len(rotated) \in Nat
         /\ saver \in {"append", "resume", "persist"}
         /\ rotated \in Seq({f \in FileSet : f.exists})
         /\ pc \in {"down", "idle", "record", "newline", "rotate", "write", "rename", "cleanup"}
BY DEF FileIInv, FileTypes, FileSet

\* The file of a quiet program is the transcript, if no append was cut short.
LEMMA PushMessageStep ==
  ASSUME FileIInv, PushMessage PROVE FileIInv'
<1>1. /\ pc = "idle" /\ made < MaxMessages /\ made' = made + 1
      /\ messages' = Append(messages, made + 1)
      /\ UNCHANGED <<main, rotated, faults, cut, kept, excused>>
      /\ \/ main.exists /\ pc' = "record" /\ saver' = saver
         \/ ~main.exists /\ pc' = "rotate" /\ saver' = "append"
  BY DEF PushMessage
<1>2. /\ made + 1 \in Numbers /\ made' \in 0 .. MaxMessages /\ messages' \in Seq(Numbers)
      /\ messages' # <<>> /\ Front(messages') = messages /\ Last(messages') = made + 1
      /\ ToSet(messages') = ToSet(messages) \cup {made + 1}
  <2>1. made + 1 \in Numbers /\ made' \in 0 .. MaxMessages
    BY <1>1, FileFacts, Constants DEF Numbers
  <2>2. messages \in Seq(Numbers)
    BY FileFacts
  <2>3. /\ Append(messages, made + 1) \in Seq(Numbers) /\ Append(messages, made + 1) # <<>>
    BY <2>1, <2>2
  <2>4. /\ Front(Append(messages, made + 1)) = messages
        /\ Last(Append(messages, made + 1)) = made + 1
    BY <2>1, <2>2, FrontLast
  <2>5. ToSet(Append(messages, made + 1)) = ToSet(messages) \cup {made + 1}
    BY <2>1, <2>2, ToSetAppend
  <2> QED
    BY <1>1, <2>1, <2>3, <2>4, <2>5
<1>3. FileTypes'
  <2>1. kept' \subseteq 1 .. made'
    BY <1>1, FileFacts
  <2> QED
    BY <1>1, <1>2, <2>1 DEF FileIInv, FileTypes
<1>4. PushedIsNew'
  BY <1>1, <1>2, FileFacts DEF PushedIsNew
<1>5. Intact'
  BY <1>1, <1>2 DEF FileIInv, Intact
<1>6. Replaces'
  BY <1>1 DEF Replaces
<1>7. OnDisk'
  BY <1>1, SameMain DEF FileIInv
<1>8. InMemory'
  BY <1>1, <1>2 DEF FileIInv, InMemory, Readable
<1>9. Bounded'
  BY <1>1 DEF FileIInv, Bounded
<1> QED
  BY <1>3, <1>4, <1>5, <1>6, <1>7, <1>8, <1>9 DEF FileIInv

LEMMA WriteRecordStep ==
  ASSUME FileIInv, WriteRecord PROVE FileIInv'
<1>1. /\ pc = "record" /\ main.exists /\ pc' = "newline"
      /\ main' = [main EXCEPT !.open = IF main.open = None THEN Last(messages) ELSE Bad]
      /\ UNCHANGED <<saver, messages, rotated, made, faults, cut, kept, excused>>
  BY DEF WriteRecord
<1>2. messages # <<>> /\ Last(messages) = made /\ made \notin kept /\ made \in Numbers
      /\ made \in ToSet(messages)
  <2>1. messages # <<>> /\ Last(messages) = made /\ made \notin kept
    BY <1>1 DEF FileIInv, PushedIsNew, Pushing
  <2> QED
    BY <2>1, FileFacts, FrontLast, Constants
<1>3. /\ main' \in FileSet /\ main'.exists /\ main'.lines = main.lines
      /\ main'.open = IF main.open = None THEN made ELSE Bad
  BY <1>1, <1>2, FileFacts, Constants DEF FileSet
<1>4. FileTypes'
  BY <1>1, <1>3 DEF FileIInv, FileTypes
<1>5. PushedIsNew' /\ Replaces' /\ Bounded'
  <2>1. PushedIsNew'
    BY <1>1, <1>2, <1>3 DEF PushedIsNew
  <2>2. Replaces'
    BY <1>1 DEF Replaces
  <2>3. Bounded'
    BY <1>1 DEF FileIInv, Bounded
  <2> QED
    BY <2>1, <2>2, <2>3
<1>6. Intact'
  BY <1>1, <1>2, <1>3 DEF FileIInv, Intact
<1>7. /\ ToSet(Text(main)) = ToSet(main.lines) \cup (IF main.open = None THEN {} ELSE {main.open})
      /\ ToSet(Text(main')) = ToSet(main.lines) \cup {main'.open}
      /\ Readable(main) <=> Bad \notin ToSet(main.lines) /\ main.open # Bad
      /\ Readable(main') <=> Bad \notin ToSet(main.lines) /\ main'.open # Bad
  <2>1. main'.open # None
    BY <1>2, <1>3, FileFacts, Constants
  <2> QED
    BY <1>1, <1>3, <2>1, FileFacts, FileText
<1>8. OnDisk'
  <2>1. \A m : Covers(main, m) => Covers(main', m)
    BY <1>3, <1>7 DEF Covers
  <2> QED
    BY <1>1, <2>1, MainOnly DEF FileIInv
<1>9. InMemory'
  BY <1>1, <1>2, <1>3, <1>7, Constants DEF FileIInv, InMemory
<1> QED
  BY <1>4, <1>5, <1>6, <1>8, <1>9 DEF FileIInv

LEMMA WriteNewlineStep ==
  ASSUME FileIInv, WriteNewline PROVE FileIInv'
<1>1. /\ pc = "newline" /\ main.exists /\ pc' = "idle"
      /\ main' = File(Append(main.lines, main.open), None)
      /\ kept' = kept \cup {Last(messages)}
      /\ UNCHANGED <<saver, messages, rotated, made, faults, cut, excused>>
  BY DEF WriteNewline, Acknowledge
<1>2. messages # <<>> /\ Last(messages) = made /\ made \in Numbers /\ made \in ToSet(messages)
  <2>1. messages # <<>> /\ Last(messages) = made
    BY <1>1 DEF FileIInv, PushedIsNew, Pushing
  <2> QED
    BY <2>1, FileFacts, FrontLast
<1>3. main.open \in Words
  BY <1>1, <1>2, Constants DEF FileIInv, PushedIsNew
<1>4. /\ main' \in FileSet /\ main'.exists /\ main'.open = None
      /\ main'.lines = Append(main.lines, main.open)
      /\ ToSet(main'.lines) = ToSet(main.lines) \cup {main.open}
  BY <1>1, <1>3, FileFacts, ToSetAppend DEF File, FileSet
<1>5. FileTypes'
  <2>1. kept' \subseteq 1 .. made'
    BY <1>1, <1>2, FileFacts DEF Numbers
  <2> QED
    BY <1>1, <1>4, <2>1 DEF FileIInv, FileTypes
<1>6. PushedIsNew' /\ Replaces' /\ Bounded'
  BY <1>1 DEF FileIInv, PushedIsNew, Pushing, Snapshotting, Replaces, Bounded
<1>7. Intact'
  <2> SUFFICES ASSUME ~cut PROVE Bad \notin ToSet(main'.lines) /\ main'.lines = messages
    BY <1>1, <1>4 DEF Intact
  <2>1. Bad \notin ToSet(main.lines) /\ main.open = Last(messages) /\ main.lines = Front(messages)
    BY <1>1 DEF FileIInv, Intact
  <2>2. Append(Front(messages), Last(messages)) = messages
    BY <1>2, FileFacts, FrontLast
  <2> QED
    BY <1>2, <1>4, <2>1, <2>2, Constants
<1>8. /\ ToSet(Text(main)) = ToSet(main.lines) \cup {main.open}
      /\ ToSet(Text(main')) = ToSet(main.lines) \cup {main.open}
      /\ Readable(main') <=> Readable(main)
  <2>1. main.open # None
    BY <1>3, Constants
  <2> QED
    BY <1>1, <1>4, <2>1, FileFacts, FileText DEF Readable
<1>9. OnDisk'
  <2>1. \A m : Covers(main, m) => Covers(main', m)
    BY <1>8 DEF Covers
  <2>2. Covers(main', made)
    <3>1. main.open \in {made, Bad}
      BY <1>1 DEF FileIInv, PushedIsNew
    <3> QED
      BY <1>8, <3>1 DEF Covers
  <2> QED
    BY <1>1, <1>2, <2>1, <2>2, MainOnly DEF FileIInv
<1>10. InMemory'
  BY <1>1, <1>2, <1>8 DEF FileIInv, InMemory
<1> QED
  BY <1>5, <1>6, <1>7, <1>9, <1>10 DEF FileIInv

\* A message that is taken back from memory was never acknowledged.
LEMMA TakenBack ==
  ASSUME FileIInv, Pushing
  PROVE  /\ Front(messages) \in Seq(Numbers) /\ made \in Numbers
         /\ ToSet(messages) = ToSet(Front(messages)) \cup {made} /\ made \notin kept
         /\ Last(messages) = made /\ messages # <<>>
<1>1. messages # <<>> /\ Last(messages) = made /\ made \notin kept
  BY DEF FileIInv, PushedIsNew
<1> QED
  <2>1. messages \in Seq(Numbers) /\ messages # <<>>
    BY <1>1, FileFacts
  <2>2. /\ Front(messages) \in Seq(Numbers) /\ Last(messages) \in Numbers
        /\ ToSet(messages) = ToSet(Front(messages)) \cup {Last(messages)}
    BY <2>1, FrontLast
  <2> QED
    BY <1>1, <2>2

LEMMA WriteToNoFileStep ==
  ASSUME FileIInv, WriteToNoFile PROVE FileIInv'
<1>1. /\ pc \in {"record", "newline"} /\ ~main.exists /\ pc' = "idle"
      /\ UNCHANGED <<saver, main, rotated, made, faults, cut>>
      /\ \/ /\ kept' = kept \cup {Last(messages)} /\ excused' = excused \cup {Last(messages)}
            /\ messages' = messages
         \/ messages' = Front(messages) /\ kept' = kept /\ excused' = excused
  BY DEF WriteToNoFile, Acknowledge
<1>2. /\ Front(messages) \in Seq(Numbers) /\ made \in Numbers /\ Last(messages) = made
  BY <1>1, TakenBack DEF Pushing
<1>3. FileTypes'
  <2>1. messages' \in Seq(Numbers)
    BY <1>1, <1>2, FileFacts
  <2>2. kept' \subseteq 1 .. made'
    BY <1>1, <1>2, FileFacts DEF Numbers
  <2> QED
    BY <1>1, <2>1, <2>2 DEF FileIInv, FileTypes
<1>4. PushedIsNew' /\ Intact' /\ Replaces'
  BY <1>1 DEF PushedIsNew, Pushing, Snapshotting, Intact, Replaces
<1>5. OnDisk'
  BY <1>1, SameMain DEF FileIInv
<1>6. InMemory' /\ Bounded'
  BY <1>1 DEF FileIInv, InMemory, Readable, Bounded
<1> QED
  BY <1>3, <1>4, <1>5, <1>6 DEF FileIInv

LEMMA WriteFailsStep ==
  ASSUME FileIInv, WriteFails PROVE FileIInv'
<1>1. /\ pc \in {"record", "newline"} /\ main.exists /\ pc' = "idle"
      /\ faults' = faults + 1 /\ faults < MaxFaults /\ messages' = Front(messages)
      /\ \/ main' = main
         \/ pc = "record" /\ main' = [main EXCEPT !.open = Bad]
      /\ cut' = (cut \/ main' # main \/ pc = "newline")
      /\ UNCHANGED <<saver, rotated, made, kept, excused>>
  BY DEF WriteFails
<1>2. /\ Front(messages) \in Seq(Numbers) /\ made \notin kept
      /\ ToSet(messages) = ToSet(Front(messages)) \cup {made}
  BY <1>1, TakenBack DEF Pushing
<1>3. /\ main' \in FileSet /\ main'.exists /\ main'.lines = main.lines
      /\ main'.open \in {main.open, Bad} /\ (main' # main => main'.open = Bad)
  BY <1>1, FileFacts, Constants DEF FileSet
<1>4. FileTypes'
  <2>1. faults' \in 0 .. MaxFaults /\ cut' \in BOOLEAN
    BY <1>1, FileFacts, Constants
  <2> QED
    BY <1>1, <1>2, <1>3, <2>1 DEF FileIInv, FileTypes
<1>5. PushedIsNew' /\ Replaces'
  BY <1>1 DEF PushedIsNew, Pushing, Snapshotting, Replaces
<1>6. Intact'
  <2> SUFFICES ASSUME ~cut'
               PROVE  /\ Bad \notin ToSet(main'.lines) /\ main'.open = None
                      /\ main'.lines = messages'
    BY <1>1 DEF Intact
  <2>1. ~cut /\ main' = main /\ pc = "record"
    BY <1>1
  <2> QED
    BY <1>1, <2>1 DEF FileIInv, Intact
<1>7. OnDisk'
  <2>1. \A m : Covers(main, m) => Covers(main', m)
    BY <1>3, FileFacts, FileText, Constants DEF Covers
  <2> QED
    BY <1>1, <2>1, MainOnly DEF FileIInv
<1>8. InMemory'
  <2>1. Readable(main') => main' = main
    BY <1>3, FileText
  <2> QED
    BY <1>1, <1>2, <2>1 DEF FileIInv, InMemory
<1>9. Bounded'
  BY <1>1, FileFacts, Constants DEF FileIInv, Bounded
<1> QED
  BY <1>4, <1>5, <1>6, <1>7, <1>8, <1>9 DEF FileIInv

LEMMA PersistSessionStep ==
  ASSUME FileIInv, PersistSession PROVE FileIInv'
<1>1. /\ pc = "idle" /\ pc' = "rotate" /\ saver' = "persist"
      /\ UNCHANGED <<messages, main, rotated, made, faults, cut, kept, excused>>
  BY DEF PersistSession
<1>2. FileTypes'
  BY <1>1 DEF FileIInv, FileTypes
<1>3. PushedIsNew' /\ Replaces'
  BY <1>1 DEF PushedIsNew, Pushing, Snapshotting, Replaces
<1>4. Intact'
  BY <1>1 DEF FileIInv, Intact
<1>5. OnDisk'
  BY <1>1, SameMain DEF FileIInv
<1>6. InMemory' /\ Bounded'
  BY <1>1 DEF FileIInv, InMemory, Bounded
<1> QED
  BY <1>2, <1>3, <1>4, <1>5, <1>6 DEF FileIInv

LEMMA WriteTempStep ==
  ASSUME FileIInv, WriteTemp PROVE FileIInv'
<1>1. /\ pc = "write" /\ pc' = "rename"
      /\ UNCHANGED <<saver, messages, main, rotated, made, faults, cut, kept, excused>>
  BY DEF WriteTemp
<1>2. FileTypes'
  BY <1>1 DEF FileIInv, FileTypes
<1>3. PushedIsNew' /\ Replaces'
  BY <1>1 DEF FileIInv, PushedIsNew, Pushing, Snapshotting, Replaces
<1>4. Intact'
  BY <1>1 DEF FileIInv, Intact
<1>5. OnDisk'
  BY <1>1, SameMain DEF FileIInv
<1>6. InMemory' /\ Bounded'
  BY <1>1 DEF FileIInv, InMemory, Bounded
<1> QED
  BY <1>2, <1>3, <1>4, <1>5, <1>6 DEF FileIInv

LEMMA RotateStep ==
  ASSUME FileIInv, Rotate PROVE FileIInv'
<1>1. /\ pc = "rotate" /\ pc' = "write"
      /\ UNCHANGED <<saver, messages, made, faults, kept, excused>>
  BY DEF Rotate
<1>2. PushedIsNew'
  BY <1>1 DEF FileIInv, PushedIsNew, Pushing, Snapshotting
<1>3. CASE UNCHANGED <<rotated, main, cut>>
  <2>1. FileTypes' /\ Intact'
    BY <1>1, <1>3 DEF FileIInv, FileTypes, Intact
  <2>2. OnDisk'
    BY <1>1, <1>3, SameMain DEF FileIInv
  <2>3. Replaces'
    BY <1>1, <1>3 DEF FileIInv, Replaces
  <2>4. InMemory'
    BY <1>1, <1>3 DEF FileIInv, InMemory
  <2>5. Bounded'
    BY <1>1, <1>3, FileFacts, Constants DEF FileIInv, Bounded
  <2> QED
    BY <1>2, <2>1, <2>2, <2>3, <2>4, <2>5 DEF FileIInv
<1>4. CASE main.exists /\ rotated' = Append(rotated, main) /\ main' = NoFile /\ cut' = FALSE
  <2>1. /\ main \in {f \in FileSet : f.exists} /\ rotated' \in Seq({f \in FileSet : f.exists})
        /\ Len(rotated') = Len(rotated) + 1
    BY <1>4, FileFacts
  <2>2. ToSet(rotated') = ToSet(rotated) \cup {main}
    BY <1>4, <2>1, FileFacts, ToSetAppend
  <2>3. FileTypes'
    BY <1>1, <1>4, <2>1, NoFileText DEF FileIInv, FileTypes
  <2>4. Intact' /\ InMemory' /\ Replaces'
    BY <1>1, <1>4, NoFileText DEF Intact, InMemory, Readable, Replaces
  <2>5. Bounded'
    BY <1>1, <2>1, FileFacts, Constants DEF FileIInv, Bounded
  <2>6. OnDisk'
    <3> SUFFICES ASSUME NEW m \in kept \ excused
                 PROVE  \E f \in {main'} \cup ToSet(rotated') : Covers(f, m)
      BY <1>1 DEF OnDisk, Files, Covers
    <3>1. PICK f \in {main} \cup ToSet(rotated) : Covers(f, m)
      BY DEF FileIInv, OnDisk, Files
    <3> QED
      BY <2>2, <3>1
  <2> QED
    BY <1>2, <2>3, <2>4, <2>5, <2>6 DEF FileIInv
<1> QED
  BY <1>3, <1>4 DEF Rotate

\* What of an acknowledged message a file tells is in its contents.
LEMMA ContentsCover ==
  ASSUME NEW f, NEW m \in kept, Covers(f, m) PROVE m \in Contents(f)
BY DEF Covers, Contents

LEMMA RenameTempStep ==
  ASSUME FileIInv, RenameTemp PROVE FileIInv'
<1>1. /\ pc = "rename" /\ pc' = "cleanup" /\ main' = File(messages, None) /\ cut' = FALSE
      /\ excused' = IF Readable(main) THEN excused ELSE excused \cup Contents(main)
      /\ UNCHANGED <<saver, messages, rotated, made, faults, kept>>
  BY DEF RenameTemp
<1>2. messages \in Seq(Words) /\ messages \in Seq(Numbers) /\ Bad \notin ToSet(messages)
  <2>1. messages \in Seq(Numbers)
    BY FileFacts
  <2>2. ToSet(messages) \subseteq Numbers
    BY <2>1, ToSetIs
  <2>3. messages \in Seq(Words)
    BY <2>1, Constants
  <2> QED
    BY <2>1, <2>2, <2>3, Constants
<1>3. /\ main' \in FileSet /\ main'.exists /\ main'.lines = messages /\ main'.open = None
  BY <1>1, <1>2 DEF File, FileSet
<1>4. ToSet(Text(main')) = ToSet(messages)
  BY <1>3, FileText
<1>5. FileTypes'
  BY <1>1, <1>3 DEF FileIInv, FileTypes
<1>6. PushedIsNew'
  BY <1>1 DEF FileIInv, PushedIsNew, Pushing, Snapshotting
<1>7. Intact' /\ Replaces'
  BY <1>1, <1>2, <1>3 DEF Intact, Replaces
<1>8. OnDisk'
  <2> SUFFICES ASSUME NEW m \in kept, m \notin excused', Covers(main, m)
               PROVE  Covers(main', m)
    BY <1>1, MainOnly DEF FileIInv
  <2>1. m \notin excused /\ Readable(main)
    BY <1>1, ContentsCover
  <2>2. m \in ToSet(Text(main))
    BY <2>1 DEF Covers, Readable
  <2>3. m \in ToSet(messages)
    BY <1>1, <2>1, <2>2 DEF FileIInv, InMemory
  <2> QED
    BY <1>4, <2>3 DEF Covers
<1>9. InMemory'
  BY <1>1, <1>4 DEF InMemory
<1>10. Bounded'
  BY <1>1 DEF FileIInv, Bounded
<1> QED
  BY <1>5, <1>6, <1>7, <1>8, <1>9, <1>10 DEF FileIInv

LEMMA Dropped ==
  ASSUME NEW S, NEW s \in Seq(S), NEW o \in 0 .. Len(s)
  PROVE  /\ SubSeq(s, o + 1, Len(s)) \in Seq(S)
         /\ Len(SubSeq(s, o + 1, Len(s))) = Len(s) - o
         /\ \A i \in 1 .. Len(s) : i <= o \/ s[i] \in ToSet(SubSeq(s, o + 1, Len(s)))
<1> DEFINE t == SubSeq(s, o + 1, Len(s))
<1>1. \A i \in o + 1 .. Len(s) : s[i] \in S
  <2>1. \A i \in o + 1 .. Len(s) : i \in 1 .. Len(s)
    OBVIOUS
  <2> QED
    BY <2>1, ElementOfSeq
<1>2. /\ t \in Seq(S) /\ Len(t) = IF o + 1 <= Len(s) THEN Len(s) - (o + 1) + 1 ELSE 0
      /\ \A i \in 1 .. Len(s) - (o + 1) + 1 : t[i] = s[o + 1 + i - 1]
  <2>1. o + 1 \in Int /\ Len(s) \in Int
    OBVIOUS
  <2> QED
    BY <1>1, <2>1, SubSeqProperties
<1> HIDE DEF t
<1>3. Len(t) = Len(s) - o
  BY <1>2
<1>4. ASSUME NEW i \in 1 .. Len(s), ~(i <= o) PROVE s[i] \in ToSet(t)
  <2>1. i - o \in 1 .. Len(t) /\ i - o \in 1 .. Len(s) - (o + 1) + 1 /\ o + 1 + (i - o) - 1 = i
    BY <1>3, <1>4
  <2>2. t[i - o] = s[i]
    BY <1>2, <2>1
  <2> QED
    BY <1>2, <2>1, <2>2, ToSetIs
<1> QED
  BY <1>2, <1>3, <1>4 DEF t

LEMMA CleanupStep ==
  ASSUME FileIInv, Cleanup PROVE FileIInv'
<1> DEFINE over == IF Len(rotated) > MAX_ROTATED_FILES THEN Len(rotated) - MAX_ROTATED_FILES
                   ELSE 0
<1>1. /\ pc = "cleanup" /\ pc' = "idle"
      /\ rotated' = SubSeq(rotated, over + 1, Len(rotated))
      /\ excused' = excused \cup UNION {Contents(rotated[i]) : i \in 1 .. over}
      /\ kept' = IF saver = "append" THEN kept \cup {Last(messages)} ELSE kept
      /\ UNCHANGED <<saver, messages, main, made, faults, cut>>
  BY DEF Cleanup
<1>2. over \in 0 .. Len(rotated) /\ Len(rotated) - over <= MAX_ROTATED_FILES
  BY FileFacts, Constants
<1> HIDE DEF over
<1>3. /\ rotated' \in Seq({f \in FileSet : f.exists}) /\ Len(rotated') = Len(rotated) - over
      /\ \A i \in 1 .. Len(rotated) : i <= over \/ rotated[i] \in ToSet(rotated')
  BY <1>1, <1>2, FileFacts, Dropped
<1>4. saver = "append" => /\ Last(messages) = made /\ made \in Numbers
                          /\ made \in ToSet(messages)
  BY <1>1, TakenBack DEF Pushing, Snapshotting
<1>5. main.exists => Text(main) = messages
  BY <1>1, FileFacts, FileText DEF FileIInv, Intact, Replaces
<1>6. FileTypes'
  <2>1. kept' \subseteq 1 .. made'
    BY <1>1, <1>4, FileFacts DEF Numbers
  <2> QED
    BY <1>1, <1>3, <2>1 DEF FileIInv, FileTypes
<1>7. PushedIsNew' /\ Replaces'
  BY <1>1 DEF PushedIsNew, Pushing, Snapshotting, Replaces
<1>8. Intact'
  BY <1>1 DEF FileIInv, Intact
<1>9. OnDisk'
  <2> SUFFICES ASSUME NEW m \in kept', m \notin excused'
               PROVE  \E f \in {main} \cup ToSet(rotated') : Covers(f, m)
    BY <1>1 DEF OnDisk, Files, Covers
  <2>1. CASE m \in kept
    <3>1. PICK f \in {main} \cup ToSet(rotated) : Covers(f, m)
      BY <1>1, <2>1 DEF FileIInv, OnDisk, Files
    <3>2. CASE f = main
      BY <3>1, <3>2
    <3>3. CASE f # main
      <4>1. PICK i \in 1 .. Len(rotated) : rotated[i] = f
        BY <3>1, <3>3, FileFacts, ToSetIs
      <4>2. i <= over => m \in Contents(rotated[i])
        BY <2>1, <3>1, <4>1, ContentsCover
      <4>3. i <= over => i \in 1 .. over
        BY <1>2, <4>1
      <4>4. ~(i <= over)
        BY <1>1, <4>2, <4>3
      <4> QED
        BY <1>3, <3>1, <4>1, <4>4
    <3> QED
      BY <3>2, <3>3
  <2>2. CASE m \notin kept
    <3>1. m = made /\ made \in ToSet(messages) /\ saver = "append"
      BY <1>1, <1>4, <2>2
    <3>2. main.exists
      BY <1>1, <3>1 DEF FileIInv, Replaces
    <3> QED
      BY <1>5, <3>1, <3>2 DEF Covers
  <2> QED
    BY <2>1, <2>2
<1>10. InMemory'
  BY <1>1, <1>5 DEF InMemory, Readable
<1>11. Bounded'
  BY <1>1, <1>2, <1>3, FileFacts, Constants DEF Bounded
<1> QED
  BY <1>6, <1>7, <1>8, <1>9, <1>10, <1>11 DEF FileIInv

LEMMA SaveFailsStep ==
  ASSUME FileIInv, SaveFails PROVE FileIInv'
<1>1. /\ pc \in {"rotate", "write", "rename", "cleanup"} /\ pc' = "idle"
      /\ faults < MaxFaults /\ faults' = faults + 1
      /\ \/ saver = "append" /\ messages' = Front(messages) /\ cut' = (cut \/ pc = "cleanup")
         \/ saver # "append" /\ messages' = messages /\ cut' = cut
      /\ UNCHANGED <<saver, main, rotated, made, kept, excused>>
  BY DEF SaveFails
<1>2. saver = "append" => /\ Front(messages) \in Seq(Numbers) /\ made \notin kept
                          /\ ToSet(messages) = ToSet(Front(messages)) \cup {made}
  BY <1>1, TakenBack DEF Pushing, Snapshotting
<1>3. FileTypes'
  <2>1. faults \in 0 .. MaxFaults /\ cut \in BOOLEAN /\ messages \in Seq(Numbers)
    BY FileFacts
  <2>2. faults' \in 0 .. MaxFaults /\ messages' \in Seq(Numbers)
    BY <1>1, <1>2, <2>1, Constants
  <2>3. cut' \in BOOLEAN
    BY <1>1, <2>1
  <2> QED
    BY <1>1, <2>2, <2>3 DEF FileIInv, FileTypes
<1>4. PushedIsNew' /\ Replaces'
  BY <1>1 DEF PushedIsNew, Pushing, Snapshotting, Replaces
<1>5. Intact'
  <2> SUFFICES ASSUME main.exists, ~cut'
               PROVE  /\ Bad \notin ToSet(main.lines) /\ main.open = None
                      /\ main.lines = messages'
    BY <1>1 DEF Intact
  <2>1. saver # "append" /\ messages' = messages /\ ~cut
    <3>1. CASE pc = "cleanup"
      BY <1>1, <3>1 DEF FileIInv, Replaces
    <3>2. CASE pc # "cleanup"
      BY <1>1, <3>2 DEF FileIInv, Replaces
    <3> QED
      BY <3>1, <3>2
  <2>2. Intact
    BY DEF FileIInv
  <2> QED
    BY <1>1, <2>1, <2>2 DEF Intact
<1>6. OnDisk'
  BY <1>1, SameMain DEF FileIInv
<1>7. InMemory'
  BY <1>1, <1>2 DEF FileIInv, InMemory
<1>8. Bounded'
  BY <1>1, FileFacts, Constants DEF FileIInv, Bounded
<1> QED
  BY <1>3, <1>4, <1>5, <1>6, <1>7, <1>8 DEF FileIInv

LEMMA CrashStep ==
  ASSUME FileIInv, Crash \/ CrashInRecord PROVE FileIInv'
<1>1. /\ faults < MaxFaults /\ faults' = faults + 1 /\ pc' = "down" /\ messages' = <<>>
      /\ UNCHANGED <<saver, rotated, made, kept, excused>>
      /\ \/ main' = main /\ cut' = (cut \/ pc = "newline")
         \/ main' = [main EXCEPT !.open = Bad] /\ cut' = TRUE /\ main.exists
  BY DEF Crash, CrashInRecord
<1>2. /\ main' \in FileSet /\ main'.exists = main.exists /\ main'.lines = main.lines
      /\ main'.open \in {main.open, Bad} /\ (main' # main => main.exists)
  BY <1>1, FileFacts, Constants DEF FileSet
<1>3. FileTypes'
  <2>1. faults \in 0 .. MaxFaults /\ cut \in BOOLEAN
    BY FileFacts
  <2>2. faults' \in 0 .. MaxFaults
    BY <1>1, <2>1, Constants
  <2>3. cut' \in BOOLEAN
    BY <1>1, <2>1
  <2>4. messages' \in Seq(Numbers)
    BY <1>1
  <2> QED
    BY <1>1, <1>2, <2>2, <2>3, <2>4 DEF FileIInv, FileTypes
<1>4. PushedIsNew' /\ Replaces' /\ InMemory'
  BY <1>1 DEF PushedIsNew, Pushing, Snapshotting, Replaces, InMemory
<1>5. Intact'
  BY <1>1 DEF FileIInv, Intact
<1>6. OnDisk'
  <2>1. \A m : Covers(main, m) => Covers(main', m)
    BY <1>1, <1>2, FileFacts, FileText, Constants DEF Covers
  <2> QED
    BY <1>1, <2>1, MainOnly DEF FileIInv
<1>7. Bounded'
  BY <1>1, FileFacts, Constants DEF FileIInv, Bounded
<1> QED
  BY <1>3, <1>4, <1>5, <1>6, <1>7 DEF FileIInv

LEMMA ResumeStep ==
  ASSUME FileIInv, Resume PROVE FileIInv'
<1>1. /\ pc = "down" /\ UNCHANGED <<main, rotated, made, faults, cut, kept, excused>>
      /\ \/ Readable(main) /\ pc' = "idle" /\ messages' = Text(main) /\ saver' = saver
         \/ ~Readable(main) /\ pc' = "rotate" /\ messages' = <<>> /\ saver' = "resume"
  BY DEF Resume
<1>2. Readable(main) => Text(main) \in Seq(Numbers)
  <2> SUFFICES ASSUME Readable(main) PROVE Text(main) \in Seq(Numbers)
    OBVIOUS
  <2>1. Text(main) \in Seq(Words) /\ Bad \notin ToSet(Text(main))
    BY FileFacts, FileText DEF Readable
  <2>2. ASSUME NEW i \in 1 .. Len(Text(main)) PROVE Text(main)[i] \in Numbers
    BY <2>1, ToSetIs DEF Words
  <2> HIDE DEF FileIInv
  <2> QED
    BY <2>1, <2>2
<1>3. FileTypes'
  <2>1. messages' \in Seq(Numbers)
    <3>1. CASE Readable(main)
      <4>1. messages' = Text(main)
        BY <1>1, <3>1
      <4> QED
        BY <1>2, <3>1, <4>1
    <3>2. CASE ~Readable(main)
      <4>1. messages' = <<>>
        BY <1>1, <3>2
      <4> QED
        BY <4>1
    <3> QED
      BY <3>1, <3>2
  <2>2. FileTypes
    BY DEF FileIInv
  <2>3. pc' \in {"idle", "rotate"}
    BY <1>1
  <2>4. saver' \in {"append", "resume", "persist"}
    BY <1>1, <2>2 DEF FileTypes
  <2>5. UNCHANGED <<main, rotated, made, faults, cut, kept>>
    BY <1>1
  <2> QED
    BY <2>1, <2>2, <2>3, <2>4, <2>5 DEF FileTypes
<1>4. PushedIsNew' /\ Replaces' /\ InMemory'
  BY <1>1 DEF PushedIsNew, Pushing, Snapshotting, Replaces, InMemory
<1>5. Intact'
  <2> SUFFICES ASSUME main.exists, ~cut
               PROVE  /\ Bad \notin ToSet(main.lines) /\ main.open = None
                      /\ main.lines = messages'
    BY <1>1 DEF Intact
  <2>1. Bad \notin ToSet(main.lines) /\ main.open = None
    BY <1>1 DEF FileIInv, Intact
  <2>2. Readable(main) /\ Text(main) = main.lines
    BY <2>1, FileFacts, FileText, Constants
  <2> QED
    BY <1>1, <2>1, <2>2
<1>6. OnDisk'
  BY <1>1, SameMain DEF FileIInv
<1>7. Bounded'
  BY <1>1 DEF FileIInv, Bounded
<1> QED
  BY <1>3, <1>4, <1>5, <1>6, <1>7 DEF FileIInv

LEMMA DeleteFileStep ==
  ASSUME FileIInv, DeleteFile PROVE FileIInv'
<1>1. /\ main.exists /\ main' = NoFile /\ cut' = FALSE /\ excused' = excused \cup Contents(main)
      /\ UNCHANGED <<pc, saver, messages, rotated, made, faults, kept>>
  BY DEF DeleteFile
<1>2. FileTypes'
  BY <1>1, NoFileText DEF FileIInv, FileTypes
<1>3. Intact' /\ InMemory'
  BY <1>1, NoFileText DEF Intact, InMemory, Readable
<1>4. PushedIsNew'
  BY <1>1, NoFileText DEF FileIInv, PushedIsNew, Pushing, Snapshotting
<1>5. Replaces'
  <2>1. ASSUME pc = "cleanup", saver = "append" PROVE made \in excused'
    <3>1. Text(main) = messages
      BY <1>1, <2>1, FileFacts, FileText DEF FileIInv, Intact, Replaces
    <3>2. made \in ToSet(messages) /\ ToSet(messages) \subseteq Numbers
      BY <2>1, TakenBack, FileFacts, ToSetIs DEF Pushing, Snapshotting
    <3> QED
      BY <1>1, <3>1, <3>2, Constants DEF Contents
  <2> QED
    BY <1>1, <2>1, NoFileText DEF Replaces, Readable
<1>6. OnDisk'
  <2>1. \A m \in kept' \ excused' : m \in kept \ excused /\ ~Covers(main, m)
    BY <1>1, ContentsCover
  <2> QED
    BY <1>1, <2>1, MainOnly DEF FileIInv
<1>7. Bounded'
  BY <1>1 DEF FileIInv, Bounded
<1> QED
  BY <1>2, <1>3, <1>4, <1>5, <1>6, <1>7 DEF FileIInv

LEMMA FileStart == Init => FileIInv
<1> SUFFICES ASSUME Init PROVE FileIInv
  OBVIOUS
<1>1. /\ pc = "idle" /\ saver = "append" /\ messages = <<>> /\ main = NoFile
      /\ rotated = <<>> /\ made = 0 /\ faults = 0 /\ cut = FALSE /\ kept = {}
  BY DEF Init
<1>2. NoFile \in FileSet /\ ~NoFile.exists
  BY NoFileText
<1>3. FileTypes
  <2>1. messages \in Seq(Numbers) /\ rotated \in Seq({f \in FileSet : f.exists})
    BY <1>1
  <2>2. made \in 0 .. MaxMessages /\ faults \in 0 .. MaxFaults
    BY <1>1, Constants
  <2>3. main \in FileSet /\ ~main.exists /\ kept \subseteq 1 .. made
    BY <1>1, <1>2
  <2> QED
    BY <1>1, <2>1, <2>2, <2>3 DEF FileTypes
<1>4. PushedIsNew /\ Intact /\ Replaces /\ OnDisk /\ InMemory
  BY <1>1, <1>2
     DEF PushedIsNew, Pushing, Snapshotting, Intact, Replaces, OnDisk, InMemory, Readable
<1>5. Bounded
  BY <1>1, Constants DEF Bounded
<1> QED
  BY <1>3, <1>4, <1>5 DEF FileIInv

LEMMA FileNext ==
  ASSUME FileIInv, Next \/ UNCHANGED vars PROVE FileIInv'
<1>1. CASE UNCHANGED vars
  <2>1. UNCHANGED <<pc, saver, messages, main, rotated, made, faults, cut, kept, excused>>
    BY <1>1 DEF vars
  <2>2. FileTypes' /\ PushedIsNew' /\ Intact'
    BY <2>1 DEF FileIInv, FileTypes, PushedIsNew, Pushing, Snapshotting, Intact
  <2>3. Replaces' /\ InMemory' /\ Bounded'
    BY <2>1 DEF FileIInv, Replaces, Readable, InMemory, Bounded
  <2>4. OnDisk'
    BY <2>1, SameMain DEF FileIInv
  <2> QED
    BY <2>2, <2>3, <2>4 DEF FileIInv
<1> QED
  BY <1>1, PushMessageStep, WriteRecordStep, WriteNewlineStep, WriteToNoFileStep, WriteFailsStep,
     PersistSessionStep, WriteTempStep, RotateStep, RenameTempStep, CleanupStep, SaveFailsStep,
     CrashStep, ResumeStep, DeleteFileStep, Zenon DEF Next

LEMMA FileIsSound ==
  ASSUME FileIInv PROVE SessionFileSound
<1>1. TypeOK
  <2>1. ASSUME NEW f \in FileSet
        PROVE  ToSet(f.lines) \subseteq Numbers \cup {Bad} /\ f.open \in Numbers \cup {Bad, None}
    <3>1. f.lines \in Seq(Words) /\ f.open \in Words \cup {None}
      BY DEF FileSet
    <3> QED
      BY <3>1, ToSetIs DEF Words
  <2>2. rotated \in Seq({f \in FileSet : f.exists}) /\ main \in FileSet
    BY FileFacts
  <2>3. ToSet(rotated) \subseteq FileSet /\ \A i \in 1 .. Len(rotated) : rotated[i].exists
    BY <2>2, ToSetIs
  <2>4. Files \subseteq FileSet
    BY <2>2, <2>3 DEF Files
  <2>5. \A f \in Files : /\ ToSet(f.lines) \subseteq Numbers \cup {Bad}
                         /\ f.open \in Numbers \cup {Bad, None}
    BY <2>1, <2>4
  <2>6. ToSet(messages) \subseteq Numbers /\ kept \subseteq Numbers
    <3>1. messages \in Seq(Numbers) /\ made \in 0 .. MaxMessages /\ kept \subseteq 1 .. made
      BY FileFacts
    <3>2. kept \subseteq Numbers
      BY <3>1, Constants DEF Numbers
    <3> QED
      BY <3>1, <3>2, ToSetIs
  <2>7. /\ pc \in {"down", "idle", "record", "newline", "rotate", "write", "rename", "cleanup"}
        /\ saver \in {"append", "resume", "persist"}
        /\ faults \in 0 .. MaxFaults /\ cut \in BOOLEAN
    BY FileFacts
  <2> QED
    BY <2>3, <2>5, <2>6, <2>7 DEF TypeOK
<1>2. FileReplaysMemory
  BY FileFacts, FileText, Constants DEF FileReplaysMemory, FileIInv, Intact
<1>3. OnlyAppendsDamage
  <2> SUFFICES ASSUME main.exists, ~cut PROVE Readable(main)
    BY DEF OnlyAppendsDamage
  <2>1. main \in FileSet /\ messages \in Seq(Numbers)
    BY FileFacts
  <2>2. Bad \notin ToSet(main.lines)
    BY DEF FileIInv, Intact
  <2>3. main.open # Bad
    <3>1. CASE pc = "newline"
      <4>1. main.open = made /\ made \in Numbers
        <5>1. main.open = Last(messages) /\ messages # <<>> /\ Last(messages) = made
          BY <3>1 DEF FileIInv, Intact, PushedIsNew, Pushing
        <5> QED
          BY <2>1, <5>1, FrontLast
      <4> QED
        BY <4>1, Constants
    <3>2. CASE pc # "newline"
      BY <3>2, Constants DEF FileIInv, Intact
    <3> QED
      BY <3>1, <3>2
  <2> QED
    BY <2>1, <2>2, <2>3, FileText
<1>4. AcknowledgedAreSomewhere
  BY DEF FileIInv, OnDisk, Covers, AcknowledgedAreSomewhere
<1>5. RotatedFilesBounded
  BY FileFacts, Constants DEF FileIInv, Bounded, RotatedFilesBounded
<1> QED
  BY <1>1, <1>2, <1>3, <1>4, <1>5 DEF SessionFileSound

\* The session file (runtime/session.rs), whatever appends, snapshots, rotations, failing
\* writes, deletions and crashes came before: between operations it replays to the
\* transcript in memory unless a write to it was cut short, only such a write makes it
\* unreadable, an acknowledged message is in memory or in a file, and the rotated files
\* stay within the limit but for the snapshots that did not finish.
THEOREM SessionFilesSurvive == PartSpec => []SessionFileChecked
<1>1. PartInit => FileIInv
  BY FileStart DEF PartInit
<1>2. FileIInv /\ [PartNext]_partVars => FileIInv'
  <2> SUFFICES ASSUME FileIInv, [PartNext]_partVars PROVE FileIInv'
    OBVIOUS
  <2>1. Next \/ UNCHANGED vars
    BY Zenon DEF PartNext, partVars
  <2> QED
    BY <2>1, FileNext
<1>3. FileIInv => SessionFileChecked
  BY FileIsSound DEF SessionFileChecked
<1> QED
  BY <1>1, <1>2, <1>3, PTL DEF PartSpec

-----------------------------------------------------------------------------
(* The prompt cache *)

Prompts == {"p", "q"}
Previous == [prompt : Prompts, at : Nat, reads : CacheReads] \cup {NoPrevious}
Entries == [at : Nat, reads : CacheReads]
CallStates ==
  {NotInCall}
  \cup [step : {"send", "stream"}, request : CacheRequests]
  \cup [step : {"lookup"}, request : CacheRequests, entry : Entries]

Processes == [previous : Previous, pc : CallStates]

Breaks == [prompt : Prompts, unexpected : BOOLEAN, since : Int]

\* The provider answered this prompt less than the life of a completion before the
\* process noted its usage.
Recent(previous) ==
  previous # NoPrevious =>
    previous.at <= now /\ previous.at < contact[previous.prompt] + CompletionTtl

\* A completion was kept when the provider answered.
Backed(q, entry) ==
  entry # NotCached => entry.at <= now /\ entry.at <= contact[q]

CacheTypes ==
  /\ now \in Nat /\ contact \in [Prompts -> Nat]
  /\ completions \in [CacheRequests -> Entries]
  /\ stateFile \in Previous
  /\ inner \in [CacheProcesses -> Processes]
  /\ cacheLog \in [calls : Nat, served : SUBSET [age : Int], breaks : SUBSET Breaks]

ProcessOK(i) ==
  /\ Recent(i.previous)
  /\ i.pc.step = "lookup" => Backed(i.pc.request.prompt, i.pc.entry)

CacheBooks ==
  /\ \A q \in Prompts : contact[q] <= now
  /\ \A r \in CacheRequests : Backed(r.prompt, completions[r])
  /\ Recent(stateFile)
  /\ \A p \in CacheProcesses : ProcessOK(inner[p])

CacheIInv == CacheTypes /\ CacheBooks /\ PromptCacheSound

TimePasses ==
  /\ now' \in Nat /\ now <= now' /\ contact' \in [Prompts -> Nat]
  /\ \A q \in Prompts : contact[q] <= contact'[q] /\ contact'[q] <= now'

LEMMA CacheValues ==
  /\ CompletionTtl \in Nat /\ CompletionTtl > 0 /\ PromptTtl \in Nat
  /\ NotCached \in Entries /\ NoPrevious \in Previous /\ NotInCall \in CallStates
  /\ \A r \in CacheRequests : r.prompt \in Prompts
BY CacheAssumption
   DEF NotCached, Entries, CacheReads, NoPrevious, Previous, NotInCall, CallStates,
       CacheRequests, Prompts

\* What holds of the times noted stays true as time and the provider's answers go on.
LEMMA TimeGoesOn ==
  ASSUME CacheIInv, TimePasses
  PROVE  /\ \A u \in Previous : Recent(u) => Recent(u)'
         /\ \A q \in Prompts, e \in Entries : Backed(q, e) => Backed(q, e)'
         /\ \A i \in Processes : ProcessOK(i) => ProcessOK(i)'
         /\ Recent(stateFile) /\ (stateFile' = stateFile => Recent(stateFile)')
         /\ completions' = completions =>
              \A r \in CacheRequests : Backed(r.prompt, completions[r])'
<1> USE DEF TimePasses
<1>1. now \in Nat /\ contact \in [Prompts -> Nat]
  BY DEF CacheIInv, CacheTypes
<1>2. ASSUME NEW u \in Previous, Recent(u) PROVE Recent(u)'
  <2> SUFFICES ASSUME u # NoPrevious
               PROVE  u.at <= now' /\ u.at < contact'[u.prompt] + CompletionTtl
    BY DEF Recent
  <2>1. u.prompt \in Prompts /\ u.at \in Nat
    BY DEF Previous
  <2>2. u.at <= now /\ u.at < contact[u.prompt] + CompletionTtl
    BY <1>2 DEF Recent
  <2>3. /\ contact[u.prompt] <= contact'[u.prompt]
        /\ contact[u.prompt] \in Nat /\ contact'[u.prompt] \in Nat
    BY <1>1, <2>1
  <2> QED
    BY <1>1, <2>1, <2>2, <2>3, CacheValues
<1>3. ASSUME NEW q \in Prompts, NEW e \in Entries, Backed(q, e) PROVE Backed(q, e)'
  <2> SUFFICES ASSUME e # NotCached PROVE e.at <= now' /\ e.at <= contact'[q]
    BY DEF Backed
  <2>1. e.at \in Nat /\ e.at <= now /\ e.at <= contact[q]
    BY <1>3 DEF Backed, Entries
  <2>2. contact[q] <= contact'[q] /\ contact[q] \in Nat /\ contact'[q] \in Nat
    BY <1>1
  <2> QED
    BY <1>1, <2>1, <2>2
<1>4. ASSUME NEW i \in Processes, ProcessOK(i) PROVE ProcessOK(i)'
  <2>1. i.previous \in Previous /\ i.pc \in CallStates
    BY DEF Processes
  <2>2. Recent(i.previous)'
    BY <1>2, <1>4, <2>1 DEF ProcessOK
  <2>3. ASSUME i.pc.step = "lookup" PROVE Backed(i.pc.request.prompt, i.pc.entry)'
    <3>1. i.pc.request.prompt \in Prompts /\ i.pc.entry \in Entries
      BY <2>1, <2>3, CacheValues DEF CallStates, NotInCall
    <3>2. Backed(i.pc.request.prompt, i.pc.entry)
      BY <1>4, <2>3 DEF ProcessOK
    <3> QED
      BY <1>3, <3>1, <3>2
  <2> QED
    BY <2>2, <2>3 DEF ProcessOK
<1>5. Recent(stateFile) /\ (stateFile' = stateFile => Recent(stateFile)')
  <2>1. Recent(stateFile) /\ stateFile \in Previous
    BY DEF CacheIInv, CacheBooks, CacheTypes
  <2> QED
    BY <1>2, <2>1 DEF Recent
<1>6. ASSUME completions' = completions, NEW r \in CacheRequests
      PROVE  Backed(r.prompt, completions[r])'
  <2>1. completions[r] \in Entries /\ Backed(r.prompt, completions[r]) /\ r.prompt \in Prompts
    BY CacheValues DEF CacheIInv, CacheBooks, CacheTypes
  <2> QED
    BY <1>3, <1>6, <2>1 DEF Backed
<1> QED
  BY <1>2, <1>3, <1>4, <1>5, <1>6

\* No time passes and no provider answers.
LEMMA TimeStands ==
  ASSUME CacheIInv, UNCHANGED <<now, contact>> PROVE TimePasses
<1>1. now \in Nat /\ contact \in [Prompts -> Nat] /\ \A q \in Prompts : contact[q] <= now
  BY DEF CacheIInv, CacheTypes, CacheBooks
<1>2. \A q \in Prompts : contact[q] \in Nat
  BY <1>1
<1> QED
  BY <1>1, <1>2 DEF TimePasses

\* One process changes what it knows and does.
LEMMA ProcessChanges ==
  ASSUME CacheIInv, TimePasses, NEW p \in CacheProcesses, NEW i \in Processes, ProcessOK(i)',
         inner' = [inner EXCEPT ![p] = i]
  PROVE  /\ inner' \in [CacheProcesses -> Processes]
         /\ \A r \in CacheProcesses : ProcessOK(inner[r])'
<1>1. inner \in [CacheProcesses -> Processes]
  BY DEF CacheIInv, CacheTypes
<1>2. inner' \in [CacheProcesses -> Processes]
  BY <1>1
<1>3. ASSUME NEW r \in CacheProcesses PROVE ProcessOK(inner[r])'
  <2>1. CASE r = p
    BY <1>1, <2>1
  <2>2. CASE r # p
    <3>1. inner'[r] = inner[r] /\ inner[r] \in Processes /\ ProcessOK(inner[r])
      BY <1>1, <2>2 DEF CacheIInv, CacheBooks
    <3>2. PICK j \in Processes : j = inner[r]
      BY <3>1
    <3>3. ProcessOK(j)'
      BY <3>1, <3>2, TimeGoesOn
    <3> QED
      BY <3>1, <3>2, <3>3
  <2> QED
    BY <2>1, <2>2
<1> QED
  BY <1>2, <1>3

\* A process notes what it knows and leaves its lookup or its call.
LEMMA Persisted ==
  ASSUME CacheIInv, TimePasses, NEW p \in CacheProcesses, NEW u \in Previous, Recent(u)',
         NEW c \in CallStates, c.step # "lookup", persist_state(p, u, c)
  PROVE  /\ inner' \in [CacheProcesses -> Processes]
         /\ \A r \in CacheProcesses : ProcessOK(inner[r])'
         /\ stateFile' \in Previous /\ Recent(stateFile)'
<1> DEFINE i == [previous |-> u, pc |-> c]
<1>1. /\ inner' = [inner EXCEPT ![p] = i]
      /\ stateFile' = IF u = NoPrevious THEN stateFile ELSE u
  BY DEF persist_state
<1>2. i \in Processes /\ i.previous = u /\ i.pc = c
  BY DEF Processes
<1> HIDE DEF i
<1>3. ProcessOK(i)'
  BY <1>2 DEF ProcessOK
<1>4. stateFile' \in Previous
  BY <1>1 DEF CacheIInv, CacheTypes
<1>5. Recent(stateFile)'
  <2>1. CASE u = NoPrevious
    <3>1. stateFile' = stateFile
      BY <1>1, <2>1
    <3> QED
      BY <3>1, TimeGoesOn
  <2>2. CASE u # NoPrevious
    <3>1. stateFile' = u
      BY <1>1, <2>2
    <3> QED
      BY <3>1
  <2> QED
    BY <2>1, <2>2
<1> QED
  BY <1>1, <1>2, <1>3, <1>4, <1>5, ProcessChanges

\* The stages of a call and what they carry.
LEMMA CallFacts ==
  ASSUME CacheIInv, NEW p \in CacheProcesses
  PROVE  /\ inner[p].previous \in Previous /\ Recent(inner[p].previous)
         /\ inner[p].pc.step \in {"send", "stream", "lookup"} =>
              inner[p].pc.request \in CacheRequests
         /\ inner[p].pc.step = "lookup" =>
              /\ inner[p].pc.entry \in Entries
              /\ Backed(inner[p].pc.request.prompt, inner[p].pc.entry)
<1>1. inner[p] \in Processes /\ ProcessOK(inner[p])
  BY DEF CacheIInv, CacheTypes, CacheBooks
<1>2. inner[p].previous \in Previous /\ inner[p].pc \in CallStates
  BY <1>1 DEF Processes
<1> QED
  BY <1>1, <1>2 DEF ProcessOK, CallStates, NotInCall

\* A usage is recorded when the provider has just answered; what is reported as an
\* unexpected break was answered within the life of the prompt and a completion.
LEMMA UsageRecorded ==
  ASSUME CacheIInv, NEW p \in CacheProcesses, NEW r \in CacheRequests, NEW n \in CacheReads,
         now' = now, record_usage_internal(p, r, n)
  PROVE  /\ TimePasses /\ contact'[r.prompt] = now
         /\ inner' \in [CacheProcesses -> Processes]
         /\ \A q \in CacheProcesses : ProcessOK(inner[q])'
         /\ stateFile' \in Previous /\ Recent(stateFile)'
         /\ cacheLog' \in [calls : Nat, served : SUBSET [age : Int], breaks : SUBSET Breaks]
         /\ PromptCacheSound'
<1> DEFINE old == inner[p].previous
<1>1. /\ now \in Nat /\ contact \in [Prompts -> Nat] /\ \A q \in Prompts : contact[q] <= now
      /\ cacheLog \in [calls : Nat, served : SUBSET [age : Int], breaks : SUBSET Breaks]
      /\ ServedFresh
  BY DEF CacheIInv, CacheTypes, CacheBooks, PromptCacheSound
<1>2. r.prompt \in Prompts /\ n \in CacheReads
  BY CacheValues
<1>3. PICK u \in Previous : u = from_usage(r, n)
  BY <1>1, <1>2 DEF from_usage, RequestFingerprints, Previous
<1>4. u.prompt = r.prompt /\ u.at = now
  BY <1>3 DEF from_usage, RequestFingerprints
<1> DEFINE breaks == detect_cache_break(old, u)
<1>5. /\ persist_state(p, u, NotInCall) /\ cacheLog' = [cacheLog EXCEPT !.breaks = breaks]
      /\ contact' = [contact EXCEPT ![r.prompt] = now]
  BY <1>3 DEF record_usage_internal
<1>6. TimePasses /\ contact'[r.prompt] = now
  <2>1. \A q \in Prompts : contact[q] \in Nat
    BY <1>1
  <2> QED
    BY <1>1, <1>2, <1>5, <2>1 DEF TimePasses
<1>7. Recent(u)'
  BY <1>1, <1>4, <1>6, CacheValues DEF Recent
<1>8. old \in Previous /\ Recent(old)
  BY CallFacts
<1>9. ASSUME NEW b \in breaks
      PROVE  b \in Breaks /\ (b.unexpected => b.since <= PromptTtl + CompletionTtl - 1)
  <2>1. /\ old # NoPrevious
        /\ b = [prompt |-> u.prompt,
                unexpected |-> old.prompt = u.prompt /\ ~(u.at - old.at > PromptTtl),
                since |-> now - contact[u.prompt]]
    BY <1>9 DEF detect_cache_break
  <2>2. contact[r.prompt] \in Nat
    BY <1>1, <1>2
  <2>3. b.prompt = r.prompt /\ b.since = now - contact[r.prompt] /\ b \in Breaks
    BY <1>1, <1>2, <1>4, <2>1, <2>2 DEF Breaks
  <2>4. ASSUME b.unexpected PROVE b.since <= PromptTtl + CompletionTtl - 1
    <3>1. old.prompt = r.prompt /\ ~(now - old.at > PromptTtl)
      BY <1>4, <2>1, <2>4
    <3>2. old.at \in Nat /\ old.at < contact[r.prompt] + CompletionTtl
      BY <1>8, <2>1, <3>1 DEF Previous, Recent
    <3> QED
      BY <1>1, <2>2, <2>3, <3>1, <3>2, CacheValues
  <2> QED
    BY <2>3, <2>4
<1> HIDE DEF old, breaks
<1>10. /\ cacheLog' \in [calls : Nat, served : SUBSET [age : Int], breaks : SUBSET Breaks]
      /\ cacheLog'.served = cacheLog.served /\ cacheLog'.breaks = breaks
  BY <1>1, <1>5, <1>9
<1>11. PromptCacheSound'
  BY <1>1, <1>9, <1>10 DEF PromptCacheSound, ServedFresh, UnexpectedIsRecent
<1>12. NotInCall \in CallStates /\ NotInCall.step # "lookup"
  BY CacheValues DEF NotInCall
<1> QED
  BY <1>5, <1>7, <1>10, <1>11, <1>12, <1>6, Persisted

\* The step of a process that neither reads the clock nor reports anything.
LEMMA QuietStep ==
  ASSUME CacheIInv, TimePasses, UNCHANGED <<completions, stateFile>>,
         inner' \in [CacheProcesses -> Processes],
         \A r \in CacheProcesses : ProcessOK(inner[r])',
         \/ cacheLog' = cacheLog
         \/ /\ cacheLog' \in [calls : Nat, served : SUBSET [age : Int], breaks : SUBSET Breaks]
            /\ cacheLog'.served = {} /\ cacheLog'.breaks = {}
  PROVE  CacheIInv'
<1>1. CacheTypes'
  BY DEF CacheIInv, CacheTypes, TimePasses
<1>2. /\ \A r \in CacheRequests : Backed(r.prompt, completions[r])'
      /\ Recent(stateFile)'
  BY TimeGoesOn
<1>3. CacheBooks'
  BY <1>2 DEF CacheBooks, TimePasses
<1>4. PromptCacheSound'
  BY DEF CacheIInv, PromptCacheSound, ServedFresh, UnexpectedIsRecent
<1> QED
  BY <1>1, <1>3, <1>4 DEF CacheIInv

LEMMA CallStarts ==
  ASSUME CacheIInv, NEW p \in CacheProcesses, NEW r \in CacheRequests,
         ReadCompletion(p, r) \/ StartStream(p, r)
  PROVE  CacheIInv'
<1>1. completions[r] \in Entries /\ Backed(r.prompt, completions[r])
  BY DEF CacheIInv, CacheTypes, CacheBooks
<1>2. PICK d \in CallStates :
        /\ inner' = [inner EXCEPT ![p].pc = d]
        /\ d.step = "lookup" => d.request = r /\ d.entry = completions[r]
  <2>1. CASE ReadCompletion(p, r)
    <3>1. PICK d \in CallStates :
            d = [step |-> "lookup", request |-> r, entry |-> completions[r]]
      BY <1>1 DEF CallStates
    <3>2. inner' = [inner EXCEPT ![p].pc = d]
      BY <2>1, <3>1 DEF ReadCompletion
    <3>3. d.request = r /\ d.entry = completions[r]
      BY <3>1
    <3> QED
      BY <3>2, <3>3
  <2>2. CASE StartStream(p, r)
    <3>1. [step |-> "stream", request |-> r] \in CallStates
      BY DEF CallStates
    <3> QED
      BY <2>2, <3>1 DEF StartStream
  <2> QED
    BY <2>1, <2>2
<1>3. /\ UNCHANGED <<now, completions, stateFile, contact>>
      /\ cacheLog' = [cacheLog EXCEPT !.calls = @ + 1, !.served = {}, !.breaks = {}]
  BY DEF ReadCompletion, StartStream
<1>4. TimePasses
  BY <1>3, TimeStands
<1>5. inner[p] \in Processes /\ Recent(inner[p].previous) /\ inner[p].previous \in Previous
  BY CallFacts DEF CacheIInv, CacheTypes
<1>6. PICK i \in Processes : i = [inner[p] EXCEPT !.pc = d]
  BY <1>2, <1>5 DEF Processes
<1>7. i.pc = d /\ i.previous = inner[p].previous
  BY <1>5, <1>6 DEF Processes
<1>8. ProcessOK(i)'
  <2>1. Recent(i.previous)'
    BY <1>3, <1>5, <1>7 DEF Recent
  <2>2. d.step = "lookup" => Backed(d.request.prompt, d.entry)'
    BY <1>1, <1>2, <1>3 DEF Backed
  <2> QED
    BY <1>7, <2>1, <2>2 DEF ProcessOK
<1>9. inner' = [inner EXCEPT ![p] = i]
  BY <1>2, <1>6
<1>10. /\ cacheLog' \in [calls : Nat, served : SUBSET [age : Int], breaks : SUBSET Breaks]
       /\ cacheLog'.served = {} /\ cacheLog'.breaks = {}
  <2> DEFINE Logs == [calls : Nat, served : SUBSET [age : Int], breaks : SUBSET Breaks]
             one == [cacheLog EXCEPT !.calls = @ + 1]
             two == [one EXCEPT !.served = {}]
  <2>1. cacheLog \in Logs
    BY DEF CacheIInv, CacheTypes
  <2>2. one \in Logs
    BY <2>1
  <2>3. cacheLog' = [two EXCEPT !.breaks = {}]
    BY <1>3
  <2> HIDE DEF one
  <2>4. two \in Logs /\ two.served = {}
    BY <2>2
  <2> HIDE DEF two
  <2> QED
    BY <2>3, <2>4
<1> QED
  BY <1>3, <1>4, <1>8, <1>9, <1>10, ProcessChanges, QuietStep

LEMMA LookupStep ==
  ASSUME CacheIInv, NEW p \in CacheProcesses, lookup_completion(p) PROVE CacheIInv'
<1> DEFINE c == inner[p].pc
<1>1. /\ c.step = "lookup" /\ c.request \in CacheRequests /\ c.entry \in Entries
      /\ Backed(c.request.prompt, c.entry)
  BY CallFacts DEF lookup_completion, InCall
<1>2. UNCHANGED <<now, contact>> /\ now \in Nat /\ contact \in [Prompts -> Nat]
  BY DEF lookup_completion, CacheIInv, CacheTypes
<1>3. TimePasses
  BY <1>2, TimeStands
<1>4. inner[p].previous \in Previous /\ Recent(inner[p].previous)
  BY CallFacts
<1>5. /\ cacheLog \in [calls : Nat, served : SUBSET [age : Int], breaks : SUBSET Breaks]
      /\ completions \in [CacheRequests -> Entries] /\ PromptCacheSound
      /\ \A r \in CacheRequests : Backed(r.prompt, completions[r])
      /\ \A q \in Prompts : contact[q] <= now
  BY DEF CacheIInv, CacheTypes, CacheBooks
<1>6. CASE c.entry = NotCached \/ expired(c.entry)
  <2>1. PICK u \in Previous : u = inner[p].previous
    BY <1>4
  <2>2. PICK s \in CallStates : s = [step |-> "send", request |-> c.request]
    BY <1>1 DEF CallStates
  <2>3. persist_state(p, u, s) /\ s.step # "lookup"
    BY <1>6, <2>1, <2>2 DEF lookup_completion
  <2>4. Recent(u)'
    BY <1>2, <1>4, <2>1 DEF Recent
  <2>5. /\ inner' \in [CacheProcesses -> Processes]
        /\ \A r \in CacheProcesses : ProcessOK(inner[r])'
        /\ stateFile' \in Previous /\ Recent(stateFile)'
    BY <1>3, <2>3, <2>4, Persisted
  <2>6. /\ cacheLog' = cacheLog
        /\ completions' \in {completions, [completions EXCEPT ![c.request] = NotCached]}
    BY <1>6 DEF lookup_completion
  <2>7. /\ completions' \in [CacheRequests -> Entries]
        /\ \A r \in CacheRequests : completions'[r] \in {completions[r], NotCached}
    BY <1>1, <1>5, <2>6, CacheValues
  <2>8. \A r \in CacheRequests : Backed(r.prompt, completions[r])'
    BY <1>2, <1>5, <2>7 DEF Backed
  <2>9. CacheTypes' /\ CacheBooks'
    BY <1>2, <1>5, <2>5, <2>6, <2>7, <2>8 DEF CacheTypes, CacheBooks
  <2>10. PromptCacheSound'
    BY <1>5, <2>6 DEF PromptCacheSound, ServedFresh, UnexpectedIsRecent
  <2> QED
    BY <2>9, <2>10 DEF CacheIInv
<1>7. CASE c.entry # NotCached /\ ~expired(c.entry)
  <2>1. /\ persist_state(p, from_usage(c.request, c.entry.reads), NotInCall)
        /\ cacheLog' = [cacheLog EXCEPT !.served = {[age |-> now - c.entry.at]}]
        /\ completions' = completions
    BY <1>7 DEF lookup_completion
  <2>2. c.request.prompt \in Prompts /\ c.entry.reads \in CacheReads /\ c.entry.at \in Nat
    BY <1>1, CacheValues DEF Entries
  <2>3. now - c.entry.at < CompletionTtl /\ c.entry.at <= contact[c.request.prompt]
    BY <1>1, <1>2, <1>7, <2>2, CacheValues DEF expired, Backed
  <2>4. PICK u \in Previous : u = from_usage(c.request, c.entry.reads)
    BY <1>2, <2>2 DEF from_usage, RequestFingerprints, Previous
  <2>5. u.prompt = c.request.prompt /\ u.at = now
    BY <2>4 DEF from_usage, RequestFingerprints
  <2>6. contact[u.prompt] \in Nat /\ now < contact[u.prompt] + CompletionTtl
    BY <1>2, <2>2, <2>3, <2>5, CacheValues
  <2>7. Recent(u)'
    BY <1>2, <2>5, <2>6, CacheValues DEF Recent
  <2>8. NotInCall \in CallStates /\ NotInCall.step # "lookup"
    BY CacheValues DEF NotInCall
  <2>9. /\ inner' \in [CacheProcesses -> Processes]
        /\ \A r \in CacheProcesses : ProcessOK(inner[r])'
        /\ stateFile' \in Previous /\ Recent(stateFile)'
    BY <1>3, <2>1, <2>4, <2>7, <2>8, Persisted
  <2>10. PICK v \in [age : Int] : v = [age |-> now - c.entry.at]
    <3> DEFINE age == now - c.entry.at
    <3>1. age \in Int
      BY <1>2, <2>2
    <3> HIDE DEF age
    <3>2. [age |-> age] \in [age : Int]
      BY <3>1
    <3> QED
      BY <3>2 DEF age
  <2>11. v.age < CompletionTtl
    BY <2>3, <2>10
  <2>12. /\ cacheLog' \in [calls : Nat, served : SUBSET [age : Int], breaks : SUBSET Breaks]
         /\ cacheLog'.served = {v} /\ cacheLog'.breaks = cacheLog.breaks
    <3> DEFINE S == {v}
    <3>1. cacheLog' = [cacheLog EXCEPT !.served = S] /\ S \in SUBSET [age : Int]
      BY <2>1, <2>10
    <3> HIDE DEF S
    <3>2. /\ cacheLog' \in [calls : Nat, served : SUBSET [age : Int], breaks : SUBSET Breaks]
          /\ cacheLog'.served = S /\ cacheLog'.breaks = cacheLog.breaks
      BY <1>5, <3>1
    <3> QED
      BY <3>2 DEF S
  <2>13. CacheTypes' /\ CacheBooks'
    BY <1>2, <1>5, <2>1, <2>9, <2>12 DEF CacheTypes, CacheBooks, Backed
  <2>14. PromptCacheSound'
    BY <1>5, <2>11, <2>12 DEF PromptCacheSound, ServedFresh, UnexpectedIsRecent
  <2> QED
    BY <2>13, <2>14 DEF CacheIInv
<1> QED
  BY <1>6, <1>7

LEMMA AnswerStep ==
  ASSUME CacheIInv, NEW p \in CacheProcesses, NEW n \in CacheReads,
         record_response(p, n) \/ record_usage(p, n)
  PROVE  CacheIInv'
<1>1. PICK r \in CacheRequests : r = inner[p].pc.request
  BY CallFacts DEF record_response, record_usage, InCall
<1>2. /\ now' = now /\ record_usage_internal(p, r, n)
      /\ \/ completions' = [completions EXCEPT ![r] = [at |-> now, reads |-> n]]
         \/ completions' = completions
  BY <1>1 DEF record_response, record_usage
<1>3. /\ TimePasses /\ contact'[r.prompt] = now
      /\ inner' \in [CacheProcesses -> Processes]
      /\ \A q \in CacheProcesses : ProcessOK(inner[q])'
      /\ stateFile' \in Previous /\ Recent(stateFile)'
      /\ cacheLog' \in [calls : Nat, served : SUBSET [age : Int], breaks : SUBSET Breaks]
      /\ PromptCacheSound'
  BY <1>2, UsageRecorded
<1>4. now \in Nat /\ completions \in [CacheRequests -> Entries]
  BY DEF CacheIInv, CacheTypes
<1>5. PICK e \in Entries : e = [at |-> now, reads |-> n]
  BY <1>4 DEF Entries
<1>6. /\ completions' \in [CacheRequests -> Entries]
      /\ \A q \in CacheRequests :
           completions'[q] = completions[q] \/ (q = r /\ completions'[q] = e)
  BY <1>2, <1>4, <1>5
<1>7. ASSUME NEW q \in CacheRequests PROVE Backed(q.prompt, completions[q])'
  <2>1. CASE completions'[q] = completions[q]
    <3>1. PICK o \in Entries : o = completions[q]
      BY <1>4
    <3>2. Backed(q.prompt, o)
      BY <3>1 DEF CacheIInv, CacheBooks
    <3>3. Backed(q.prompt, o)'
      BY <1>3, <3>2, CacheValues, TimeGoesOn
    <3> QED
      BY <2>1, <3>1, <3>3 DEF Backed
  <2>2. CASE q = r /\ completions'[q] = e
    <3>1. e.at = now
      BY <1>5
    <3> QED
      BY <1>2, <1>3, <1>4, <2>2, <3>1 DEF Backed
  <2> QED
    BY <1>6, <2>1, <2>2
<1>8. CacheTypes'
  BY <1>3, <1>6 DEF CacheTypes, TimePasses
<1>9. CacheBooks'
  BY <1>3, <1>7 DEF CacheBooks, TimePasses
<1> QED
  BY <1>3, <1>8, <1>9 DEF CacheIInv

LEMMA EndWithoutUsage ==
  ASSUME CacheIInv, NEW p \in CacheProcesses, StopUnobserved(p) \/ CallFails(p)
  PROVE  CacheIInv'
<1>1. /\ UNCHANGED <<now, completions, stateFile, cacheLog>>
      /\ inner' = [inner EXCEPT ![p].pc = NotInCall]
      /\ \/ contact' = contact
         \/ /\ inner[p].pc.request \in CacheRequests
            /\ contact' = [contact EXCEPT ![inner[p].pc.request.prompt] = now]
  BY CallFacts DEF StopUnobserved, CallFails, InCall
<1>2. /\ now \in Nat /\ contact \in [Prompts -> Nat] /\ \A q \in Prompts : contact[q] <= now
      /\ inner[p] \in Processes
  BY DEF CacheIInv, CacheTypes, CacheBooks
<1>3. TimePasses
  <2>1. \A q \in Prompts : contact[q] \in Nat
    BY <1>2
  <2>2. CASE contact' = contact
    BY <1>1, <1>2, <2>1, <2>2 DEF TimePasses
  <2>3. CASE contact' # contact
    <3>1. PICK q \in Prompts : contact' = [contact EXCEPT ![q] = now]
      BY <1>1, <2>3, CacheValues
    <3>2. now' = now
      BY <1>1
    <3> QED
      BY <1>2, <2>1, <3>1, <3>2 DEF TimePasses
  <2> QED
    BY <1>1, <2>2, <2>3
<1>4. PICK i \in Processes : i = [inner[p] EXCEPT !.pc = NotInCall]
  BY <1>2, CacheValues DEF Processes
<1>5. i.previous = inner[p].previous /\ i.pc.step # "lookup"
  BY <1>2, <1>4 DEF Processes, NotInCall
<1>6. ProcessOK(i)'
  <2>1. i.previous \in Previous /\ Recent(i.previous)
    BY <1>5, CallFacts
  <2>2. Recent(i.previous)'
    BY <1>3, <2>1, TimeGoesOn
  <2> QED
    BY <1>5, <2>2 DEF ProcessOK
<1>7. inner' = [inner EXCEPT ![p] = i]
  BY <1>1, <1>4
<1> QED
  BY <1>1, <1>3, <1>6, <1>7, ProcessChanges, QuietStep

LEMMA StartAnew ==
  ASSUME CacheIInv, NEW p \in CacheProcesses, NEW torn \in BOOLEAN, with_config(p, torn)
  PROVE  CacheIInv'
<1> DEFINE left == IF torn THEN NoPrevious ELSE stateFile
<1>1. /\ UNCHANGED <<now, completions, contact, cacheLog>> /\ stateFile' = left
      /\ inner' = [inner EXCEPT ![p] = [previous |-> left, pc |-> NotInCall]]
  BY DEF with_config
<1>2. left \in Previous /\ Recent(left)
  BY CacheValues DEF CacheIInv, CacheTypes, CacheBooks, Recent
<1> HIDE DEF left
<1>3. PICK u \in Previous : u = left
  BY <1>2
<1>4. TimePasses
  BY <1>1, TimeStands
<1>5. Recent(u)'
  BY <1>2, <1>3, <1>4, TimeGoesOn
<1>6. PICK i \in Processes : i = [previous |-> u, pc |-> NotInCall]
  BY CacheValues DEF Processes
<1>7. i.previous = u /\ i.pc.step # "lookup"
  BY <1>6 DEF NotInCall
<1>8. ProcessOK(i)'
  BY <1>5, <1>7 DEF ProcessOK
<1>9. inner' = [inner EXCEPT ![p] = i]
  BY <1>1, <1>3, <1>6
<1>10. /\ inner' \in [CacheProcesses -> Processes]
       /\ \A r \in CacheProcesses : ProcessOK(inner[r])'
  BY <1>4, <1>8, <1>9, ProcessChanges
<1>11. /\ \A r \in CacheRequests : Backed(r.prompt, completions[r])'
  BY <1>1, <1>4, TimeGoesOn
<1>12. Recent(stateFile)' /\ stateFile' \in Previous
  <2>1. stateFile' = u
    BY <1>1, <1>3
  <2> QED
    BY <1>5, <2>1
<1>13. CacheTypes'
  BY <1>1, <1>4, <1>10, <1>12 DEF CacheIInv, CacheTypes, TimePasses
<1>14. CacheBooks'
  BY <1>4, <1>10, <1>11, <1>12 DEF CacheBooks, TimePasses
<1>15. PromptCacheSound'
  BY <1>1 DEF CacheIInv, PromptCacheSound, ServedFresh, UnexpectedIsRecent
<1> QED
  BY <1>13, <1>14, <1>15 DEF CacheIInv

LEMMA ClockStep ==
  ASSUME CacheIInv, CacheTick \/ UNCHANGED cacheVars PROVE CacheIInv'
<1>1. /\ UNCHANGED <<completions, stateFile, inner, contact, cacheLog>>
      /\ now' = now \/ now' = now + 1
  BY DEF CacheTick, cacheVars
<1>2. /\ now \in Nat /\ contact \in [Prompts -> Nat] /\ \A q \in Prompts : contact[q] <= now
      /\ inner \in [CacheProcesses -> Processes] /\ \A q \in CacheProcesses : ProcessOK(inner[q])
  BY DEF CacheIInv, CacheTypes, CacheBooks
<1>3. TimePasses
  <2>1. \A q \in Prompts : contact[q] \in Nat
    BY <1>2
  <2> QED
    BY <1>1, <1>2, <2>1 DEF TimePasses
<1>4. ASSUME NEW r \in CacheProcesses PROVE ProcessOK(inner[r])'
  <2>1. PICK i \in Processes : i = inner[r]
    BY <1>2
  <2>2. ProcessOK(i)'
    BY <1>2, <1>3, <2>1, TimeGoesOn
  <2> QED
    BY <1>1, <2>1, <2>2
<1> QED
  BY <1>1, <1>2, <1>3, <1>4, QuietStep

LEMMA CacheStart == CacheInit => CacheIInv
<1> SUFFICES ASSUME CacheInit PROVE CacheIInv
  OBVIOUS
<1>1. CacheTypes
  <2>1. contact \in [Prompts -> Nat] /\ now \in Nat
    BY DEF CacheInit, Prompts
  <2>2. completions \in [CacheRequests -> Entries] /\ stateFile \in Previous
    BY CacheValues DEF CacheInit
  <2>3. [previous |-> NoPrevious, pc |-> NotInCall] \in Processes
    BY CacheValues DEF Processes
  <2>4. inner \in [CacheProcesses -> Processes]
    BY <2>3 DEF CacheInit
  <2>5. cacheLog \in [calls : Nat, served : SUBSET [age : Int], breaks : SUBSET Breaks]
    BY DEF CacheInit
  <2> QED
    BY <2>1, <2>2, <2>4, <2>5 DEF CacheTypes
<1>2. CacheBooks
  BY DEF CacheInit, CacheBooks, Backed, Recent, ProcessOK, NotInCall, Prompts
<1>3. PromptCacheSound
  BY DEF CacheInit, PromptCacheSound, ServedFresh, UnexpectedIsRecent
<1> QED
  BY <1>1, <1>2, <1>3 DEF CacheIInv

\* The prompt cache (api/prompt_cache.rs), for any number of processes that share its files
\* and any order of lookups, answers, streams, failures and restarts: a completion is
\* served only while it is younger than its time to live, and a drop of the tokens read from the
\* provider's cache is called unexpected only if the provider answered this prompt within the
\* life of a prompt and of a completion.
THEOREM CacheIsFresh == PartSpec => []PromptCacheChecked
<1>1. PartInit => CacheIInv
  BY CacheStart DEF PartInit
<1>2. CacheIInv /\ [PartNext]_partVars => CacheIInv'
  <2> SUFFICES ASSUME CacheIInv, [PartNext]_partVars PROVE CacheIInv'
    OBVIOUS
  <2>1. CacheNext \/ UNCHANGED cacheVars
    BY Zenon DEF PartNext, partVars
  <2> QED
    BY <2>1, CallStarts, LookupStep, AnswerStep, EndWithoutUsage, StartAnew, ClockStep, Zenon
       DEF CacheNext
<1>3. CacheIInv => PromptCacheChecked
  BY DEF CacheIInv, PromptCacheChecked
<1> QED
  BY <1>1, <1>2, <1>3, PTL DEF PartSpec

-----------------------------------------------------------------------------
(* Provider calls *)

Forms == {"stream", "plain"}
Kinds == {"Anthropic", "OpenAi", "Xai"}
Busy == {"preflight", "send", "reading", "answered"}

\* Clients that have their key and are those the name of the model means.
KeyedClients ==
  {c \in [model : ModelNames, kind : Kinds, key : EnvVars] :
     metadata_for_model(c.model).provider # "none" =>
       c.kind = metadata_for_model(c.model).provider /\ c.key = metadata_for_model(c.model).auth_env}
AskedRequests == [index : Nat, form : Forms, status : {0, 200, 400, 401, 429}]
RunningCalls == [pc : Busy, index : Nat, form : Forms, attempts : Nat,
                 events : [text : SUBSET Nat, tools : SUBSET Nat, pending : SUBSET Nat, stop : BOOLEAN]]

\* Requests(i, f) of any list of requests.
RequestsIn(a, i, f) == {n \in DOMAIN a : a[n].index = i /\ a[n].form = f}
StreamOpened(i) == [index |-> i, form |-> "stream", status |-> 200]

AskedOK(a) ==
  /\ a \in Seq(AskedRequests)
  /\ \A i \in Nat, f \in Forms : Cardinality(RequestsIn(a, i, f)) <= MaxRetries + 1
  /\ \A n \in DOMAIN a : a[n].form = "plain" => \E k \in 1 .. (n - 1) : a[k] = StreamOpened(a[n].index)
  /\ \A m, n \in DOMAIN a : m < n => a[m].index <= a[n].index

\* The call c under way: nobody later was asked and nobody refused; its attempts are the
\* requests of its form; what it has read is of the answer it reads.
UnderWay(c, a) ==
  /\ c \in RunningCalls
  /\ \A n \in DOMAIN a : a[n].index <= c.index /\ a[n].status \notin {400, 401}
  /\ c.pc \in {"preflight", "send"} =>
       Cardinality(RequestsIn(a, c.index, c.form)) = c.attempts /\ c.attempts <= MaxRetries
  /\ c.form = "stream" => RequestsIn(a, c.index, "plain") = {}
  /\ c.form = "plain" => \E k \in DOMAIN a : a[k] = StreamOpened(c.index)
  /\ c.form = "stream" /\ c.pc \in {"preflight", "send"} => c.events = NoEvents
  /\ c.pc = "reading" =>
       /\ c.form = "stream"
       /\ c.events.text \cup c.events.tools \cup c.events.pending \subseteq {Len(a)}
  /\ c.pc = "answered" => c.form = "plain"
  /\ c.pc \in {"reading", "answered"} =>
       /\ Len(a) \in DOMAIN a /\ a[Len(a)] = [index |-> c.index, form |-> c.form, status |-> 200]

\* The call c has ended: with one answer, or with the error that ended it.
CallEnded(c, a) ==
  /\ c.pc \in {"done", "failed"}
  /\ c.pc = "done" =>
       c.events.text \cup c.events.tools \subseteq {n \in {Len(a)} : a[n].status = 200}
  /\ c.pc = "failed" =>
       /\ c.error.kind = "missing_credentials" =>
            IF c.model = "local"
            THEN c.env \cap {"ANTHROPIC_API_KEY", "ANTHROPIC_AUTH_TOKEN", "OPENAI_API_KEY", "XAI_API_KEY"} = {}
            ELSE metadata_for_model(c.model).auth_env \notin c.env
       /\ c.error.context => safe_failure_class(c.error) = "context_window"
  /\ \A n \in DOMAIN a : a[n].status \in {400, 401} => n = Len(a)

ProviderIInv ==
  /\ chain \in Seq(KeyedClients) /\ AskedOK(asked)
  /\ \/ call = NoCallYet /\ asked = <<>>
     \/ UnderWay(call, asked) /\ call.index \in 1 .. Len(chain)
     \/ CallEnded(call, asked)

\* What a name and the environment make of a client.
LEMMA FromModel ==
  ASSUME NEW m \in ModelNames, NEW e \in SUBSET EnvVars
  PROVE  LET c == from_model(m, e)
         IN  /\ c.key # "missing" => c \in KeyedClients
             /\ c.key = "missing" =>
                  IF m = "local"
                  THEN e \cap {"ANTHROPIC_API_KEY", "ANTHROPIC_AUTH_TOKEN", "OPENAI_API_KEY", "XAI_API_KEY"} = {}
                  ELSE metadata_for_model(m).auth_env \notin e
<1> DEFINE c == from_model(m, e)
           kind == detect_provider_kind(m, e)
<1>1. CASE m = "claude-"
  <2>1. metadata_for_model(m) = [provider |-> "Anthropic", auth_env |-> "ANTHROPIC_API_KEY"]
    BY <1>1 DEF metadata_for_model
  <2>2. kind = "Anthropic"
    BY <2>1 DEF detect_provider_kind
  <2>3. c = [model |-> m, kind |-> "Anthropic",
             key |-> IF has_auth_from_env_or_saved(e) THEN "ANTHROPIC_API_KEY" ELSE "missing"]
    BY <2>2 DEF from_model
  <2> QED
    BY <1>1, <2>1, <2>3 DEF has_auth_from_env_or_saved, KeyedClients, Kinds, EnvVars
<1>2. CASE m = "grok-"
  <2>1. metadata_for_model(m) = [provider |-> "Xai", auth_env |-> "XAI_API_KEY"]
    BY <1>2 DEF metadata_for_model
  <2>2. kind = "Xai"
    BY <2>1 DEF detect_provider_kind
  <2>3. c = [model |-> m, kind |-> "Xai", key |-> IF "XAI_API_KEY" \in e THEN "XAI_API_KEY" ELSE "missing"]
    BY <2>2 DEF from_model
  <2> QED
    BY <1>2, <2>1, <2>3 DEF KeyedClients, Kinds, EnvVars
<1>3. CASE m = "gpt-"
  <2>1. metadata_for_model(m) = [provider |-> "OpenAi", auth_env |-> "OPENAI_API_KEY"]
    BY <1>3 DEF metadata_for_model
  <2>2. kind = "OpenAi"
    BY <2>1 DEF detect_provider_kind
  <2>3. c = [model |-> m, kind |-> "OpenAi", key |-> IF "OPENAI_API_KEY" \in e THEN "OPENAI_API_KEY" ELSE "missing"]
    BY <2>1, <2>2 DEF from_model
  <2> QED
    BY <1>3, <2>1, <2>3 DEF KeyedClients, Kinds, EnvVars
<1>4. CASE m = "qwen-"
  <2>1. metadata_for_model(m) = [provider |-> "OpenAi", auth_env |-> "DASHSCOPE_API_KEY"]
    BY <1>4 DEF metadata_for_model
  <2>2. kind = "OpenAi"
    BY <2>1 DEF detect_provider_kind
  <2>3. c = [model |-> m, kind |-> "OpenAi", key |-> IF "DASHSCOPE_API_KEY" \in e THEN "DASHSCOPE_API_KEY" ELSE "missing"]
    BY <2>1, <2>2 DEF from_model
  <2> QED
    BY <1>4, <2>1, <2>3 DEF KeyedClients, Kinds, EnvVars
<1>5. CASE m = "local"
  <2>1. metadata_for_model(m) = [provider |-> "none", auth_env |-> "none"]
    BY <1>5 DEF metadata_for_model
  <2>2. /\ kind \in Kinds
        /\ kind = "Anthropic" =>
             has_auth_from_env_or_saved(e) \/ ("OPENAI_API_KEY" \notin e /\ "XAI_API_KEY" \notin e)
        /\ kind = "Xai" => "XAI_API_KEY" \in e
        /\ kind = "OpenAi" => "OPENAI_API_KEY" \in e
             \/ (~has_auth_from_env_or_saved(e) /\ "OPENAI_API_KEY" \notin e /\ "XAI_API_KEY" \notin e)
    <3>1. CASE {"OPENAI_BASE_URL", "OPENAI_API_KEY"} \subseteq e
      BY <2>1, <3>1 DEF detect_provider_kind, Kinds
    <3>2. CASE ~({"OPENAI_BASE_URL", "OPENAI_API_KEY"} \subseteq e) /\ has_auth_from_env_or_saved(e)
      BY <2>1, <3>2 DEF detect_provider_kind, Kinds
    <3>3. CASE ~({"OPENAI_BASE_URL", "OPENAI_API_KEY"} \subseteq e) /\ ~has_auth_from_env_or_saved(e)
      BY <2>1, <3>3 DEF detect_provider_kind, Kinds
    <3> QED
      BY <3>1, <3>2, <3>3
  <2>3. c = [model |-> m, kind |-> kind,
             key |-> IF kind = "Anthropic" THEN IF has_auth_from_env_or_saved(e) THEN "ANTHROPIC_API_KEY" ELSE "missing"
                     ELSE IF kind = "Xai" THEN IF "XAI_API_KEY" \in e THEN "XAI_API_KEY" ELSE "missing"
                     ELSE IF "OPENAI_API_KEY" \in e THEN "OPENAI_API_KEY" ELSE "missing"]
    BY <2>1, <2>2 DEF from_model, Kinds
  <2> HIDE DEF kind
  <2>4. c.key # "missing" => c \in KeyedClients
    BY <1>5, <2>1, <2>2, <2>3 DEF KeyedClients, Kinds, EnvVars
  <2>5. c.key = "missing" =>
          ~has_auth_from_env_or_saved(e) /\ "OPENAI_API_KEY" \notin e /\ "XAI_API_KEY" \notin e
    BY <2>2, <2>3 DEF Kinds
  <2> QED
    BY <1>5, <2>4, <2>5 DEF has_auth_from_env_or_saved
<1> QED
  BY <1>1, <1>2, <1>3, <1>4, <1>5 DEF ModelNames

\* One more request comes last.
LEMMA OneMoreRequest ==
  ASSUME NEW a, a \in Seq(AskedRequests), NEW r \in AskedRequests, NEW b, b = Append(a, r)
  PROVE  /\ b \in Seq(AskedRequests) /\ Len(b) = Len(a) + 1 /\ b[Len(b)] = r
         /\ Len(a) \in Nat /\ Len(b) \in DOMAIN b
         /\ \A n \in DOMAIN b : n \in DOMAIN a \/ n = Len(b)
         /\ \A n \in DOMAIN a : n \in DOMAIN b /\ n < Len(b) /\ b[n] = a[n]
<1>1. /\ b \in Seq(AskedRequests) /\ Len(b) = Len(a) + 1 /\ b[Len(b)] = r
      /\ Len(a) \in Nat /\ DOMAIN a = 1 .. Len(a) /\ DOMAIN b = 1 .. Len(b)
      /\ \A n \in 1 .. Len(a) : b[n] = a[n]
  OBVIOUS
<1> QED
  BY <1>1

\* It joins those of its provider and form.
JoinsItsOwn(a, r, i, f) ==
  /\ Cardinality(RequestsIn(a, i, f)) \in Nat
  /\ ~(r.index = i /\ r.form = f) => RequestsIn(Append(a, r), i, f) = RequestsIn(a, i, f)
  /\ r.index = i /\ r.form = f =>
       Cardinality(RequestsIn(Append(a, r), i, f)) = Cardinality(RequestsIn(a, i, f)) + 1

LEMMA OneMoreCounted ==
  ASSUME NEW a, a \in Seq(AskedRequests), NEW r \in AskedRequests, NEW i \in Nat, NEW f \in Forms
  PROVE  JoinsItsOwn(a, r, i, f)
<1> DEFINE b == Append(a, r)
<1>1. /\ Len(b) = Len(a) + 1 /\ b[Len(b)] = r
      /\ Len(a) \in Nat /\ DOMAIN a = 1 .. Len(a) /\ DOMAIN b = 1 .. Len(b)
      /\ \A n \in 1 .. Len(a) : b[n] = a[n]
  OBVIOUS
<1> HIDE DEF b
<1>2. /\ Len(b) \in DOMAIN b /\ \A n \in DOMAIN b : n \in DOMAIN a \/ n = Len(b)
      /\ \A n \in DOMAIN a : n \in DOMAIN b /\ n < Len(b) /\ b[n] = a[n]
  BY <1>1
<1>3. IsFiniteSet(RequestsIn(a, i, f))
  <2>1. IsFiniteSet(1 .. Len(a))
    BY <1>1, FS_Interval
  <2>2. RequestsIn(a, i, f) \in SUBSET (1 .. Len(a))
    BY <1>1 DEF RequestsIn
  <2> QED
    BY <2>1, <2>2, FS_Subset
<1>4. Cardinality(RequestsIn(a, i, f)) \in Nat
  BY <1>3, FS_CardinalityType
<1>5. Len(b) \notin RequestsIn(a, i, f)
  BY <1>1 DEF RequestsIn
<1>6. CASE r.index = i /\ r.form = f
  <2>1. RequestsIn(b, i, f) = RequestsIn(a, i, f) \cup {Len(b)}
    <3>1. ASSUME NEW n PROVE n \in RequestsIn(b, i, f) <=> n \in RequestsIn(a, i, f) \/ n = Len(b)
      BY <1>1, <1>2, <1>6 DEF RequestsIn
    <3> QED
      BY <3>1
  <2>2. Cardinality(RequestsIn(a, i, f) \cup {Len(b)}) = Cardinality(RequestsIn(a, i, f)) + 1
    <3> DEFINE S == RequestsIn(a, i, f)
    <3>1. IsFiniteSet(S) /\ Len(b) \notin S
      BY <1>3, <1>5
    <3> HIDE DEF S
    <3>2. Cardinality(S \cup {Len(b)}) = Cardinality(S) + 1
      BY <3>1, FS_AddElement
    <3> QED
      BY <3>2 DEF S
  <2>3. Cardinality(RequestsIn(b, i, f)) = Cardinality(RequestsIn(a, i, f)) + 1
    BY <2>1, <2>2
  <2> QED
    BY <1>4, <1>6, <2>3 DEF JoinsItsOwn, b
<1>7. CASE ~(r.index = i /\ r.form = f)
  <2>1. RequestsIn(b, i, f) = RequestsIn(a, i, f)
    <3>1. ASSUME NEW n PROVE n \in RequestsIn(b, i, f) <=> n \in RequestsIn(a, i, f)
      BY <1>1, <1>2, <1>7 DEF RequestsIn
    <3> QED
      BY <3>1
  <2> QED
    BY <1>4, <1>7, <2>1 DEF JoinsItsOwn, b
<1> QED
  BY <1>6, <1>7

\* A request of the call under way keeps the books.
LEMMA RequestSent ==
  ASSUME ProviderIInv, call.pc = "send", NEW status \in {0, 200, 400, 401, 429}, Ask(status)
  PROVE  /\ UnderWay(call, asked) /\ AskedOK(asked')
         /\ Len(asked') \in DOMAIN asked'
         /\ asked'[Len(asked')] = [index |-> call.index, form |-> call.form, status |-> status]
         /\ \A n \in DOMAIN asked' :
              asked'[n].index <= call.index /\ (asked'[n].status \in {400, 401} => n = Len(asked'))
         /\ Cardinality(RequestsIn(asked', call.index, call.form)) = call.attempts + 1
         /\ call.form = "stream" => RequestsIn(asked', call.index, "plain") = {}
         /\ call.form = "plain" => \E k \in DOMAIN asked' : asked'[k] = StreamOpened(call.index)
<1> DEFINE r == [index |-> call.index, form |-> call.form, status |-> status]
<1>1. UnderWay(call, asked)
  BY DEF ProviderIInv, NoCallYet, CallEnded
<1>2. /\ call \in RunningCalls /\ call.index \in Nat /\ call.form \in Forms /\ call.attempts \in Nat
      /\ call.attempts <= MaxRetries
      /\ Cardinality(RequestsIn(asked, call.index, call.form)) = call.attempts
  BY <1>1 DEF UnderWay, RunningCalls
<1>3. r \in AskedRequests /\ r.index = call.index /\ r.form = call.form /\ r.status = status
  BY <1>2 DEF AskedRequests
<1>4. AskedOK(asked) /\ asked \in Seq(AskedRequests)
  BY DEF ProviderIInv, AskedOK
<1>5. PICK b : b = asked'
  OBVIOUS
<1>6. b = Append(asked, r)
  BY <1>5 DEF Ask
<1> HIDE DEF r
<1>7. /\ b \in Seq(AskedRequests) /\ Len(b) = Len(asked) + 1 /\ b[Len(b)] = r
      /\ Len(asked) \in Nat /\ Len(b) \in DOMAIN b
      /\ \A n \in DOMAIN b : n \in DOMAIN asked \/ n = Len(b)
      /\ \A n \in DOMAIN asked : n \in DOMAIN b /\ n < Len(b) /\ b[n] = asked[n]
  BY <1>3, <1>4, <1>6, OneMoreRequest
<1>8. ASSUME NEW i \in Nat, NEW f \in Forms
      PROVE  /\ Cardinality(RequestsIn(asked, i, f)) \in Nat
             /\ ~(r.index = i /\ r.form = f) => RequestsIn(b, i, f) = RequestsIn(asked, i, f)
             /\ r.index = i /\ r.form = f =>
                  Cardinality(RequestsIn(b, i, f)) = Cardinality(RequestsIn(asked, i, f)) + 1
  <2>1. JoinsItsOwn(asked, r, i, f)
    BY <1>3, <1>4, OneMoreCounted
  <2> QED
    BY <1>6, <2>1 DEF JoinsItsOwn
<1>9. Cardinality(RequestsIn(b, call.index, call.form)) = call.attempts + 1
  BY <1>2, <1>3, <1>8
<1>10. \A n \in DOMAIN b : b[n].index <= call.index /\ (b[n].status \in {400, 401} => n = Len(b))
  BY <1>1, <1>2, <1>3, <1>7 DEF UnderWay
<1>11. call.form = "stream" => RequestsIn(b, call.index, "plain") = {}
  BY <1>1, <1>2, <1>3, <1>8 DEF UnderWay, Forms
<1>12. call.form = "plain" => \E k \in DOMAIN asked : asked[k] = StreamOpened(call.index)
  BY <1>1 DEF UnderWay
<1>13. AskedOK(b)
  <2>1. ASSUME NEW i \in Nat, NEW f \in Forms
        PROVE  Cardinality(RequestsIn(b, i, f)) <= MaxRetries + 1
    <3>1. CASE r.index = i /\ r.form = f
      BY <1>2, <1>3, <1>9, <3>1, ProviderAssumption
    <3>2. CASE ~(r.index = i /\ r.form = f)
      BY <1>4, <1>8, <3>2 DEF AskedOK
    <3> QED
      BY <3>1, <3>2
  <2>2. ASSUME NEW n \in DOMAIN b, b[n].form = "plain"
        PROVE  \E k \in 1 .. (n - 1) : b[k] = StreamOpened(b[n].index)
    <3>1. DOMAIN asked = 1 .. Len(asked)
      BY <1>4
    <3>2. CASE n = Len(b)
      <4>1. PICK k \in DOMAIN asked : asked[k] = StreamOpened(call.index)
        BY <1>3, <1>7, <1>12, <2>2, <3>2
      <4>2. k \in 1 .. (n - 1) /\ b[k] = asked[k]
        BY <1>7, <3>1, <3>2, <4>1
      <4> QED
        BY <1>3, <1>7, <3>2, <4>1, <4>2
    <3>3. CASE n \in DOMAIN asked
      <4>1. b[n] = asked[n]
        BY <1>7, <3>3
      <4>2. PICK k \in 1 .. (n - 1) : asked[k] = StreamOpened(asked[n].index)
        BY <1>4, <2>2, <3>3, <4>1 DEF AskedOK
      <4>3. k \in DOMAIN asked
        BY <1>7, <3>1, <3>3, <4>2
      <4> QED
        BY <1>7, <4>1, <4>2, <4>3
    <3> QED
      BY <1>7, <3>2, <3>3
  <2>3. ASSUME NEW m \in DOMAIN b, NEW n \in DOMAIN b, m < n PROVE b[m].index <= b[n].index
    <3>1. DOMAIN b = 1 .. Len(b) /\ m # Len(b)
      BY <1>7, <2>3
    <3>2. CASE n = Len(b)
      BY <1>3, <1>7, <1>10, <3>2
    <3>3. CASE n # Len(b)
      BY <1>4, <1>7, <2>3, <3>1, <3>3 DEF AskedOK
    <3> QED
      BY <3>2, <3>3
  <2> QED
    BY <1>7, <2>1, <2>2, <2>3 DEF AskedOK
<1>14. call.form = "plain" => \E k \in DOMAIN b : b[k] = StreamOpened(call.index)
  BY <1>7, <1>12
<1> QED
  BY <1>1, <1>5, <1>7, <1>9, <1>10, <1>11, <1>13, <1>14 DEF r

\* A call starts with a provider that was not asked yet.
LEMMA StartsAfresh ==
  ASSUME NEW c \in RunningCalls, c.pc = "preflight", c.form = "stream", c.attempts = 0,
         c.events = NoEvents, NEW a, RequestsIn(a, c.index, "stream") = {},
         RequestsIn(a, c.index, "plain") = {},
         \A n \in DOMAIN a : a[n].index <= c.index /\ a[n].status \notin {400, 401}
  PROVE  UnderWay(c, a)
<1>1. Cardinality(RequestsIn(a, c.index, c.form)) = c.attempts /\ c.attempts <= MaxRetries
  BY FS_EmptySet, ProviderAssumption
<1> QED
  BY <1>1 DEF UnderWay

\* The chain is built of clients that have a key.
LEMMA ChainBuilt ==
  ASSUME ProviderIInv, call = NoCallYet, NEW m \in ModelNames, NEW fs \in SUBSET ModelNames,
         NEW e \in SUBSET EnvVars, new_with_fallback_config(m, fs, e)
  PROVE  ProviderIInv'
<1> DEFINE first == from_model(m, e)
           keyed == {r \in {from_model(f, e) : f \in fs} : r.key # "missing"}
<1>1. asked = <<>> /\ asked' = <<>>
  BY DEF ProviderIInv, NoCallYet, UnderWay, RunningCalls, Busy, CallEnded, new_with_fallback_config
<1>2. AskedOK(<<>>)
  BY <1>1 DEF ProviderIInv
<1>3. keyed \subseteq KeyedClients /\ (first.key # "missing" => first \in KeyedClients)
  <2>1. ASSUME NEW f \in fs, from_model(f, e).key # "missing" PROVE from_model(f, e) \in KeyedClients
    <3>1. f \in ModelNames
      OBVIOUS
    <3> QED
      BY <2>1, <3>1, FromModel
  <2> QED
    BY <2>1, FromModel
<1>4. Cardinality(keyed) \in Nat
  <2> DEFINE c(x) == from_model(x, e)
             S == (((({} \cup {c("claude-")}) \cup {c("grok-")}) \cup {c("gpt-")}) \cup {c("qwen-")}) \cup {c("local")}
  <2>1. keyed \subseteq S
    BY DEF ModelNames
  <2> HIDE DEF keyed, c
  <2>2. IsFiniteSet(S)
    <3>1. IsFiniteSet({} \cup {c("claude-")})
      BY FS_EmptySet, FS_AddElement
    <3>2. IsFiniteSet(({} \cup {c("claude-")}) \cup {c("grok-")})
      BY <3>1, FS_AddElement
    <3>3. IsFiniteSet((({} \cup {c("claude-")}) \cup {c("grok-")}) \cup {c("gpt-")})
      BY <3>2, FS_AddElement
    <3>4. IsFiniteSet(((({} \cup {c("claude-")}) \cup {c("grok-")}) \cup {c("gpt-")}) \cup {c("qwen-")})
      BY <3>3, FS_AddElement
    <3> QED
      BY <3>4, FS_AddElement
  <2> HIDE DEF S
  <2>3. IsFiniteSet(keyed)
    BY <2>1, <2>2, FS_Subset
  <2> QED
    BY <2>3, FS_CardinalityType
<1>5. /\ first.key = "missing" =>
           /\ call' = [pc |-> "failed", error |-> LocalError("missing_credentials"),
                       model |-> m, env |-> e] /\ chain' = <<>>
      /\ first.key # "missing" =>
           /\ \E order \in [1..Cardinality(keyed) -> keyed] : chain' = <<first>> \o order
           /\ call' = [pc |-> "preflight", index |-> 1, form |-> "stream", attempts |-> 0, events |-> NoEvents]
  BY DEF new_with_fallback_config
<1>6. first.key = "missing" =>
        IF m = "local"
        THEN e \cap {"ANTHROPIC_API_KEY", "ANTHROPIC_AUTH_TOKEN", "OPENAI_API_KEY", "XAI_API_KEY"} = {}
        ELSE metadata_for_model(m).auth_env \notin e
  BY FromModel
<1> HIDE DEF first, keyed
<1>7. CASE first.key = "missing"
  <2>1. /\ call' = [pc |-> "failed", error |-> LocalError("missing_credentials"), model |-> m, env |-> e]
        /\ chain' = <<>>
    BY <1>5, <1>7
  <2>2. ~LocalError("missing_credentials").context
    BY DEF LocalError
  <2>3. PICK c : c = call'
    OBVIOUS
  <2>4. /\ c.pc = "failed" /\ c.error = LocalError("missing_credentials") /\ c.model = m /\ c.env = e
    BY <2>1, <2>3
  <2>5. CallEnded(c, <<>>)
    BY <1>6, <1>7, <2>2, <2>4 DEF CallEnded
  <2> QED
    BY <1>1, <1>2, <2>1, <2>3, <2>5 DEF ProviderIInv
<1>8. CASE first.key # "missing"
  <2>1. PICK order \in [1..Cardinality(keyed) -> keyed] : chain' = <<first>> \o order
    BY <1>5, <1>8
  <2>2. order \in Seq(KeyedClients)
    <3>1. order \in [1..Cardinality(keyed) -> KeyedClients]
      BY <1>3
    <3> QED
      BY <1>4, <3>1
  <2>3. chain' \in Seq(KeyedClients) /\ Len(chain') >= 1
    BY <1>3, <1>8, <2>1, <2>2
  <2>4. call' = [pc |-> "preflight", index |-> 1, form |-> "stream", attempts |-> 0, events |-> NoEvents]
    BY <1>5, <1>8
  <2>5. call' \in RunningCalls /\ call'.index = 1
    BY <2>4 DEF RunningCalls, Busy, Forms, NoEvents
  <2>6. RequestsIn(<<>>, 1, "stream") = {} /\ RequestsIn(<<>>, 1, "plain") = {}
    BY DEF RequestsIn
  <2>7. PICK c : c = call'
    OBVIOUS
  <2>8. /\ c \in RunningCalls /\ c.pc = "preflight" /\ c.form = "stream" /\ c.attempts = 0
        /\ c.events = NoEvents /\ c.index = 1
    BY <2>4, <2>5, <2>7
  <2>9. UnderWay(c, <<>>)
    BY <2>6, <2>8, StartsAfresh
  <2>10. call'.index \in 1 .. Len(chain')
    BY <2>3, <2>5
  <2> QED
    BY <1>1, <1>2, <2>3, <2>7, <2>9, <2>10 DEF ProviderIInv
<1> QED
  BY <1>7, <1>8

\* An error on the way: the next provider of the chain starts afresh, or the call ends.
LEMMA Failed ==
  ASSUME ProviderIInv, call \in RunningCalls, call.index \in 1 .. Len(chain),
         AskedOK(asked'), UNCHANGED chain,
         \A n \in DOMAIN asked' :
           asked'[n].index <= call.index /\ (asked'[n].status \in {400, 401} => n = Len(asked')),
         NEW e, FailWith(e), e.kind # "missing_credentials",
         e.context => safe_failure_class(e) = "context_window",
         is_retryable(e) => \A n \in DOMAIN asked' : asked'[n].status \notin {400, 401}
  PROVE  ProviderIInv'
<1>1. call.index \in Nat /\ Len(chain) \in Nat /\ chain' \in Seq(KeyedClients)
  BY DEF ProviderIInv, RunningCalls
<1>2. CASE is_retryable(e) /\ call.index + 1 <= Len(chain)
  <2>1. PICK one : one = [call EXCEPT !.pc = "preflight"]
    OBVIOUS
  <2>2. PICK two : two = [one EXCEPT !.index = call.index + 1]
    BY ZenonT(30)
  <2>3. PICK three : three = [two EXCEPT !.form = "stream"]
    OBVIOUS
  <2>4. PICK four : four = [three EXCEPT !.attempts = 0]
    OBVIOUS
  <2>5. PICK c : c = [four EXCEPT !.events = NoEvents]
    OBVIOUS
  <2>6. /\ c \in RunningCalls /\ c.pc = "preflight" /\ c.index = call.index + 1
        /\ c.form = "stream" /\ c.attempts = 0 /\ c.events = NoEvents
    <3>1. one \in RunningCalls /\ one.pc = "preflight" /\ one.index = call.index
      BY <2>1 DEF RunningCalls, Busy
    <3>2. two \in RunningCalls /\ two.pc = "preflight" /\ two.index = call.index + 1
      BY <1>1, <2>2, <3>1, SMTT(30) DEF RunningCalls
    <3>3. /\ three \in RunningCalls /\ three.pc = "preflight" /\ three.index = call.index + 1
          /\ three.form = "stream"
      BY <2>3, <3>2 DEF RunningCalls, Forms
    <3>4. /\ four \in RunningCalls /\ four.pc = "preflight" /\ four.index = call.index + 1
          /\ four.form = "stream" /\ four.attempts = 0
      BY <2>4, <3>3 DEF RunningCalls
    <3>5. NoEvents \in [text : SUBSET Nat, tools : SUBSET Nat, pending : SUBSET Nat, stop : BOOLEAN]
      BY DEF NoEvents
    <3> QED
      BY <2>5, <3>4, <3>5 DEF RunningCalls
  <2>7. call' = c
    BY <1>2, <2>1, <2>2, <2>3, <2>4, <2>5 DEF FailWith, RunningCalls
  <2>8. \A f : RequestsIn(asked', call.index + 1, f) = {}
    <3>1. asked' \in Seq(AskedRequests)
      BY DEF AskedOK
    <3>2. \A n \in DOMAIN asked' : asked'[n].index # call.index + 1
      <4> SUFFICES ASSUME NEW n \in DOMAIN asked' PROVE asked'[n].index # call.index + 1
        OBVIOUS
      <4>1. asked'[n] \in AskedRequests
        BY <3>1
      <4>2. asked'[n].index \in Nat /\ asked'[n].index <= call.index
        BY <4>1 DEF AskedRequests
      <4> QED
        BY <1>1, <4>2
    <3> QED
      BY <3>2 DEF RequestsIn
  <2>9. \A n \in DOMAIN asked' : asked'[n].index <= c.index /\ asked'[n].status \notin {400, 401}
    <3> SUFFICES ASSUME NEW n \in DOMAIN asked' PROVE asked'[n].index <= c.index
      BY <1>2
    <3>1. asked'[n] \in AskedRequests
      BY DEF AskedOK
    <3>2. asked'[n].index \in Nat /\ asked'[n].index <= call.index
      BY <3>1 DEF AskedRequests
    <3> QED
      BY <1>1, <2>6, <3>2
  <2>10. c.index \in 1 .. Len(chain)
    BY <1>1, <1>2, <2>6
  <2>11. UnderWay(c, asked')
    BY <2>6, <2>8, <2>9, StartsAfresh
  <2> QED
    BY <1>1, <2>7, <2>10, <2>11 DEF ProviderIInv
<1>3. CASE ~(is_retryable(e) /\ call.index + 1 <= Len(chain))
  <2>1. call' = [pc |-> "failed", error |-> e, model |-> chain[1].model, env |-> {}]
    BY <1>3 DEF FailWith
  <2>2. CallEnded(call', asked')
    BY <2>1 DEF CallEnded
  <2> QED
    BY <1>1, <2>2 DEF ProviderIInv
<1> QED
  BY <1>2, <1>3

LEMMA CallRuns ==
  ASSUME ProviderIInv, call.pc \in Busy
  PROVE  /\ UnderWay(call, asked) /\ call \in RunningCalls /\ call.index \in 1 .. Len(chain)
         /\ chain \in Seq(KeyedClients) /\ AskedOK(asked)
         /\ \A n \in DOMAIN asked : asked[n].index <= call.index /\ asked[n].status \notin {400, 401}
<1>1. call # NoCallYet /\ ~CallEnded(call, asked)
  BY DEF NoCallYet, CallEnded, Busy
<1>2. UnderWay(call, asked) /\ call.index \in 1 .. Len(chain)
  BY <1>1 DEF ProviderIInv
<1> QED
  BY <1>2 DEF ProviderIInv, UnderWay

\* An error noticed here, or one that ends a stream: nothing more was asked.
LEMMA FailedHere ==
  ASSUME ProviderIInv, call.pc \in Busy, UNCHANGED <<chain, asked>>, NEW e, FailWith(e),
         e.kind # "missing_credentials", e.context => safe_failure_class(e) = "context_window"
  PROVE  ProviderIInv'
<1>1. /\ call \in RunningCalls /\ call.index \in 1 .. Len(chain) /\ AskedOK(asked)
      /\ \A n \in DOMAIN asked : asked[n].index <= call.index /\ asked[n].status \notin {400, 401}
  BY CallRuns
<1>2. asked' = asked /\ UNCHANGED chain
  OBVIOUS
<1>3. AskedOK(asked')
  BY <1>1, <1>2
<1>4. \A n \in DOMAIN asked' : asked'[n].index <= call.index /\ asked'[n].status \notin {400, 401}
  BY <1>1, <1>2
<1> QED
  BY <1>1, <1>2, <1>3, <1>4, Failed

LEMMA PreflightStep ==
  ASSUME ProviderIInv, NEW fits \in BOOLEAN, preflight_message_request(fits) PROVE ProviderIInv'
<1>1. call.pc = "preflight" /\ UNCHANGED <<chain, asked>>
  BY DEF preflight_message_request
<1>2. CASE fits
  <2>1. PICK c : c = [call EXCEPT !.pc = "send"]
    OBVIOUS
  <2>2. /\ UnderWay(call, asked) /\ call \in RunningCalls /\ call.index \in 1 .. Len(chain)
        /\ chain \in Seq(KeyedClients) /\ AskedOK(asked)
    BY <1>1, CallRuns DEF Busy
  <2>3. /\ c \in RunningCalls /\ c.pc = "send" /\ c.index = call.index /\ c.form = call.form
        /\ c.attempts = call.attempts /\ c.events = call.events
    BY <2>1, <2>2 DEF RunningCalls, Busy
  <2>4. UnderWay(c, asked)
    BY <1>1, <2>2, <2>3 DEF UnderWay
  <2>5. call' = c
    BY <1>2, <2>1 DEF preflight_message_request
  <2> QED
    BY <1>1, <2>2, <2>3, <2>4, <2>5 DEF ProviderIInv
<1>3. CASE ~fits
  <2> DEFINE e == LocalError("context_window_exceeded")
  <2>1. e.kind # "missing_credentials" /\ (e.context => safe_failure_class(e) = "context_window")
    BY DEF LocalError, safe_failure_class, is_context_window_failure
  <2>2. FailWith(e) /\ call.pc \in Busy
    BY <1>1, <1>3 DEF preflight_message_request, Busy
  <2> HIDE DEF e
  <2> QED
    BY <1>1, <2>1, <2>2, FailedHere
<1> QED
  BY <1>2, <1>3

LEMMA BodyTooLarge == ASSUME ProviderIInv, check_request_body_size PROVE ProviderIInv'
<1> DEFINE e == LocalError("request_size")
<1>1. e.kind # "missing_credentials" /\ (e.context => safe_failure_class(e) = "context_window")
  BY DEF LocalError
<1>2. call.pc \in Busy /\ UNCHANGED <<chain, asked>> /\ FailWith(e)
  BY DEF check_request_body_size, Busy
<1> HIDE DEF e
<1> QED
  BY <1>1, <1>2, FailedHere

LEMMA SucceedsStep == ASSUME ProviderIInv, SendSucceeds PROVE ProviderIInv'
<1>1. call.pc = "send" /\ Ask(200) /\ UNCHANGED chain
  BY DEF SendSucceeds
<1>2. PICK a : a = asked'
  OBVIOUS
<1>3. /\ UnderWay(call, asked) /\ AskedOK(a) /\ Len(a) \in DOMAIN a
      /\ a[Len(a)] = [index |-> call.index, form |-> call.form, status |-> 200]
      /\ \A n \in DOMAIN a : a[n].index <= call.index /\ (a[n].status \in {400, 401} => n = Len(a))
      /\ call.form = "stream" => RequestsIn(a, call.index, "plain") = {}
      /\ call.form = "plain" => \E k \in DOMAIN a : a[k] = StreamOpened(call.index)
  BY <1>1, <1>2, RequestSent
<1>4. PICK c : c = [call EXCEPT !.pc = IF call.form = "stream" THEN "reading" ELSE "answered"]
  OBVIOUS
<1>5. /\ call \in RunningCalls /\ call.index \in 1 .. Len(chain) /\ chain \in Seq(KeyedClients)
  BY <1>1, CallRuns DEF Busy
<1>6. /\ c \in RunningCalls /\ c.index = call.index /\ c.form = call.form /\ c.events = call.events
      /\ (c.form = "stream" /\ c.pc = "reading") \/ (c.form = "plain" /\ c.pc = "answered")
  <2>1. PICK to \in Busy : to = IF call.form = "stream" THEN "reading" ELSE "answered"
    BY DEF Busy
  <2>2. c = [call EXCEPT !.pc = to] /\ call.form \in Forms
    BY <1>4, <1>5, <2>1 DEF RunningCalls
  <2>3. /\ c \in RunningCalls /\ c.index = call.index /\ c.form = call.form /\ c.events = call.events
        /\ c.pc = to
    BY <1>5, <2>2 DEF RunningCalls
  <2> QED
    BY <2>1, <2>2, <2>3 DEF Forms
<1>7. \A n \in DOMAIN a : a[n].index <= c.index /\ a[n].status \notin {400, 401}
  BY <1>3, <1>6
<1>8. c.form = "stream" => c.events = NoEvents
  BY <1>1, <1>3, <1>6 DEF UnderWay
<1>9. UnderWay(c, a)
  BY <1>3, <1>6, <1>7, <1>8 DEF UnderWay, NoEvents
<1>10. call' = c
  BY <1>4 DEF SendSucceeds
<1> QED
  BY <1>1, <1>2, <1>3, <1>5, <1>6, <1>9, <1>10 DEF ProviderIInv

LEMMA FailsStep == ASSUME ProviderIInv, NEW e \in ApiErrors, SendFails(e) PROVE ProviderIInv'
<1>1. call.pc = "send" /\ Ask(e.status) /\ UNCHANGED chain
  BY DEF SendFails
<1>2. /\ e.status \in {0, 200, 400, 401, 429} /\ e.kind # "missing_credentials"
      /\ is_retryable(e) => e.status \notin {400, 401}
      /\ e.context => safe_failure_class(e) = "context_window"
  BY DEF ApiErrors, is_retryable, is_retryable_status, safe_failure_class, is_context_window_failure
<1>3. PICK a : a = asked'
  OBVIOUS
<1>4. /\ UnderWay(call, asked) /\ AskedOK(a) /\ Len(a) \in DOMAIN a
      /\ a[Len(a)] = [index |-> call.index, form |-> call.form, status |-> e.status]
      /\ \A n \in DOMAIN a : a[n].index <= call.index /\ (a[n].status \in {400, 401} => n = Len(a))
      /\ Cardinality(RequestsIn(a, call.index, call.form)) = call.attempts + 1
      /\ call.form = "stream" => RequestsIn(a, call.index, "plain") = {}
      /\ call.form = "plain" => \E k \in DOMAIN a : a[k] = StreamOpened(call.index)
  BY <1>1, <1>2, <1>3, RequestSent
<1>5. /\ call \in RunningCalls /\ call.index \in 1 .. Len(chain) /\ chain \in Seq(KeyedClients)
  BY <1>1, CallRuns DEF Busy
<1>6. is_retryable(e) => \A n \in DOMAIN a : a[n].status \notin {400, 401}
  BY <1>2, <1>4
<1>7. CASE FailWith(e)
  BY <1>1, <1>2, <1>3, <1>4, <1>5, <1>6, <1>7, Failed
<1>8. CASE is_retryable(e) /\ FailWith(LocalError("backoff_overflow"))
  <2> DEFINE f == LocalError("backoff_overflow")
  <2>1. \A n \in DOMAIN a : a[n].status \notin {400, 401}
    BY <1>6, <1>8
  <2>2. f.kind # "missing_credentials" /\ (f.context => safe_failure_class(f) = "context_window")
    BY DEF LocalError
  <2>3. FailWith(f)
    BY <1>8
  <2> HIDE DEF f
  <2> QED
    BY <1>1, <1>3, <1>4, <1>5, <2>1, <2>2, <2>3, Failed
<1>9. CASE /\ is_retryable(e) /\ call.attempts + 1 <= MaxRetries
           /\ call' = [call EXCEPT !.attempts = call.attempts + 1, !.pc = "send"]
  <2>1. PICK one : one = [call EXCEPT !.attempts = call.attempts + 1]
    OBVIOUS
  <2>2. PICK c : c = [one EXCEPT !.pc = "send"]
    OBVIOUS
  <2>3. /\ one \in RunningCalls /\ one.index = call.index /\ one.form = call.form
        /\ one.attempts = call.attempts + 1 /\ one.events = call.events
    BY <1>5, <2>1 DEF RunningCalls
  <2>4. /\ c \in RunningCalls /\ c.pc = "send" /\ c.index = call.index /\ c.form = call.form
        /\ c.attempts = call.attempts + 1 /\ c.events = call.events
    BY <2>2, <2>3 DEF RunningCalls, Busy
  <2>5. \A n \in DOMAIN a : a[n].index <= c.index /\ a[n].status \notin {400, 401}
    BY <1>4, <1>6, <1>9, <2>4
  <2>6. c.form = "stream" => c.events = NoEvents
    BY <1>1, <1>4, <2>4 DEF UnderWay
  <2>7. Cardinality(RequestsIn(a, c.index, c.form)) = c.attempts /\ c.attempts <= MaxRetries
    BY <1>4, <1>9, <2>4
  <2>8. UnderWay(c, a)
    BY <1>4, <2>4, <2>5, <2>6, <2>7 DEF UnderWay
  <2>9. call' = c
    BY <1>5, <1>9, <2>1, <2>2 DEF RunningCalls
  <2> QED
    BY <1>1, <1>3, <1>4, <1>5, <2>4, <2>8, <2>9 DEF ProviderIInv
<1> QED
  BY <1>7, <1>8, <1>9 DEF SendFails

\* A stream is read on: what is collected is of the answer that is read.
LEMMA ReadOn ==
  ASSUME ProviderIInv, call.pc = "reading", UNCHANGED <<chain, asked>>,
         NEW v \in [text : SUBSET Nat, tools : SUBSET Nat, pending : SUBSET Nat, stop : BOOLEAN],
         v.text \cup v.tools \cup v.pending \subseteq {Len(asked)},
         NEW c, c = [call EXCEPT !.events = v], call' = c
  PROVE  ProviderIInv'
<1>1. /\ UnderWay(call, asked) /\ call \in RunningCalls /\ call.index \in 1 .. Len(chain)
      /\ chain \in Seq(KeyedClients) /\ AskedOK(asked)
  BY CallRuns DEF Busy
<1>2. /\ c \in RunningCalls /\ c.pc = "reading" /\ c.index = call.index /\ c.form = call.form
      /\ c.attempts = call.attempts /\ c.events = v
  BY <1>1 DEF RunningCalls
<1>3. UnderWay(c, asked)
  BY <1>1, <1>2 DEF UnderWay
<1>4. asked' = asked /\ chain' = chain
  OBVIOUS
<1> QED
  BY <1>1, <1>2, <1>3, <1>4 DEF ProviderIInv

LEMMA ReadSteps ==
  ASSUME ProviderIInv, ReadText \/ ReadToolStart \/ ReadToolStop \/ ReadMessageStop
  PROVE  ProviderIInv'
<1> DEFINE Vs == [text : SUBSET Nat, tools : SUBSET Nat, pending : SUBSET Nat, stop : BOOLEAN]
           v == call.events
<1>1. call.pc = "reading" /\ UNCHANGED <<chain, asked>>
  BY DEF ReadText, ReadToolStart, ReadToolStop, ReadMessageStop
<1>2. /\ call \in RunningCalls /\ v \in Vs /\ v.text \cup v.tools \cup v.pending \subseteq {Len(asked)}
      /\ Len(asked) \in Nat
  <2>1. /\ UnderWay(call, asked) /\ call \in RunningCalls /\ AskedOK(asked)
    BY <1>1, CallRuns DEF Busy
  <2> QED
    BY <1>1, <2>1 DEF UnderWay, RunningCalls, AskedOK
<1>3. CASE ReadText
  <2>1. PICK w : w = [v EXCEPT !.text = v.text \cup {Len(asked)}]
    OBVIOUS
  <2>2. w \in Vs /\ w.text \cup w.tools \cup w.pending \subseteq {Len(asked)}
    BY <1>2, <2>1
  <2>3. call' = [call EXCEPT !.events = w]
    BY <1>2, <1>3, <2>1 DEF ReadText, Collect, RunningCalls, ThisAnswer
  <2> QED
    BY <1>1, <2>2, <2>3, ReadOn
<1>4. CASE ReadToolStart
  <2>1. PICK w : w = [v EXCEPT !.pending = v.pending \cup {Len(asked)}]
    OBVIOUS
  <2>2. w \in Vs /\ w.text \cup w.tools \cup w.pending \subseteq {Len(asked)}
    BY <1>2, <2>1
  <2>3. call' = [call EXCEPT !.events = w]
    BY <1>2, <1>4, <2>1 DEF ReadToolStart, Collect, RunningCalls, ThisAnswer
  <2> QED
    BY <1>1, <2>2, <2>3, ReadOn
<1>5. CASE ReadToolStop
  <2>1. PICK one : one = [v EXCEPT !.tools = v.tools \cup v.pending]
    OBVIOUS
  <2>2. PICK w : w = [one EXCEPT !.pending = {}]
    OBVIOUS
  <2>3. one \in Vs /\ one.text = v.text /\ one.tools = v.tools \cup v.pending
    BY <1>2, <2>1
  <2>4. w \in Vs /\ w.text = v.text /\ w.tools = v.tools \cup v.pending /\ w.pending = {}
    BY <2>2, <2>3
  <2>5. w.text \cup w.tools \cup w.pending \subseteq {Len(asked)}
    BY <1>2, <2>4
  <2>6. call' = [call EXCEPT !.events = w]
    BY <1>2, <1>5, <2>1, <2>2 DEF ReadToolStop, RunningCalls
  <2> QED
    BY <1>1, <2>4, <2>5, <2>6, ReadOn
<1>6. CASE ReadMessageStop
  <2>1. PICK w : w = [v EXCEPT !.stop = TRUE]
    OBVIOUS
  <2>2. w \in Vs /\ w.text \cup w.tools \cup w.pending \subseteq {Len(asked)}
    BY <1>2, <2>1
  <2>3. call' = [call EXCEPT !.events = w]
    BY <1>2, <1>6, <2>1 DEF ReadMessageStop, RunningCalls
  <2> QED
    BY <1>1, <2>2, <2>3, ReadOn
<1> QED
  BY <1>3, <1>4, <1>5, <1>6

LEMMA BreaksStep ==
  ASSUME ProviderIInv, NEW e \in {LocalError("http"), LocalError("http_body"), LocalError("json")},
         ReadBreaks(e)
  PROVE  ProviderIInv'
<1>1. call.pc \in Busy /\ UNCHANGED <<chain, asked>> /\ FailWith(e)
  BY DEF ReadBreaks, Busy
<1>2. e.kind # "missing_credentials" /\ ~e.context
  <2>1. PICK k \in {"http", "http_body", "json", "api"} : e = LocalError(k)
    OBVIOUS
  <2>2. e.kind = k /\ e.context = (k = "context_window_exceeded")
    BY <2>1 DEF LocalError
  <2> QED
    BY <2>2
<1> QED
  BY <1>1, <1>2, FailedHere

LEMMA PlainFailsStep ==
  ASSUME ProviderIInv, NEW e \in {LocalError("api"), LocalError("json")}, ReadPlainFails(e)
  PROVE  ProviderIInv'
<1>1. call.pc \in Busy /\ UNCHANGED <<chain, asked>> /\ FailWith(e)
  BY DEF ReadPlainFails, Busy
<1>2. e.kind # "missing_credentials" /\ ~e.context
  <2>1. PICK k \in {"http", "http_body", "json", "api"} : e = LocalError(k)
    OBVIOUS
  <2>2. e.kind = k /\ e.context = (k = "context_window_exceeded")
    BY <2>1 DEF LocalError
  <2> QED
    BY <2>2
<1> QED
  BY <1>1, <1>2, FailedHere

\* A call that is done returns what was read of the last answer.
LEMMA CallDone ==
  ASSUME ProviderIInv, call.pc \in {"reading", "answered"}, UNCHANGED <<chain, asked>>,
         call'.pc = "done", call'.events.text \cup call'.events.tools \subseteq {Len(asked)}
  PROVE  ProviderIInv'
<1>1. /\ UnderWay(call, asked) /\ chain \in Seq(KeyedClients) /\ AskedOK(asked)
      /\ \A n \in DOMAIN asked : asked[n].status \notin {400, 401}
  BY CallRuns DEF Busy
<1>2. asked[Len(asked)].status = 200
  BY <1>1 DEF UnderWay
<1>3. CallEnded(call', asked)
  BY <1>1, <1>2 DEF CallEnded
<1>4. asked' = asked /\ chain' = chain
  OBVIOUS
<1> QED
  BY <1>1, <1>3, <1>4 DEF ProviderIInv

LEMMA EndsStep == ASSUME ProviderIInv, ReadEnds PROVE ProviderIInv'
<1> DEFINE seen == call.events.text # {} \/ call.events.tools # {}
<1>1. call.pc = "reading" /\ UNCHANGED <<chain, asked>>
  BY DEF ReadEnds
<1>2. /\ UnderWay(call, asked) /\ call \in RunningCalls /\ call.index \in 1 .. Len(chain)
      /\ chain \in Seq(KeyedClients) /\ AskedOK(asked)
  BY <1>1, CallRuns DEF Busy
<1>3. CASE call.events.stop \/ seen
  <2>1. call' = [pc |-> "done", index |-> call.index, events |-> [call.events EXCEPT !.stop = TRUE],
                 told |-> call.events.stop]
    BY <1>3 DEF ReadEnds
  <2>2. PICK w : w = [call.events EXCEPT !.stop = TRUE]
    OBVIOUS
  <2>3. w.text = call.events.text /\ w.tools = call.events.tools
    BY <1>2, <2>2 DEF RunningCalls
  <2>4. w.text \cup w.tools \subseteq {Len(asked)}
    BY <1>1, <1>2, <2>3 DEF UnderWay
  <2>5. call'.pc = "done" /\ call'.events = w
    BY <2>1, <2>2
  <2> QED
    BY <1>1, <2>4, <2>5, CallDone
<1>4. CASE ~(call.events.stop \/ seen)
  <2>1. call' = [call EXCEPT !.pc = "preflight", !.form = "plain", !.attempts = 0]
    BY <1>4 DEF ReadEnds
  <2>2. PICK one : one = [call EXCEPT !.pc = "preflight"]
    OBVIOUS
  <2>3. PICK two : two = [one EXCEPT !.form = "plain"]
    OBVIOUS
  <2>4. PICK c : c = [two EXCEPT !.attempts = 0]
    OBVIOUS
  <2>5. call' = c
    BY <1>2, <2>1, <2>2, <2>3, <2>4 DEF RunningCalls
  <2>6. one \in RunningCalls /\ one.pc = "preflight" /\ one.index = call.index
    BY <1>2, <2>2 DEF RunningCalls, Busy
  <2>7. two \in RunningCalls /\ two.pc = "preflight" /\ two.index = call.index /\ two.form = "plain"
    BY <2>3, <2>6 DEF RunningCalls, Forms
  <2>8. /\ c \in RunningCalls /\ c.pc = "preflight" /\ c.index = call.index /\ c.form = "plain"
        /\ c.attempts = 0
    BY <2>4, <2>7 DEF RunningCalls
  <2>9. /\ RequestsIn(asked, call.index, "plain") = {}
        /\ Len(asked) \in DOMAIN asked /\ asked[Len(asked)] = StreamOpened(call.index)
        /\ \A n \in DOMAIN asked : asked[n].index <= call.index /\ asked[n].status \notin {400, 401}
    BY <1>1, <1>2 DEF UnderWay, StreamOpened
  <2>10. Cardinality(RequestsIn(asked, c.index, c.form)) = c.attempts /\ c.attempts <= MaxRetries
    <3>1. RequestsIn(asked, c.index, c.form) = {}
      BY <2>8, <2>9
    <3>2. Cardinality({}) = 0 /\ 0 <= MaxRetries
      BY FS_EmptySet, ProviderAssumption
    <3> QED
      BY <2>8, <3>1, <3>2
  <2>11. UnderWay(c, asked)
    BY <2>8, <2>9, <2>10 DEF UnderWay
  <2> QED
    BY <1>1, <1>2, <2>5, <2>8, <2>11 DEF ProviderIInv
<1> QED
  BY <1>3, <1>4

LEMMA PlainAnswerStep ==
  ASSUME ProviderIInv, NEW t \in BOOLEAN, NEW u \in BOOLEAN, ReadPlainAnswer(t, u)
  PROVE  ProviderIInv'
<1>1. /\ call.pc = "answered" /\ UNCHANGED <<chain, asked>> /\ call'.pc = "done"
      /\ call'.events.text \cup call'.events.tools \subseteq {Len(asked)}
  BY DEF ReadPlainAnswer, ThisAnswer
<1> QED
  BY <1>1, CallDone

LEMMA ProviderStep == ASSUME ProviderIInv, ProviderNext PROVE ProviderIInv'
<1>1. ASSUME NEW m \in ModelNames, NEW fs \in SUBSET ModelNames, NEW e \in SUBSET EnvVars,
             call = NoCallYet, new_with_fallback_config(m, fs, e)
      PROVE  ProviderIInv'
  BY <1>1, ChainBuilt
<1>2. ASSUME NEW b \in BOOLEAN, preflight_message_request(b) PROVE ProviderIInv'
  BY <1>2, PreflightStep
<1>3. ASSUME NEW e \in ApiErrors, SendFails(e) PROVE ProviderIInv'
  BY <1>3, FailsStep
<1>4. ASSUME NEW e \in {LocalError("http"), LocalError("http_body"), LocalError("json")}, ReadBreaks(e)
      PROVE  ProviderIInv'
  BY <1>4, BreaksStep
<1>5. ASSUME NEW t \in BOOLEAN, NEW u \in BOOLEAN, ReadPlainAnswer(t, u) PROVE ProviderIInv'
  BY <1>5, PlainAnswerStep
<1>6. ASSUME NEW e \in {LocalError("api"), LocalError("json")}, ReadPlainFails(e) PROVE ProviderIInv'
  BY <1>6, PlainFailsStep
<1> QED
  BY <1>1, <1>2, <1>3, <1>4, <1>5, <1>6, BodyTooLarge, SucceedsStep, ReadSteps, EndsStep, Zenon
     DEF ProviderNext

LEMMA ProviderIInvIsEnough == ASSUME ProviderIInv PROVE ProviderCallsSound
<1>1. chain \in Seq(KeyedClients) /\ AskedOK(asked) /\ asked \in Seq(AskedRequests)
  BY DEF ProviderIInv, AskedOK
<1>2. RequestsAreBounded
  <2>1. ASSUME NEW i \in DOMAIN chain, NEW f \in {"stream", "plain"}
        PROVE  Cardinality(Requests(i, f)) <= MaxRetries + 1
    <3>1. i \in Nat /\ f \in Forms
      BY <1>1 DEF Forms
    <3>2. Requests(i, f) = RequestsIn(asked, i, f)
      BY DEF Requests, RequestsIn
    <3> QED
      BY <1>1, <3>1, <3>2 DEF AskedOK
  <2>2. ASSUME NEW n \in DOMAIN asked, asked[n].form = "plain"
        PROVE  \E k \in 1 .. (n - 1) : asked[k] = [asked[n] EXCEPT !.form = "stream", !.status = 200]
    <3>1. asked[n] \in AskedRequests
      BY <1>1
    <3>2. StreamOpened(asked[n].index) = [asked[n] EXCEPT !.form = "stream", !.status = 200]
      <4>1. PICK r \in AskedRequests : r = asked[n]
        BY <3>1
      <4>2. PICK one : one = [r EXCEPT !.form = "stream"]
        OBVIOUS
      <4>3. one = [index |-> r.index, form |-> "stream", status |-> r.status]
        BY <4>2 DEF AskedRequests
      <4>4. [one EXCEPT !.status = 200] = StreamOpened(r.index)
        BY <4>3 DEF StreamOpened
      <4> QED
        BY <4>1, <4>2, <4>4
    <3> QED
      BY <1>1, <2>2, <3>2 DEF AskedOK
  <2> QED
    BY <1>1, <2>1, <2>2 DEF RequestsAreBounded, AskedOK
<1>3. OneAnswer /\ FailsOnlyWithoutKey /\ TooLongIsTold
  BY DEF ProviderIInv, UnderWay, RunningCalls, Busy, CallEnded, NoCallYet, OneAnswer,
         FailsOnlyWithoutKey, TooLongIsTold
<1>4. RefusalsAreFinal
  BY DEF ProviderIInv, UnderWay, CallEnded, RefusalsAreFinal
<1>5. RoutedByName
  <2>1. ASSUME NEW i \in DOMAIN chain
        PROVE  /\ metadata_for_model(chain[i].model).provider # "none" =>
                    /\ chain[i].kind = metadata_for_model(chain[i].model).provider
                    /\ chain[i].key = metadata_for_model(chain[i].model).auth_env
               /\ chain[i].key # "missing"
    <3>1. chain[i] \in KeyedClients
      BY <1>1
    <3> QED
      BY <3>1 DEF KeyedClients, EnvVars
  <2> QED
    BY <2>1 DEF RoutedByName
<1> QED
  BY <1>2, <1>3, <1>4, <1>5 DEF ProviderCallsSound

\* A model call of a sub-agent, for any limit of retries and any backoff, whatever the
\* providers answer: each is sent its request and its retries at most, in the order of the
\* chain, a refusal ends the call, the answer is of one request, and the clients asked are
\* those the names mean, with their keys.
THEOREM RequestsStayBounded == PartSpec => []ProviderCallsChecked
<1>1. PartInit => ProviderIInv
  <2>1. ProviderInit => ProviderIInv
    <3> SUFFICES ASSUME ProviderInit PROVE ProviderIInv
      OBVIOUS
    <3>1. AskedOK(<<>>)
      <4>1. \A i, f : RequestsIn(<<>>, i, f) = {}
        BY DEF RequestsIn
      <4>2. Cardinality({}) <= MaxRetries + 1
        BY FS_EmptySet, ProviderAssumption
      <4> QED
        <5>1. <<>> \in Seq(AskedRequests) /\ DOMAIN <<>> = {}
          OBVIOUS
        <5>2. \A i, f : Cardinality(RequestsIn(<<>>, i, f)) <= MaxRetries + 1
          BY <4>1, <4>2
        <5> QED
          BY <5>1, <5>2, Zenon DEF AskedOK
    <3> QED
      BY <3>1 DEF ProviderInit, ProviderIInv
  <2> QED
    BY <2>1 DEF PartInit
<1>2. ProviderIInv /\ [PartNext]_partVars => ProviderIInv'
  <2> SUFFICES ASSUME ProviderIInv, [PartNext]_partVars PROVE ProviderIInv'
    OBVIOUS
  <2>1. ProviderNext \/ UNCHANGED callVars
    BY Zenon DEF PartNext, partVars
  <2>2. CASE UNCHANGED callVars
    BY <2>2 DEF callVars, ProviderIInv
  <2> QED
    BY <2>1, <2>2, ProviderStep
<1>3. ProviderIInv => ProviderCallsChecked
  BY ProviderIInvIsEnough DEF ProviderCallsChecked
<1> QED
  BY <1>1, <1>2, <1>3, PTL DEF PartSpec

-----------------------------------------------------------------------------
(* The MCP manager *)
McpMethods == {"none", "initialize", "tools/list", "tools/call", "resources/list", "resources/read"}
McpRequests == [id : Nat, method : McpMethods]
McpAnswers == [id : Nat, kind : AnswerKinds, tools : SUBSET RawTools]
McpProcesses == [n : Nat, inbox : Seq(McpRequests), outbox : Seq(McpAnswers)]
McpJobs == [kind : {"tools/list", "tools/call", "resources/list", "resources/read", "shutdown"},
            server : McpServers \cup {"none"}, tool : QualifiedNames \cup {<<>>}]
McpOps == [op : {"idle", "discover", "best_effort", "call", "list_all", "read", "bridge", "shutdown"},
           jobs : Seq(McpJobs), step : {"job", "ready", "wait", "send", "done"},
           server : McpServers \cup {"none"}, method : McpMethods, id : Nat,
           attempts : Nat, tries : Nat, spawns : Nat, calls : Nat, found : SUBSET RawTools]
McpCounts == [procs : Nat, ids : Nat, ops : Nat, faults : Nat]
McpReports == [made : BOOLEAN, working : SUBSET McpServers, failed : SUBSET McpServers,
               tools : SUBSET QualifiedNames]

\* The jobs of an operation are of its kind and name their servers; a best-effort
\* discovery lists each server once.
JobFits(op, job) ==
  /\ job.kind = "tools/list" => op \in {"discover", "best_effort", "bridge"}
  /\ op = "best_effort" => job.kind = "tools/list"
  /\ job.kind \notin {"tools/call", "shutdown"} => job.server \in McpServers
JobsInOrder(op, jobs) ==
  /\ (op = "idle") <=> (jobs = <<>>)
  /\ \A i \in 1 .. Len(jobs) : JobFits(op, jobs[i])
  /\ op = "best_effort" => \A i, j \in 1 .. Len(jobs) : i # j => jobs[i].server # jobs[j].server

\* What is asked is what the first job says.
JobUnderWay(o) ==
  o.step # "job" =>
    /\ o.op # "idle" /\ o.server \in McpServers
    /\ o.method = o.jobs[1].kind /\ o.method \notin {"none", "initialize", "shutdown"}
    /\ o.method # "tools/call" => o.server = o.jobs[1].server

\* A job spends at most one process on each handshake it may still fail; a call
\* counts from the moment it is written.
SpendingOK(o, ini) ==
  /\ o.attempts <= 1 /\ o.tries <= 1
  /\ o.step = "job" => o.spawns = 0 /\ o.calls = 0 /\ o.attempts = 0 /\ o.tries = 0
  /\ o.step = "ready" => o.spawns <= 2 * o.attempts + o.tries /\ o.calls = 0
  /\ o.step = "wait" /\ ~ini => o.spawns <= 2 * o.attempts + o.tries + 1 /\ o.calls = 0
  /\ o.step = "wait" /\ ini => /\ o.spawns <= 2 * o.attempts + 2 /\ o.calls <= 1
                              /\ (o.method # "tools/call" => o.calls = 0)
  /\ o.step = "send" => o.spawns <= 2 * o.attempts + 2 /\ o.calls = 0 /\ ini
  /\ o.step = "done" => o.spawns <= 2 * o.attempts + 2 /\ o.calls <= 1

\* Is the handshake made with the server in hand?
Shaken(o, ini) == o.server \in McpServers /\ ini[o.server]

McpOpOK(o, ini) ==
  /\ o \in McpOps /\ JobsInOrder(o.op, o.jobs) /\ JobUnderWay(o)
  /\ SpendingOK(o, ini)

\* Only a pipe on which an answer is awaited holds anything, and it holds one thing.
PipeOK(p, waiting) ==
  IF waiting THEN Len(p.inbox) + Len(p.outbox) = 1 ELSE p.inbox = <<>> /\ p.outbox = <<>>
WaitsFor(o, s) == o.step = "wait" /\ o.server = s
PipesOK(o, procs) == \A s \in McpServers : PipeOK(procs[s], WaitsFor(o, s))

ProcessesOK(procs, alive) ==
  /\ procs \in [McpServers -> McpProcesses] /\ 0 \notin alive
  /\ alive \subseteq {procs[s].n : s \in McpServers}

RoutesOK(index, listing) ==
  /\ listing \in [McpServers -> SUBSET RawTools]
  /\ \A q \in DOMAIN index : index[q].server \in McpServers /\ index[q].raw \in listing[index[q].server]

\* What was reported is routed to servers whose turn is over.
ReportOK(op, jobs, index, report) ==
  /\ report \in McpReports /\ report.tools \subseteq DOMAIN index
  /\ op \in {"discover", "bridge"} => report = NoReport
  /\ op = "best_effort" => \A q \in report.tools : \A i \in 1 .. Len(jobs) : index[q].server # jobs[i].server

McpIInv ==
  /\ initialized \in [McpServers -> BOOLEAN] /\ mcp_used \in McpCounts
  /\ ProcessesOK(mcp_process, mcp_alive)
  /\ McpOpOK(mcp_op, Shaken(mcp_op, initialized))
  /\ PipesOK(mcp_op, mcp_process)
  /\ RoutesOK(tool_index, last_listing)
  /\ ReportOK(mcp_op.op, mcp_op.jobs, tool_index, mcp_report)

LEMMA ServerNames ==
  /\ server_names \in Seq(McpServers) /\ Len(server_names) > 0
  /\ \A i, j \in 1 .. Len(server_names) : i # j => server_names[i] # server_names[j]
<1> DEFINE n == Cardinality(McpServers)
<1>1. n \in Nat /\ n > 0 /\ ExistsBijection(1 .. n, McpServers)
  <2>1. n \in Nat /\ ExistsBijection(1 .. n, McpServers)
    BY McpAssumption, FS_CardinalityType
  <2>2. n # 0
    BY McpAssumption, FS_EmptySet
  <2> QED
    BY <2>1, <2>2
<1>2. PICK f \in [1 .. n -> McpServers] : IsInjective(f)
  BY <1>1 DEF ExistsBijection, Bijection, Injection, Surjection
<1>3. server_names \in [1 .. n -> McpServers] /\ IsInjective(server_names)
  BY <1>2 DEF server_names, SetToSeq
<1> HIDE DEF n
<1>4. server_names \in Seq(McpServers) /\ Len(server_names) = n
  BY <1>1, <1>3
<1> QED
  BY <1>1, <1>3, <1>4 DEF IsInjective

LEMMA JobsForAll ==
  ASSUME NEW kind \in {"tools/list", "resources/list"}
  PROVE  /\ JobsFor(kind) \in Seq(McpJobs) /\ JobsFor(kind) # <<>>
         /\ \A i \in 1 .. Len(JobsFor(kind)) : JobsFor(kind)[i].kind = kind /\ JobsFor(kind)[i].server \in McpServers
         /\ \A i, j \in 1 .. Len(JobsFor(kind)) : i # j => JobsFor(kind)[i].server # JobsFor(kind)[j].server
<1> DEFINE n == Len(server_names)
           J(i) == [kind |-> kind, server |-> server_names[i], tool |-> <<>>]
<1>1. n \in Nat /\ n > 0 /\ \A i \in 1 .. n : server_names[i] \in McpServers
  BY ServerNames
<1>2. \A i \in 1 .. n : J(i) \in McpJobs /\ J(i).kind = kind /\ J(i).server = server_names[i]
  BY <1>1 DEF McpJobs
<1>3. JobsFor(kind) = [i \in 1 .. n |-> J(i)]
  BY DEF JobsFor
<1>4. \A i, j \in 1 .. n : i # j => server_names[i] # server_names[j]
  BY ServerNames
<1> HIDE DEF n, J
<1>5. JobsFor(kind) \in Seq(McpJobs) /\ Len(JobsFor(kind)) = n /\ \A i \in 1 .. n : JobsFor(kind)[i] = J(i)
  BY <1>1, <1>2, <1>3
<1> QED
  BY <1>1, <1>2, <1>4, <1>5

\* The first job is over: what is left of the jobs is still in order.
LEMMA OtherJobs ==
  ASSUME NEW op, NEW jobs \in Seq(McpJobs), JobsInOrder(op, jobs), jobs # <<>>
  PROVE  /\ Tail(jobs) \in Seq(McpJobs) /\ jobs[1] \in McpJobs /\ Head(jobs) = jobs[1]
         /\ \A i \in 1 .. Len(Tail(jobs)) : JobFits(op, Tail(jobs)[i])
         /\ JobFits(op, jobs[1])
         /\ op = "best_effort" =>
              /\ \A i, j \in 1 .. Len(Tail(jobs)) : i # j => Tail(jobs)[i].server # Tail(jobs)[j].server
              /\ \A i \in 1 .. Len(Tail(jobs)) : jobs[1].server # Tail(jobs)[i].server
<1> DEFINE r == Tail(jobs)
<1>1. /\ r \in Seq(McpJobs) /\ jobs[1] \in McpJobs /\ Head(jobs) = jobs[1] /\ Len(r) \in Nat
      /\ Len(jobs) = Len(r) + 1 /\ \A i \in 1 .. Len(r) : r[i] = jobs[i + 1]
  OBVIOUS
<1>2. 1 \in 1 .. Len(jobs) /\ \A i \in 1 .. Len(r) : i + 1 \in 1 .. Len(jobs) /\ i + 1 # 1
  BY <1>1
<1>3. \A i, j \in 1 .. Len(r) : i # j => i + 1 # j + 1
  BY <1>1
<1> HIDE DEF r
<1>4. /\ \A i \in 1 .. Len(jobs) : JobFits(op, jobs[i])
      /\ op = "best_effort" => \A i, j \in 1 .. Len(jobs) : i # j => jobs[i].server # jobs[j].server
  BY Zenon DEF JobsInOrder
<1>5. \A i \in 1 .. Len(r) : JobFits(op, r[i])
  BY <1>1, <1>2, <1>4, Zenon
<1>6. JobFits(op, jobs[1])
  BY <1>2, <1>4, Zenon
<1>7. ASSUME op = "best_effort"
      PROVE  /\ \A i, j \in 1 .. Len(r) : i # j => r[i].server # r[j].server
             /\ \A i \in 1 .. Len(r) : jobs[1].server # r[i].server
  <2>1. \A i, j \in 1 .. Len(jobs) : i # j => jobs[i].server # jobs[j].server
    BY <1>4, <1>7, Zenon
  <2>2. \A i, j \in 1 .. Len(r) : i # j => jobs[i + 1].server # jobs[j + 1].server
    BY <2>1, <1>2, <1>3, Zenon
  <2>3. \A i \in 1 .. Len(r) : jobs[1].server # jobs[i + 1].server
    BY <2>1, <1>2, Zenon
  <2> QED
    BY <2>2, <2>3, <1>1, ZenonT(30)
<1> QED
  BY <1>1, <1>5, <1>6, <1>7 DEF r

LEMMA IdleManagerIs ==
  /\ IdleManager \in McpOps /\ IdleManager.op = "idle" /\ IdleManager.jobs = <<>> /\ IdleManager.step = "job"
  /\ \A ini \in BOOLEAN : McpOpOK(IdleManager, ini)
<1>1. /\ IdleManager \in McpOps /\ IdleManager.op = "idle" /\ IdleManager.jobs = <<>> /\ IdleManager.step = "job"
      /\ IdleManager.spawns = 0 /\ IdleManager.calls = 0 /\ IdleManager.attempts = 0 /\ IdleManager.tries = 0
  BY DEF IdleManager, McpOps, McpMethods
<1>2. JobsInOrder("idle", <<>>)
  BY DEF JobsInOrder
<1>3. JobUnderWay(IdleManager) /\ \A ini \in BOOLEAN : SpendingOK(IdleManager, ini)
  BY <1>1 DEF JobUnderWay, SpendingOK
<1> QED
  BY <1>1, <1>2, <1>3 DEF McpOpOK

\* The manager turns to a list of jobs, or rests when there are none.
TurnedTo(o, op, jobs) ==
  /\ o \in McpOps /\ o.op = op /\ o.jobs = jobs /\ o.step = "job"
  /\ \A ini \in BOOLEAN : McpOpOK(o, ini)

LEMMA TurnsTo ==
  ASSUME NEW op \in {"discover", "best_effort", "call", "list_all", "read", "bridge", "shutdown"},
         NEW jobs \in Seq(McpJobs), JobsInOrder(op, jobs)
  PROVE  TurnedTo([IdleManager EXCEPT !.op = op, !.jobs = jobs], op, jobs)
<1> DEFINE o == [IdleManager EXCEPT !.op = op, !.jobs = jobs]
<1>1. PICK i \in McpOps : i = IdleManager
  BY IdleManagerIs
<1>2. o \in McpOps /\ o.op = op /\ o.jobs = jobs /\ o.step = i.step
  BY <1>1, ZenonT(30) DEF McpOps
<1>3. o.spawns = i.spawns /\ o.calls = i.calls /\ o.attempts = i.attempts /\ o.tries = i.tries
  BY <1>1 DEF McpOps
<1>7. i.step = "job" /\ i.spawns = 0 /\ i.calls = 0 /\ i.attempts = 0 /\ i.tries = 0
  BY <1>1 DEF IdleManager
<1> HIDE DEF o
<1>5. JobUnderWay(o)
  BY <1>2, <1>7 DEF JobUnderWay
<1>6. \A ini \in BOOLEAN : SpendingOK(o, ini)
  BY <1>2, <1>3, <1>7 DEF SpendingOK
<1> QED
  BY <1>2, <1>7, <1>5, <1>6 DEF McpOpOK, TurnedTo, o

LEMMA JobOver ==
  ASSUME McpIInv, mcp_op.op # "idle", NEW jobs \in {<<>>, Tail(mcp_op.jobs)}, Continue(jobs)
  PROVE  /\ \A ini \in BOOLEAN : McpOpOK(mcp_op', ini)
         /\ mcp_op' \in McpOps /\ mcp_op'.step = "job" /\ mcp_op'.jobs = jobs
         /\ mcp_op'.op = IF jobs = <<>> THEN "idle" ELSE mcp_op.op
<1>1. mcp_op \in McpOps /\ JobsInOrder(mcp_op.op, mcp_op.jobs)
  BY DEF McpIInv, McpOpOK
<1>2. mcp_op.jobs \in Seq(McpJobs) /\ mcp_op.jobs # <<>>
  BY <1>1 DEF McpOps, JobsInOrder
<1>3. CASE jobs = <<>>
  BY <1>3, IdleManagerIs DEF Continue
<1>4. CASE jobs # <<>>
  <2>1. jobs = Tail(mcp_op.jobs)
    BY <1>4
  <2>2. /\ jobs \in Seq(McpJobs) /\ \A i \in 1 .. Len(jobs) : JobFits(mcp_op.op, jobs[i])
        /\ mcp_op.op = "best_effort" => \A i, j \in 1 .. Len(jobs) : i # j => jobs[i].server # jobs[j].server
    BY <1>1, <1>2, <2>1, OtherJobs
  <2>3. mcp_op.op \in {"discover", "best_effort", "call", "list_all", "read", "bridge", "shutdown"}
    BY <1>1 DEF McpOps
  <2>4. mcp_op' = [IdleManager EXCEPT !.op = mcp_op.op, !.jobs = jobs]
    BY <1>4 DEF Continue
  <2>5. /\ mcp_op' \in McpOps /\ mcp_op'.op = mcp_op.op /\ mcp_op'.jobs = jobs /\ mcp_op'.step = "job"
        /\ \A ini \in BOOLEAN : McpOpOK(mcp_op', ini)
    <3>1. JobsInOrder(mcp_op.op, jobs)
      BY <1>4, <2>2, <2>3 DEF JobsInOrder
    <3>2. TurnedTo([IdleManager EXCEPT !.op = mcp_op.op, !.jobs = jobs], mcp_op.op, jobs)
      BY <3>1, <2>2, <2>3, TurnsTo
    <3> QED
      BY <3>2, <2>4 DEF TurnedTo
  <2> QED
    BY <1>4, <2>5
<1> QED
  BY <1>3, <1>4

LEMMA AfterFailure ==
  ASSUME McpIInv
  PROVE  /\ JobsAfterFailure \in {<<>>, Tail(mcp_op.jobs)}
         /\ mcp_op.op = "best_effort" => JobsAfterFailure = Tail(mcp_op.jobs)
BY DEF JobsAfterFailure

LEMMA ShakenIs ==
  ASSUME NEW o, NEW ini \in [McpServers -> BOOLEAN]
  PROVE  Shaken(o, ini) \in BOOLEAN
BY DEF Shaken

\* Routes taken away and given anew.
Cleared(index, index2, s) ==
  /\ DOMAIN index2 = {q \in DOMAIN index : index[q].server # s}
  /\ \A q \in DOMAIN index2 : index2[q] = index[q]
Inserted(index, index2, s, new) ==
  /\ DOMAIN index2 = DOMAIN index \cup new
  /\ \A q \in new : index2[q].server = s
  /\ \A q \in DOMAIN index : q \notin new => index2[q] = index[q]
Replaced(index, index2, s, new) ==
  /\ new \subseteq DOMAIN index2
  /\ \A q \in new : index2[q].server = s
  /\ \A q \in DOMAIN index : index[q].server # s =>
        q \in DOMAIN index2 /\ (index2[q] = index[q] \/ index2[q].server = s)

LEMMA ClearedRoutes ==
  ASSUME NEW index, NEW listing, RoutesOK(index, listing), NEW s \in McpServers, NEW ts \in SUBSET RawTools
  PROVE  /\ Cleared(index, clear_routes_for_server(index, s), s)
         /\ RoutesOK(clear_routes_for_server(index, s), [listing EXCEPT ![s] = ts])
<1> DEFINE c == clear_routes_for_server(index, s)
           l == [listing EXCEPT ![s] = ts]
<1>1. DOMAIN c = {q \in DOMAIN index : index[q].server # s} /\ \A q \in DOMAIN c : c[q] = index[q]
  BY DEF clear_routes_for_server
<1>2. l \in [McpServers -> SUBSET RawTools] /\ \A x \in McpServers : x # s => l[x] = listing[x]
  BY DEF RoutesOK
<1> HIDE DEF c, l
<1>3. ASSUME NEW q \in DOMAIN c PROVE c[q].server \in McpServers /\ c[q].raw \in l[c[q].server]
  <2>1. q \in DOMAIN index /\ index[q].server # s /\ c[q] = index[q]
    BY <1>1
  <2>2. index[q].server \in McpServers /\ index[q].raw \in listing[index[q].server]
    BY <2>1 DEF RoutesOK
  <2> QED
    BY <1>2, <2>1, <2>2
<1>4. RoutesOK(c, l)
  BY <1>2, <1>3 DEF RoutesOK
<1> QED
  BY <1>1, <1>4 DEF Cleared, c, l

LEMMA InsertedRoutes ==
  ASSUME NEW index, NEW listing, NEW s \in McpServers, NEW ts \in SUBSET RawTools,
         RoutesOK(index, listing), listing[s] = ts
  PROVE  /\ Inserted(index, InsertRoutes(index, s, ts), s, {mcp_tool_name(s, t) : t \in ts})
         /\ RoutesOK(InsertRoutes(index, s, ts), listing)
<1> DEFINE d == InsertRoutes(index, s, ts)
           new == {mcp_tool_name(s, t) : t \in ts}
           raw(q) == CHOOSE t \in ts : mcp_tool_name(s, t) = q
<1>1. /\ DOMAIN d = DOMAIN index \cup new
      /\ \A q \in DOMAIN d : d[q] = IF q \in new THEN [server |-> s, raw |-> raw(q)] ELSE index[q]
  BY DEF InsertRoutes
<1>2. \A q \in new : \E t \in ts : mcp_tool_name(s, t) = q
  OBVIOUS
<1>3. \A q \in new : raw(q) \in ts
  BY <1>2
<1> HIDE DEF d, new, raw
<1>4. \A q \in new : d[q].server = s /\ d[q].raw = raw(q)
  <2> SUFFICES ASSUME NEW q \in new PROVE d[q].server = s /\ d[q].raw = raw(q)
    OBVIOUS
  <2>1. d[q] = [server |-> s, raw |-> raw(q)]
    BY <1>1
  <2> QED
    BY <2>1
<1>5. \A q \in DOMAIN index : q \notin new => d[q] = index[q]
  BY <1>1
<1>6. ASSUME NEW q \in DOMAIN d PROVE d[q].server \in McpServers /\ d[q].raw \in listing[d[q].server]
  <2>1. CASE q \in new
    BY <2>1, <1>3, <1>4
  <2>2. CASE q \notin new
    BY <2>2, <1>1, <1>5 DEF RoutesOK
  <2> QED
    BY <2>1, <2>2
<1>7. RoutesOK(d, listing)
  BY <1>6 DEF RoutesOK
<1> QED
  BY <1>1, <1>4, <1>5, <1>7 DEF Inserted, d, new

\* The server whose turn is over has its routes, and only those, replaced.
LEMMA ReportGrows ==
  ASSUME NEW jobs \in Seq(McpJobs), jobs # <<>>, JobsInOrder("best_effort", jobs),
         NEW s, s = jobs[1].server,
         NEW index, NEW report, ReportOK("best_effort", jobs, index, report),
         NEW index2, NEW report2 \in McpReports, NEW new,
         report2.tools = report.tools \cup new, Replaced(index, index2, s, new),
         NEW op2, op2 = IF Tail(jobs) = <<>> THEN "idle" ELSE "best_effort"
  PROVE  ReportOK(op2, Tail(jobs), index2, report2)
<1>1. /\ report.tools \subseteq DOMAIN index
      /\ \A q \in report.tools : \A i \in 1 .. Len(jobs) : index[q].server # jobs[i].server
  BY DEF ReportOK
<1> DEFINE r == Tail(jobs)
<1>2. /\ r \in Seq(McpJobs) /\ Len(r) \in Nat /\ Len(jobs) = Len(r) + 1 /\ \A i \in 1 .. Len(r) : r[i] = jobs[i + 1]
  OBVIOUS
<1>3. 1 \in 1 .. Len(jobs) /\ \A i \in 1 .. Len(r) : i + 1 \in 1 .. Len(jobs)
  BY <1>2
<1>4. \A i \in 1 .. Len(r) : s # r[i].server
  BY OtherJobs
<1> HIDE DEF r
<1>5. \A q \in report.tools : index[q].server # s /\ \A i \in 1 .. Len(r) : index[q].server # r[i].server
  BY <1>1, <1>2, <1>3
<1>6. ASSUME NEW q \in report2.tools
      PROVE  q \in DOMAIN index2 /\ \A i \in 1 .. Len(r) : index2[q].server # r[i].server
  <2>1. CASE q \in new
    BY <2>1, <1>4 DEF Replaced
  <2>2. CASE q \in report.tools
    <3>1. q \in DOMAIN index2 /\ (index2[q] = index[q] \/ index2[q].server = s)
      BY <2>2, <1>1, <1>5 DEF Replaced
    <3> QED
      BY <3>1, <2>2, <1>4, <1>5
  <2> QED
    BY <2>1, <2>2
<1>7. report2.tools \subseteq DOMAIN index2 /\ \A q \in report2.tools : \A i \in 1 .. Len(r) : index2[q].server # r[i].server
  BY <1>6
<1> QED
  BY <1>7 DEF ReportOK, r

\* Whatever is not a best-effort discovery leaves the report alone.
LEMMA ReportKept ==
  ASSUME NEW op, op # "best_effort", NEW jobs, NEW index, NEW report, ReportOK(op, jobs, index, report),
         NEW op2 \in {op, "idle"}, NEW jobs2, NEW index2,
         index2 = index \/ op \in {"discover", "bridge"}
  PROVE  ReportOK(op2, jobs2, index2, report)
<1>1. op \in {"discover", "bridge"} => report.tools = {}
  BY DEF ReportOK, NoReport
<1> QED
  BY <1>1 DEF ReportOK

LEMMA InHand ==
  ASSUME McpIInv, mcp_op.step # "job"
  PROVE  /\ mcp_op \in McpOps /\ mcp_op.op # "idle" /\ mcp_op.server \in McpServers
         /\ mcp_op.jobs \in Seq(McpJobs) /\ mcp_op.jobs # <<>> /\ JobsInOrder(mcp_op.op, mcp_op.jobs)
         /\ mcp_op.method \in {"tools/list", "tools/call", "resources/list", "resources/read"}
         /\ mcp_op.method = mcp_op.jobs[1].kind
         /\ mcp_op.method # "tools/call" => mcp_op.server = mcp_op.jobs[1].server
         /\ mcp_op.op = "best_effort" => mcp_op.method = "tools/list" /\ mcp_op.server = mcp_op.jobs[1].server
         /\ mcp_op.method = "tools/list" => mcp_op.op \in {"discover", "best_effort", "bridge"}
<1>1. mcp_op \in McpOps /\ JobsInOrder(mcp_op.op, mcp_op.jobs) /\ JobUnderWay(mcp_op)
  BY DEF McpIInv, McpOpOK
<1>2. mcp_op.jobs \in Seq(McpJobs) /\ mcp_op.method \in McpMethods
  BY <1>1 DEF McpOps
<1>3. /\ mcp_op.op # "idle" /\ mcp_op.server \in McpServers
      /\ mcp_op.method = mcp_op.jobs[1].kind /\ mcp_op.method \notin {"none", "initialize", "shutdown"}
      /\ mcp_op.method # "tools/call" => mcp_op.server = mcp_op.jobs[1].server
  BY <1>1 DEF JobUnderWay
<1>4. mcp_op.jobs # <<>>
  BY <1>1, <1>3 DEF JobsInOrder
<1>5. JobFits(mcp_op.op, mcp_op.jobs[1])
  BY <1>1, <1>2, <1>4, OtherJobs
<1>6. mcp_op.method \in {"tools/list", "tools/call", "resources/list", "resources/read"}
  BY <1>2, <1>3 DEF McpMethods
<1> QED
  BY <1>1, <1>2, <1>3, <1>4, <1>5, <1>6 DEF JobFits

\* The other components of a state in which no request is under way.
McpRests ==
  /\ \A ini \in BOOLEAN : McpOpOK(mcp_op', ini)
  /\ mcp_op'.step = "job"
  /\ RoutesOK(tool_index', last_listing')
  /\ ReportOK(mcp_op'.op, mcp_op'.jobs, tool_index', mcp_report')

LEMMA JobFailsStep ==
  ASSUME McpIInv, mcp_op.step # "job", JobFails
  PROVE  McpRests
<1>1. Continue(JobsAfterFailure)
  BY DEF JobFails
<1> DEFINE jobs == JobsAfterFailure
           s == mcp_op.server
<1>2. /\ \A ini \in BOOLEAN : McpOpOK(mcp_op', ini)
      /\ mcp_op'.step = "job" /\ mcp_op'.jobs = jobs
      /\ mcp_op'.op = IF jobs = <<>> THEN "idle" ELSE mcp_op.op
  BY <1>1, InHand, AfterFailure, JobOver
<1>3. RoutesOK(tool_index, last_listing) /\ ReportOK(mcp_op.op, mcp_op.jobs, tool_index, mcp_report)
  BY DEF McpIInv
<1>4. CASE mcp_op.op = "best_effort"
  <2>1. /\ tool_index' = clear_routes_for_server(tool_index, s)
        /\ last_listing' = [last_listing EXCEPT ![s] = {}]
        /\ mcp_report' = [mcp_report EXCEPT !.made = TRUE, !.failed = @ \cup {s}]
    BY <1>4 DEF JobFails
  <2>2. RoutesOK(tool_index', last_listing') /\ Cleared(tool_index, tool_index', s)
    <3>1. s \in McpServers /\ {} \in SUBSET RawTools
      BY InHand
    <3> QED
      BY <1>3, <2>1, <3>1, ClearedRoutes
  <2>3. mcp_report' \in McpReports /\ mcp_report'.tools = mcp_report.tools
    <3>1. mcp_report \in McpReports /\ s \in McpServers
      BY <1>3, InHand DEF ReportOK
    <3> QED
      BY <3>1, <2>1 DEF McpReports
  <2>4. jobs = Tail(mcp_op.jobs) /\ mcp_op'.op = IF Tail(mcp_op.jobs) = <<>> THEN "idle" ELSE "best_effort"
    BY <1>2, <1>4, AfterFailure
  <2>5. /\ mcp_op.jobs \in Seq(McpJobs) /\ mcp_op.jobs # <<>> /\ s = mcp_op.jobs[1].server
        /\ JobsInOrder("best_effort", mcp_op.jobs)
    BY <1>4, InHand
  <2>6. Replaced(tool_index, tool_index', s, {})
    BY <2>2 DEF Cleared, Replaced
  <2>7. ReportOK("best_effort", mcp_op.jobs, tool_index, mcp_report)
    BY <1>3, <1>4
  <2>8. PICK i2, r2, o2 : i2 = tool_index' /\ r2 = mcp_report' /\ o2 = mcp_op'.op
    OBVIOUS
  <2> HIDE DEF jobs, s
  <2>9. ReportOK(o2, Tail(mcp_op.jobs), i2, r2)
    <3>1. r2.tools = mcp_report.tools \cup {} /\ r2 \in McpReports
      BY <2>3, <2>8
    <3> QED
      BY <2>4, <2>5, <2>6, <2>7, <2>8, <3>1, ReportGrows
  <2> QED
    BY <1>2, <2>2, <2>4, <2>8, <2>9 DEF McpRests
<1>5. CASE mcp_op.op # "best_effort"
  <2>1. UNCHANGED <<tool_index, last_listing, mcp_report>>
    BY <1>5 DEF JobFails
  <2>2. mcp_op'.op \in {mcp_op.op, "idle"}
    BY <1>2
  <2>3. ReportOK(mcp_op'.op, mcp_op'.jobs, tool_index, mcp_report)
    BY <1>3, <1>5, <2>2, ReportKept
  <2> QED
    BY <1>2, <1>3, <2>1, <2>3 DEF McpRests
<1> QED
  BY <1>4, <1>5

LEMMA JobDoneStep ==
  ASSUME McpIInv, mcp_op.step # "job", JobDone
  PROVE  McpRests
<1>1. Continue(Tail(mcp_op.jobs))
  BY DEF JobDone
<1> DEFINE s == mcp_op.server
           c == clear_routes_for_server(tool_index, s)
           new == {mcp_tool_name(s, t) : t \in mcp_op.found}
<1>2. /\ \A ini \in BOOLEAN : McpOpOK(mcp_op', ini)
      /\ mcp_op'.step = "job" /\ mcp_op'.jobs = Tail(mcp_op.jobs)
      /\ mcp_op'.op = IF Tail(mcp_op.jobs) = <<>> THEN "idle" ELSE mcp_op.op
  BY <1>1, InHand, JobOver
<1>3. RoutesOK(tool_index, last_listing) /\ ReportOK(mcp_op.op, mcp_op.jobs, tool_index, mcp_report)
  BY DEF McpIInv
<1>4. CASE mcp_op.method = "tools/list"
  <2>1. /\ tool_index' = InsertRoutes(c, s, mcp_op.found)
        /\ last_listing' = [last_listing EXCEPT ![s] = mcp_op.found]
        /\ mcp_report' = IF mcp_op.op # "best_effort" THEN mcp_report
                         ELSE [mcp_report EXCEPT !.made = TRUE, !.working = @ \cup {s}, !.tools = @ \cup new]
    BY <1>4 DEF JobDone
  <2>2. s \in McpServers /\ mcp_op.found \in SUBSET RawTools
    BY InHand DEF McpOps
  <2>3. RoutesOK(c, last_listing') /\ Cleared(tool_index, c, s)
    BY <1>3, <2>1, <2>2, ClearedRoutes
  <2>4. last_listing'[s] = mcp_op.found
    BY <1>3, <2>1, <2>2 DEF RoutesOK
  <2> HIDE DEF c
  <2>5. PICK i2, l2 : i2 = InsertRoutes(c, s, mcp_op.found) /\ l2 = last_listing'
    OBVIOUS
  <2>6. Inserted(c, i2, s, new) /\ RoutesOK(i2, l2)
    BY <2>2, <2>3, <2>4, <2>5, InsertedRoutes
  <2>7. CASE mcp_op.op = "best_effort"
    <3>1. mcp_report' \in McpReports /\ mcp_report'.tools = mcp_report.tools \cup new
      <4>1. mcp_report \in McpReports /\ new \subseteq QualifiedNames
        BY <1>3, <2>2 DEF ReportOK, QualifiedNames
      <4>2. mcp_report' = [mcp_report EXCEPT !.made = TRUE, !.working = @ \cup {s}, !.tools = @ \cup new]
        BY <2>1, <2>7
      <4> HIDE DEF new
      <4> QED
        BY <4>1, <4>2, <2>2 DEF McpReports
    <3>2. /\ mcp_op.jobs \in Seq(McpJobs) /\ mcp_op.jobs # <<>> /\ s = mcp_op.jobs[1].server
          /\ JobsInOrder("best_effort", mcp_op.jobs)
      BY <2>7, InHand
    <3> HIDE DEF new, s
    <3>3. Replaced(tool_index, i2, s, new)
      BY <2>3, <2>6 DEF Cleared, Inserted, Replaced
    <3>4. PICK r2, o2 : r2 = mcp_report' /\ o2 = mcp_op'.op
      OBVIOUS
    <3>5. ReportOK(o2, Tail(mcp_op.jobs), i2, r2)
      <4>1. r2.tools = mcp_report.tools \cup new /\ r2 \in McpReports
        BY <3>1, <3>4
      <4>2. ReportOK("best_effort", mcp_op.jobs, tool_index, mcp_report)
        BY <1>3, <2>7
      <4>3. o2 = IF Tail(mcp_op.jobs) = <<>> THEN "idle" ELSE "best_effort"
        BY <1>2, <2>7, <3>4
      <4> QED
        BY <3>2, <3>3, <4>1, <4>2, <4>3, ReportGrows
    <3> QED
      BY <1>2, <2>1, <2>5, <2>6, <3>4, <3>5 DEF McpRests
  <2>8. CASE mcp_op.op # "best_effort"
    <3>1. mcp_op.op \in {"discover", "bridge"}
      BY <1>4, <2>8, InHand
    <3>2. mcp_op'.op \in {mcp_op.op, "idle"}
      BY <1>2
    <3>3. ReportOK(mcp_op'.op, mcp_op'.jobs, i2, mcp_report)
      BY <1>3, <2>8, <3>1, <3>2, ReportKept
    <3>4. mcp_report' = mcp_report
      BY <2>1, <2>8
    <3> QED
      BY <1>2, <2>1, <2>5, <2>6, <3>3, <3>4 DEF McpRests
  <2> QED
    BY <2>7, <2>8
<1>5. CASE mcp_op.method # "tools/list"
  <2>1. UNCHANGED <<tool_index, last_listing, mcp_report>>
    BY <1>5 DEF JobDone
  <2>2. mcp_op.op # "best_effort"
    BY <1>5, InHand
  <2>3. mcp_op'.op \in {mcp_op.op, "idle"}
    BY <1>2
  <2>4. ReportOK(mcp_op'.op, mcp_op'.jobs, tool_index, mcp_report)
    BY <1>3, <2>2, <2>3, ReportKept
  <2> QED
    BY <1>2, <1>3, <2>1, <2>4 DEF McpRests
<1> QED
  BY <1>4, <1>5

\* Pipes that hold nothing.
Emptied(p) == p.inbox = <<>> /\ p.outbox = <<>>

\* While nothing is awaited, and for all servers but the one in hand, the pipes are empty.
LEMMA PipesHold ==
  ASSUME NEW o, NEW procs, PipesOK(o, procs), NEW s \in McpServers
  PROVE  /\ ~WaitsFor(o, s) => Emptied(procs[s])
         /\ WaitsFor(o, s) => Len(procs[s].inbox) + Len(procs[s].outbox) = 1
BY DEF PipesOK, PipeOK, Emptied

LEMMA PipesAtRest ==
  ASSUME NEW o, o.step # "wait", NEW procs, \A s \in McpServers : Emptied(procs[s])
  PROVE  PipesOK(o, procs)
BY DEF PipesOK, PipeOK, Emptied, WaitsFor

LEMMA NoProcessIs == NoProcess \in McpProcesses /\ NoProcess.n = 0 /\ Emptied(NoProcess)
BY DEF NoProcess, McpProcesses, Emptied

LEMMA ResetStep ==
  ASSUME McpIInv, NEW s \in McpServers, reset_server(s)
  PROVE  /\ ProcessesOK(mcp_process', mcp_alive')
         /\ initialized' \in [McpServers -> BOOLEAN] /\ ~initialized'[s]
         /\ Emptied(mcp_process'[s])
         /\ \A x \in McpServers : x # s => mcp_process'[x] = mcp_process[x]
<1>1. /\ mcp_process \in [McpServers -> McpProcesses] /\ 0 \notin mcp_alive
      /\ mcp_alive \subseteq {mcp_process[x].n : x \in McpServers}
      /\ initialized \in [McpServers -> BOOLEAN]
  BY DEF McpIInv, ProcessesOK
<1>2. /\ mcp_process' \in [McpServers -> McpProcesses] /\ mcp_process'[s] = NoProcess
      /\ \A x \in McpServers : x # s => mcp_process'[x] = mcp_process[x]
  BY <1>1, NoProcessIs DEF reset_server
<1>3. initialized' \in [McpServers -> BOOLEAN] /\ ~initialized'[s]
  BY <1>1 DEF reset_server
<1>4. mcp_alive' = mcp_alive \ {mcp_process[s].n}
  BY DEF reset_server
<1>5. mcp_alive' \subseteq {mcp_process'[x].n : x \in McpServers}
  <2> SUFFICES ASSUME NEW n \in mcp_alive' PROVE \E x \in McpServers : n = mcp_process'[x].n
    OBVIOUS
  <2>1. PICK x \in McpServers : n = mcp_process[x].n
    BY <1>1, <1>4
  <2>2. x # s
    BY <1>4, <2>1
  <2> QED
    BY <1>2, <2>1, <2>2
<1> QED
  BY <1>1, <1>2, <1>3, <1>4, <1>5, NoProcessIs DEF ProcessesOK

LEMMA LenIs ==
  ASSUME NEW S, NEW s \in Seq(S)
  PROVE  Len(s) \in Nat /\ (Len(s) = 0 <=> s = <<>>)
OBVIOUS

LEMMA OneInSeq ==
  ASSUME NEW S, NEW x \in S
  PROVE  <<x>> \in Seq(S)
OBVIOUS

\* A request goes out on an empty pipe: it is all that pipe holds.
Asked(o, o2, method, spawned) ==
  /\ o2 \in McpOps /\ o2.op = o.op /\ o2.jobs = o.jobs /\ o2.server = o.server /\ o2.method = o.method
  /\ o2.step = "wait" /\ o2.attempts = o.attempts
  /\ o2.tries = (IF method = "initialize" THEN o.tries ELSE 0)
  /\ o2.spawns = (IF spawned THEN o.spawns + 1 ELSE o.spawns)
  /\ o2.calls = (IF method = "tools/call" THEN o.calls + 1 ELSE o.calls)

LEMMA RequestStep ==
  ASSUME McpIInv, mcp_op.step # "job", NEW procs \in [McpServers -> McpProcesses],
         \A x \in McpServers : Emptied(procs[x]),
         NEW method \in McpMethods, request(mcp_op.server, procs, method)
  PROVE  /\ Asked(mcp_op, mcp_op', method, procs[mcp_op.server].n # mcp_process[mcp_op.server].n)
         /\ mcp_process' \in [McpServers -> McpProcesses]
         /\ \A x \in McpServers : mcp_process'[x].n = procs[x].n
         /\ PipesOK(mcp_op', mcp_process')
<1> DEFINE s == mcp_op.server
           id == mcp_used.ids + 1
           spawned == procs[s].n # mcp_process[s].n
<1>1. id \in Nat /\ s \in McpServers /\ mcp_op \in McpOps
  BY InHand DEF McpIInv, McpCounts
<1>2. PICK o \in McpOps : o = mcp_op
  BY <1>1
<1>3. /\ mcp_process' = [procs EXCEPT ![s].inbox = Append(procs[s].inbox, [id |-> id, method |-> method])]
      /\ mcp_op' = [mcp_op EXCEPT !.step = "wait", !.id = id, !.tries = IF method = "initialize" THEN @ ELSE 0,
                      !.spawns = IF spawned THEN @ + 1 ELSE @,
                      !.calls = IF method = "tools/call" THEN @ + 1 ELSE @]
  BY DEF request
<1> HIDE DEF id, spawned
<1>4. PICK t, p, c \in Nat : /\ t = (IF method = "initialize" THEN o.tries ELSE 0)
                             /\ p = (IF spawned THEN o.spawns + 1 ELSE o.spawns)
                             /\ c = (IF method = "tools/call" THEN o.calls + 1 ELSE o.calls)
  <2>1. o.tries \in Nat /\ o.spawns \in Nat /\ o.calls \in Nat
    BY DEF McpOps
  <2> QED
    BY <2>1
<1>5. mcp_op' = [o EXCEPT !.step = "wait", !.id = id, !.tries = t, !.spawns = p, !.calls = c]
  BY <1>2, <1>3, <1>4
<1>6. Asked(o, mcp_op', method, spawned)
  <2>1. /\ mcp_op' \in McpOps /\ mcp_op'.op = o.op /\ mcp_op'.jobs = o.jobs /\ mcp_op'.server = o.server
        /\ mcp_op'.method = o.method /\ mcp_op'.step = "wait" /\ mcp_op'.attempts = o.attempts
        /\ mcp_op'.tries = t /\ mcp_op'.spawns = p /\ mcp_op'.calls = c
    BY <1>1, <1>5 DEF McpOps
  <2> QED
    BY <2>1, <1>4, Zenon DEF Asked
<1>7. PICK r \in McpRequests : r = [id |-> id, method |-> method]
  BY <1>1 DEF McpRequests
<1>8. procs[s] \in McpProcesses /\ procs[s].inbox = <<>> /\ procs[s].outbox = <<>>
  BY <1>1 DEF Emptied
<1>9. mcp_process' = [procs EXCEPT ![s] = [procs[s] EXCEPT !.inbox = <<r>>]]
  <2>1. Append(procs[s].inbox, r) = <<r>>
    BY <1>7, <1>8
  <2>2. mcp_process' = [procs EXCEPT ![s].inbox = Append(procs[s].inbox, r)]
    BY <1>3, <1>7, Zenon
  <2> QED
    BY <2>1, <2>2, Zenon
<1>10. PICK p2 : p2 = [procs[s] EXCEPT !.inbox = <<r>>]
  OBVIOUS
<1>11. p2 \in McpProcesses /\ p2.n = procs[s].n /\ p2.inbox = <<r>> /\ p2.outbox = <<>>
  <2>1. PICK q \in McpProcesses : q = procs[s]
    BY <1>8
  <2>2. PICK i \in Seq(McpRequests) : i = <<r>>
    <3>1. <<r>> \in Seq(McpRequests)
      BY OneInSeq
    <3> QED
      BY <3>1
  <2>3. p2 = [q EXCEPT !.inbox = i]
    BY <1>10, <2>1, <2>2
  <2>4. p2 \in McpProcesses /\ p2.n = q.n /\ p2.inbox = i /\ p2.outbox = q.outbox
    BY <2>3 DEF McpProcesses
  <2> QED
    BY <1>8, <2>1, <2>2, <2>4
<1>12. mcp_process' \in [McpServers -> McpProcesses] /\ mcp_process'[s] = p2 /\ \A x \in McpServers : x # s => mcp_process'[x] = procs[x]
  BY <1>1, <1>9, <1>10, <1>11
<1>13. \A x \in McpServers : mcp_process'[x].n = procs[x].n
  BY <1>11, <1>12
<1>14. PipesOK(mcp_op', mcp_process')
  <2> SUFFICES ASSUME NEW x \in McpServers PROVE PipeOK(mcp_process'[x], WaitsFor(mcp_op', x))
    BY DEF PipesOK
  <2>1. CASE x = s
    <3>1. Len(p2.inbox) + Len(p2.outbox) = 1
      BY <1>11
    <3>2. WaitsFor(mcp_op', x)
      BY <1>2, <1>6, <2>1 DEF Asked, WaitsFor
    <3> QED
      BY <1>12, <2>1, <3>1, <3>2 DEF PipeOK
  <2>2. CASE x # s
    <3>1. ~WaitsFor(mcp_op', x)
      BY <1>2, <1>6, <2>2 DEF Asked, WaitsFor
    <3>2. Emptied(mcp_process'[x])
      BY <1>12, <2>2
    <3> QED
      BY <3>1, <3>2 DEF PipeOK, Emptied
  <2> QED
    BY <2>1, <2>2
<1> QED
  BY <1>2, <1>6, <1>12, <1>13, <1>14 DEF spawned

\* A state after a step, but for the counters.
McpStands ==
  /\ initialized' \in [McpServers -> BOOLEAN]
  /\ ProcessesOK(mcp_process', mcp_alive')
  /\ McpOpOK(mcp_op', Shaken(mcp_op', initialized'))
  /\ PipesOK(mcp_op', mcp_process')
  /\ RoutesOK(tool_index', last_listing')
  /\ ReportOK(mcp_op'.op, mcp_op'.jobs, tool_index', mcp_report')

LEMMA StandsOn ==
  ASSUME McpStands, mcp_used' \in McpCounts
  PROVE  McpIInv'
BY DEF McpStands, McpIInv

LEMMA RestsOn ==
  ASSUME McpRests, initialized' \in [McpServers -> BOOLEAN], ProcessesOK(mcp_process', mcp_alive'),
         \A s \in McpServers : Emptied(mcp_process'[s])
  PROVE  McpStands
<1>1. McpOpOK(mcp_op', Shaken(mcp_op', initialized'))
  BY ShakenIs DEF McpRests
<1>2. PipesOK(mcp_op', mcp_process')
  BY PipesAtRest DEF McpRests
<1> QED
  BY <1>1, <1>2 DEF McpStands, McpRests

\* An operation that goes on with the job it is at, in a new step.
SameJob(o, o2) ==
  o2 \in McpOps /\ o2.op = o.op /\ o2.jobs = o.jobs /\ o2.server = o.server /\ o2.method = o.method

LEMMA SameJobStands ==
  ASSUME McpIInv, mcp_op.step # "job", SameJob(mcp_op, mcp_op'), mcp_op'.step # "job",
         UNCHANGED <<tool_index, last_listing, mcp_report>>,
         initialized' \in [McpServers -> BOOLEAN], ProcessesOK(mcp_process', mcp_alive'),
         PipesOK(mcp_op', mcp_process'), SpendingOK(mcp_op', Shaken(mcp_op', initialized'))
  PROVE  McpStands
<1>1. JobsInOrder(mcp_op.op, mcp_op.jobs) /\ JobUnderWay(mcp_op)
  BY DEF McpIInv, McpOpOK
<1>2. JobUnderWay(mcp_op') /\ JobsInOrder(mcp_op'.op, mcp_op'.jobs)
  BY <1>1 DEF SameJob, JobUnderWay
<1>3. McpOpOK(mcp_op', Shaken(mcp_op', initialized'))
  BY <1>2 DEF SameJob, McpOpOK
<1>4. RoutesOK(tool_index', last_listing') /\ ReportOK(mcp_op'.op, mcp_op'.jobs, tool_index', mcp_report')
  <2>1. RoutesOK(tool_index, last_listing) /\ ReportOK(mcp_op.op, mcp_op.jobs, tool_index, mcp_report)
    BY DEF McpIInv
  <2> QED
    BY <2>1 DEF SameJob
<1> QED
  BY <1>3, <1>4 DEF McpStands

LEMMA SpendingIs ==
  ASSUME McpIInv, mcp_op.step # "job"
  PROVE  /\ SpendingOK(mcp_op, initialized[mcp_op.server]) /\ initialized[mcp_op.server] \in BOOLEAN
         /\ mcp_op.attempts \in Nat /\ mcp_op.tries \in Nat /\ mcp_op.spawns \in Nat /\ mcp_op.calls \in Nat
<1>1. mcp_op.server \in McpServers /\ mcp_op \in McpOps /\ initialized \in [McpServers -> BOOLEAN]
  BY InHand DEF McpIInv
<1>2. Shaken(mcp_op, initialized) = initialized[mcp_op.server]
  BY <1>1 DEF Shaken
<1> QED
  BY <1>1, <1>2 DEF McpIInv, McpOpOK, McpOps

LEMMA RequestFailsStep ==
  ASSUME McpIInv, mcp_op.step = "wait", NEW e \in {"Transport", "Timeout", "InvalidResponse"}, RequestFails(e)
  PROVE  McpStands
<1> DEFINE s == mcp_op.server
           again == Handshaking /\ mcp_op.tries = 0 /\ is_retryable_error(e)
           anew == ~again /\ mcp_op.attempts = 0 /\ is_retryable_error(e) /\ mcp_op.method # "tools/call"
<1>1. s \in McpServers /\ mcp_op \in McpOps
  BY InHand
<1>2. reset_server(s)
  BY DEF RequestFails, should_reset_server
<1>3. /\ ProcessesOK(mcp_process', mcp_alive')
      /\ initialized' \in [McpServers -> BOOLEAN] /\ ~initialized'[s]
      /\ Emptied(mcp_process'[s])
      /\ \A x \in McpServers : x # s => mcp_process'[x] = mcp_process[x]
  BY <1>1, <1>2, ResetStep
<1>4. \A x \in McpServers : Emptied(mcp_process'[x])
  <2> SUFFICES ASSUME NEW x \in McpServers, x # s PROVE Emptied(mcp_process'[x])
    BY <1>3
  <2>1. ~WaitsFor(mcp_op, x)
    BY DEF WaitsFor
  <2>2. Emptied(mcp_process[x])
    BY <2>1, PipesHold DEF McpIInv
  <2> QED
    BY <1>3, <2>2
<1>5. CASE again \/ anew
  <2> DEFINE t == IF again THEN 1 ELSE 0
             a == IF anew THEN 1 ELSE mcp_op.attempts
  <2>1. /\ mcp_op' = [mcp_op EXCEPT !.step = "ready", !.found = {}, !.tries = t, !.attempts = a]
        /\ UNCHANGED <<tool_index, last_listing, mcp_report>>
    BY <1>5 DEF RequestFails
  <2>2. /\ SpendingOK(mcp_op, initialized[s]) /\ initialized[s] \in BOOLEAN
        /\ mcp_op.attempts \in Nat /\ mcp_op.tries \in Nat /\ mcp_op.spawns \in Nat /\ mcp_op.calls \in Nat
    BY SpendingIs
  <2>3. t \in Nat /\ a \in Nat
    BY <2>2
  <2>4. a <= 1 /\ t <= 1 /\ mcp_op.spawns <= 2 * a + t /\ mcp_op.calls = 0
    <3>1. CASE again
      <4>1. t = 1 /\ a = mcp_op.attempts /\ mcp_op.tries = 0 /\ ~initialized[s]
        BY <3>1 DEF Handshaking
      <4> HIDE DEF t, a, again, anew
      <4> QED
        BY <4>1, <2>2 DEF SpendingOK
    <3>2. CASE anew
      <4>1. t = 0 /\ a = 1 /\ mcp_op.attempts = 0 /\ mcp_op.method # "tools/call"
        BY <3>2
      <4> HIDE DEF t, a, again, anew
      <4> QED
        BY <4>1, <2>2 DEF SpendingOK
    <3> QED
      BY <1>5, <3>1, <3>2
  <2> HIDE DEF t, a
  <2>5. SameJob(mcp_op, mcp_op') /\ mcp_op'.step = "ready" /\ mcp_op'.tries = t /\ mcp_op'.attempts = a
        /\ mcp_op'.spawns = mcp_op.spawns /\ mcp_op'.calls = mcp_op.calls
    <3>1. PICK o \in McpOps : o = mcp_op
      BY <1>1
    <3>2. mcp_op' = [o EXCEPT !.step = "ready", !.found = {}, !.tries = t, !.attempts = a]
      BY <2>1, <3>1
    <3>3. /\ mcp_op' \in McpOps /\ mcp_op'.op = o.op /\ mcp_op'.jobs = o.jobs /\ mcp_op'.server = o.server
          /\ mcp_op'.method = o.method /\ mcp_op'.step = "ready" /\ mcp_op'.tries = t /\ mcp_op'.attempts = a
          /\ mcp_op'.spawns = o.spawns /\ mcp_op'.calls = o.calls
      BY <2>3, <3>2 DEF McpOps
    <3> QED
      BY <3>1, <3>3 DEF SameJob
  <2>6. PipesOK(mcp_op', mcp_process')
    BY <1>4, <2>5, PipesAtRest
  <2>7. SpendingOK(mcp_op', Shaken(mcp_op', initialized'))
    BY <2>4, <2>5 DEF SpendingOK
  <2> QED
    BY <1>3, <2>1, <2>5, <2>6, <2>7, SameJobStands
<1>6. CASE ~(again \/ anew)
  <2>1. JobFails
    BY <1>6 DEF RequestFails
  <2> QED
    BY <1>3, <1>4, <2>1, JobFailsStep, RestsOn
<1> QED
  BY <1>5, <1>6

\* Nothing is awaited: all pipes are empty.
LEMMA AllEmptied ==
  ASSUME McpIInv, mcp_op.step # "wait"
  PROVE  \A s \in McpServers : Emptied(mcp_process[s])
BY PipesHold DEF McpIInv, WaitsFor

LEMMA BeginStep ==
  ASSUME McpIInv, NEW op \in {"discover", "best_effort", "call", "list_all", "read", "bridge", "shutdown"},
         NEW jobs \in Seq(McpJobs), JobsInOrder(op, jobs), Begin(op, jobs)
  PROVE  McpIInv'
<1>1. TurnedTo(mcp_op', op, jobs)
  BY TurnsTo DEF Begin
<1>2. mcp_op.op = "idle" /\ mcp_op.step = "job"
  BY DEF Begin, McpIInv, McpOpOK, JobUnderWay
<1>3. McpRests
  <2>1. RoutesOK(tool_index, last_listing) /\ ReportOK(mcp_op.op, mcp_op.jobs, tool_index, mcp_report)
    BY DEF McpIInv
  <2>2. mcp_report' = IF op \in {"best_effort", "discover", "bridge"} THEN NoReport ELSE mcp_report
    BY DEF Begin
  <2>3. NoReport \in McpReports /\ NoReport.tools = {}
    BY DEF NoReport, McpReports
  <2>4. PICK r : r = mcp_report'
    OBVIOUS
  <2>5. ReportOK(op, jobs, tool_index, r)
    <3>1. r = IF op \in {"best_effort", "discover", "bridge"} THEN NoReport ELSE mcp_report
      BY <2>2, <2>4
    <3>2. CASE op \in {"best_effort", "discover", "bridge"}
      BY <3>1, <3>2, <2>3 DEF ReportOK
    <3>3. CASE op \notin {"best_effort", "discover", "bridge"}
      BY <3>1, <3>3, <2>1 DEF ReportOK
    <3> QED
      BY <3>2, <3>3
  <2>6. UNCHANGED <<tool_index, last_listing>>
    BY DEF Begin
  <2> QED
    BY <1>1, <2>1, <2>4, <2>5, <2>6 DEF McpRests, TurnedTo
<1>4. UNCHANGED <<mcp_process, initialized, mcp_alive>>
  BY DEF Begin
<1>5. McpStands
  <2>1. initialized \in [McpServers -> BOOLEAN] /\ ProcessesOK(mcp_process, mcp_alive)
    BY DEF McpIInv
  <2>2. \A s \in McpServers : Emptied(mcp_process[s])
    BY <1>2, AllEmptied
  <2> QED
    BY <1>3, <1>4, <2>1, <2>2, RestsOn
<1>6. mcp_used' \in McpCounts
  <2>1. mcp_used \in McpCounts /\ mcp_used' = [mcp_used EXCEPT !.ops = @ + 1]
    BY DEF McpIInv, Begin
  <2> QED
    BY <2>1 DEF McpCounts
<1> QED
  BY <1>5, <1>6, StandsOn

LEMMA FaultIs ==
  ASSUME McpIInv, FaultCount
  PROVE  mcp_used' \in McpCounts
<1>1. mcp_used \in McpCounts /\ mcp_used' = [mcp_used EXCEPT !.faults = @ + 1]
  BY DEF McpIInv, FaultCount
<1> QED
  BY <1>1 DEF McpCounts

LEMMA FirstJob ==
  ASSUME McpIInv, mcp_op.op # "idle"
  PROVE  /\ mcp_op \in McpOps /\ mcp_op.jobs \in Seq(McpJobs) /\ mcp_op.jobs # <<>>
         /\ Head(mcp_op.jobs) = mcp_op.jobs[1] /\ mcp_op.jobs[1] \in McpJobs
         /\ JobFits(mcp_op.op, Head(mcp_op.jobs)) /\ JobsInOrder(mcp_op.op, mcp_op.jobs)
<1>1. mcp_op \in McpOps /\ JobsInOrder(mcp_op.op, mcp_op.jobs)
  BY DEF McpIInv, McpOpOK
<1>2. mcp_op.jobs \in Seq(McpJobs) /\ mcp_op.jobs # <<>>
  BY <1>1 DEF McpOps, JobsInOrder
<1> QED
  BY <1>1, <1>2, OtherJobs

LEMMA OtherEnds ==
  ASSUME McpIInv, mcp_op.op \notin {"idle", "best_effort"}, NEW jobs \in {<<>>, Tail(mcp_op.jobs)},
                                                                            Continue(jobs),
         UNCHANGED <<tool_index, last_listing, mcp_report>>
  PROVE  McpRests
<1>1. /\ \A ini \in BOOLEAN : McpOpOK(mcp_op', ini)
      /\ mcp_op'.step = "job" /\ mcp_op'.jobs = jobs
      /\ mcp_op'.op = IF jobs = <<>> THEN "idle" ELSE mcp_op.op
  BY JobOver
<1>2. RoutesOK(tool_index, last_listing) /\ ReportOK(mcp_op.op, mcp_op.jobs, tool_index, mcp_report)
  BY DEF McpIInv
<1>3. mcp_op'.op \in {mcp_op.op, "idle"} /\ mcp_op.op # "best_effort"
  BY <1>1
<1>4. ReportOK(mcp_op'.op, mcp_op'.jobs, tool_index, mcp_report)
  BY <1>2, <1>3 DEF ReportOK
<1> QED
  BY <1>1, <1>2, <1>4 DEF McpRests

LEMMA StartJobStep == ASSUME McpIInv, StartJob PROVE McpIInv'
<1> DEFINE job == Head(mcp_op.jobs)
<1>1. /\ mcp_op.op # "idle" /\ mcp_op.step = "job" /\ job.kind # "shutdown"
      /\ UNCHANGED <<mcp_process, initialized, mcp_alive, tool_index, mcp_used, last_listing,
                     mcp_report>>
  BY DEF StartJob
<1>2. \A s \in McpServers : Emptied(mcp_process[s])
  BY <1>1, AllEmptied
<1>3. /\ initialized \in [McpServers -> BOOLEAN] /\ ProcessesOK(mcp_process, mcp_alive) /\ mcp_used \in McpCounts
      /\ RoutesOK(tool_index, last_listing) /\ ReportOK(mcp_op.op, mcp_op.jobs, tool_index, mcp_report)
  BY DEF McpIInv
<1>4. /\ mcp_op \in McpOps /\ mcp_op.jobs \in Seq(McpJobs) /\ mcp_op.jobs # <<>>
      /\ job = mcp_op.jobs[1] /\ job \in McpJobs /\ JobFits(mcp_op.op, job) /\ JobsInOrder(mcp_op.op, mcp_op.jobs)
  BY <1>1, FirstJob
<1> HIDE DEF job
<1>5. CASE job.kind = "tools/call" /\ job.tool \notin DOMAIN tool_index
  <2>1. Continue(JobsAfterFailure)
    BY <1>5 DEF StartJob, job
  <2>2. mcp_op.op \notin {"idle", "best_effort"}
    BY <1>1, <1>4, <1>5 DEF JobFits
  <2>3. McpRests
    BY <1>1, <2>1, <2>2, AfterFailure, OtherEnds
  <2>4. McpStands
    BY <1>1, <1>2, <1>3, <2>3, RestsOn
  <2> QED
    BY <1>1, <1>3, <2>4, StandsOn
<1>6. CASE ~(job.kind = "tools/call" /\ job.tool \notin DOMAIN tool_index)
  <2> DEFINE s == IF job.kind = "tools/call" THEN tool_index[job.tool].server ELSE job.server
  <2>1. mcp_op' = [mcp_op EXCEPT !.step = "ready", !.method = job.kind, !.server = s]
    BY <1>6 DEF StartJob, job
  <2>2. s \in McpServers
    <3>1. CASE job.kind = "tools/call"
      BY <1>3, <1>6, <3>1 DEF RoutesOK
    <3>2. CASE job.kind # "tools/call"
      BY <1>1, <1>4, <3>2 DEF JobFits, job
    <3> QED
      BY <3>1, <3>2
  <2>3. job.kind # "tools/call" => s = mcp_op.jobs[1].server
    BY <1>4
  <2> HIDE DEF s
  <2>4. job.kind \in {"tools/list", "tools/call", "resources/list", "resources/read"} /\ job.kind \in McpMethods
    BY <1>1, <1>4 DEF McpJobs, McpMethods
  <2>5. /\ mcp_op' \in McpOps /\ mcp_op'.op = mcp_op.op /\ mcp_op'.jobs = mcp_op.jobs
        /\ mcp_op'.step = "ready" /\ mcp_op'.method = job.kind /\ mcp_op'.server = s
        /\ mcp_op'.attempts = mcp_op.attempts /\ mcp_op'.tries = mcp_op.tries
        /\ mcp_op'.spawns = mcp_op.spawns /\ mcp_op'.calls = mcp_op.calls
    <3>1. PICK o \in McpOps : o = mcp_op
      BY <1>4
    <3>2. PICK m \in McpMethods : m = job.kind
      BY <2>4
    <3>3. mcp_op' = [o EXCEPT !.step = "ready", !.method = m, !.server = s]
      BY <2>1, <3>1, <3>2
    <3>4. /\ mcp_op' \in McpOps /\ mcp_op'.op = o.op /\ mcp_op'.jobs = o.jobs
          /\ mcp_op'.step = "ready" /\ mcp_op'.method = m /\ mcp_op'.server = s
          /\ mcp_op'.attempts = o.attempts /\ mcp_op'.tries = o.tries
          /\ mcp_op'.spawns = o.spawns /\ mcp_op'.calls = o.calls
      BY <2>2, <3>3 DEF McpOps
    <3> QED
      BY <3>1, <3>2, <3>4
  <2>6. JobUnderWay(mcp_op')
    BY <1>1, <1>4, <2>2, <2>3, <2>4, <2>5 DEF JobUnderWay
  <2>7. mcp_op.spawns = 0 /\ mcp_op.calls = 0 /\ mcp_op.attempts = 0 /\ mcp_op.tries = 0
    BY <1>1 DEF McpIInv, McpOpOK, SpendingOK
  <2>8. SpendingOK(mcp_op', Shaken(mcp_op', initialized'))
    BY <2>5, <2>7 DEF SpendingOK
  <2>9. McpOpOK(mcp_op', Shaken(mcp_op', initialized'))
    BY <1>4, <2>5, <2>6, <2>8 DEF McpOpOK
  <2>10. PipesOK(mcp_op', mcp_process')
    BY <1>1, <1>2, <2>5, PipesAtRest
  <2>11. McpStands
    BY <1>1, <1>3, <2>5, <2>9, <2>10 DEF McpStands
  <2> QED
    BY <1>1, <1>3, <2>11, StandsOn
<1> QED
  BY <1>5, <1>6

LEMMA ShutdownJobStep == ASSUME McpIInv, ShutdownJob PROVE McpIInv'
<1>1. /\ mcp_op.op # "idle" /\ mcp_op.step = "job" /\ Head(mcp_op.jobs).kind = "shutdown"
      /\ mcp_process' = [s \in McpServers |-> NoProcess]
      /\ initialized' = [s \in McpServers |-> FALSE]
      /\ mcp_alive' = mcp_alive \ {mcp_process[s].n : s \in McpServers}
      /\ Continue(Tail(mcp_op.jobs))
      /\ UNCHANGED <<tool_index, last_listing, mcp_report>>
      /\ mcp_used' = mcp_used
  BY DEF ShutdownJob
<1>2. mcp_op.op \notin {"idle", "best_effort"}
  BY <1>1, FirstJob DEF JobFits
<1>3. McpRests
  BY <1>1, <1>2, OtherEnds
<1>4. initialized' \in [McpServers -> BOOLEAN]
  BY <1>1
<1>5. ProcessesOK(mcp_process', mcp_alive') /\ \A s \in McpServers : Emptied(mcp_process'[s])
  <2>1. mcp_alive \subseteq {mcp_process[s].n : s \in McpServers}
    BY DEF McpIInv, ProcessesOK
  <2>2. mcp_alive' = {}
    BY <1>1, <2>1
  <2>3. mcp_process' \in [McpServers -> McpProcesses] /\ \A s \in McpServers : mcp_process'[s] = NoProcess
    BY <1>1, NoProcessIs
  <2> QED
    BY <2>2, <2>3, NoProcessIs DEF ProcessesOK
<1>6. McpStands
  BY <1>3, <1>4, <1>5, RestsOn
<1>7. mcp_used' \in McpCounts
  BY <1>1 DEF McpIInv
<1> QED
  BY <1>6, <1>7, StandsOn

LEMMA OneMoreId ==
  ASSUME McpIInv, NEW p \in Nat, mcp_used' = [mcp_used EXCEPT !.ids = @ + 1, !.procs = p]
                                 \/ mcp_used' = [mcp_used EXCEPT !.ids = @ + 1]
  PROVE  mcp_used' \in McpCounts
<1>1. PICK u \in McpCounts : u = mcp_used
  BY DEF McpIInv
<1>2. u.ids + 1 \in Nat
  BY DEF McpCounts
<1>3. CASE mcp_used' = [mcp_used EXCEPT !.ids = @ + 1, !.procs = p]
  BY <1>1, <1>2, <1>3 DEF McpCounts
<1>4. CASE mcp_used' = [mcp_used EXCEPT !.ids = @ + 1]
  BY <1>1, <1>2, <1>4 DEF McpCounts
<1> QED
  BY <1>3, <1>4

\* A process is started, if need be, and asked for its handshake or for what is wanted.
LEMMA EnsureStep == ASSUME McpIInv, ensure_server_ready PROVE McpIInv'
<1> DEFINE s == mcp_op.server
           spawn == mcp_process[s].n = 0 \/ Exited(s)
           n == mcp_used.procs + 1
           fresh == [NoProcess EXCEPT !.n = n]
           procs == IF spawn THEN [mcp_process EXCEPT ![s] = fresh] ELSE mcp_process
           shakes == spawn \/ ~initialized[s]
           method == IF shakes THEN "initialize" ELSE mcp_op.method
           spawned == procs[s].n # mcp_process[s].n
<1>1. mcp_op.step = "ready" /\ UNCHANGED <<tool_index, last_listing, mcp_report>>
  BY DEF ensure_server_ready
<1>2. /\ s \in McpServers /\ mcp_op \in McpOps
      /\ mcp_op.method \in {"tools/list", "tools/call", "resources/list", "resources/read"}
  BY <1>1, InHand
<1>3. /\ initialized \in [McpServers -> BOOLEAN] /\ mcp_process \in [McpServers -> McpProcesses]
      /\ 0 \notin mcp_alive /\ mcp_alive \subseteq {mcp_process[x].n : x \in McpServers}
      /\ n \in Nat /\ n # 0
  BY DEF McpIInv, ProcessesOK, McpCounts
<1>4. \A x \in McpServers : Emptied(mcp_process[x])
  BY <1>1, AllEmptied
<1>5. /\ request(s, procs, method)
      /\ initialized' = IF shakes THEN [initialized EXCEPT ![s] = FALSE] ELSE initialized
      /\ mcp_alive' = IF spawn THEN mcp_alive \cup {n} ELSE mcp_alive
  <2>1. CASE shakes
    BY <2>1, Zenon DEF ensure_server_ready
  <2>2. CASE ~shakes
    BY <2>2, Zenon DEF ensure_server_ready
  <2> QED
    BY <2>1, <2>2
<1>6. mcp_used' \in McpCounts
  <2>1. CASE shakes
    <3> DEFINE p == IF spawn THEN mcp_used.procs + 1 ELSE mcp_used.procs
    <3>1. mcp_used' = [mcp_used EXCEPT !.ids = @ + 1, !.procs = p]
      BY <2>1, Zenon DEF ensure_server_ready
    <3>2. p \in Nat
      BY DEF McpIInv, McpCounts
    <3> QED
      BY <3>1, <3>2, OneMoreId
  <2>2. CASE ~shakes
    <3>1. mcp_used' = [mcp_used EXCEPT !.ids = @ + 1]
      BY <2>2, Zenon DEF ensure_server_ready
    <3> QED
      BY <3>1, OneMoreId
  <2> QED
    BY <2>1, <2>2
<1>7. fresh \in McpProcesses /\ fresh.n = n /\ Emptied(fresh)
  <2>1. PICK p \in McpProcesses : p = NoProcess
    BY NoProcessIs
  <2>2. fresh = [p EXCEPT !.n = n]
    BY <2>1
  <2>3. Emptied(p)
    BY <2>1, NoProcessIs
  <2> HIDE DEF fresh, n
  <2> QED
    BY <2>2, <2>3, <1>3 DEF McpProcesses, Emptied
<1>8. /\ procs \in [McpServers -> McpProcesses] /\ \A x \in McpServers : Emptied(procs[x])
      /\ \A x \in McpServers : x # s \/ ~spawn => procs[x] = mcp_process[x]
      /\ spawn => procs[s] = fresh
  <2> HIDE DEF fresh, spawn, n
  <2> QED
    BY <1>2, <1>3, <1>4, <1>7
<1>9. method \in McpMethods
  BY <1>2 DEF McpMethods
<1>10. spawn => shakes
  OBVIOUS
<1>11. spawned \in BOOLEAN /\ (~spawn => ~spawned)
  OBVIOUS
<1>12. shakes \/ initialized[s]
  OBVIOUS
<1>13. spawn => mcp_process[s].n \notin mcp_alive
  BY <1>3 DEF Exited
<1>14. (shakes => method = "initialize") /\ (~shakes => method = mcp_op.method)
  OBVIOUS
<1> HIDE DEF spawn, n, fresh, procs, method, shakes
<1>15. /\ Asked(mcp_op, mcp_op', method, spawned)
       /\ mcp_process' \in [McpServers -> McpProcesses]
       /\ \A x \in McpServers : mcp_process'[x].n = procs[x].n
       /\ PipesOK(mcp_op', mcp_process')
  BY <1>1, <1>5, <1>8, <1>9, RequestStep
<1>16. ProcessesOK(mcp_process', mcp_alive')
  <2>1. 0 \notin mcp_alive'
    BY <1>3, <1>5
  <2>2. ASSUME NEW m \in mcp_alive' PROVE \E x \in McpServers : m = mcp_process'[x].n
    <3>1. CASE spawn /\ m = n
      BY <3>1, <1>2, <1>7, <1>8, <1>15
    <3>2. CASE m \in mcp_alive
      <4>1. PICK x \in McpServers : m = mcp_process[x].n
        BY <3>2, <1>3
      <4>2. x # s \/ ~spawn
        BY <4>1, <3>2, <1>13
      <4> QED
        BY <4>1, <4>2, <1>8, <1>15
    <3> QED
      BY <3>1, <3>2, <1>5
  <2> QED
    BY <1>15, <2>1, <2>2 DEF ProcessesOK
<1>17. initialized' \in [McpServers -> BOOLEAN] /\ initialized'[s] = ~shakes
  BY <1>2, <1>3, <1>5, <1>12
<1>18. SameJob(mcp_op, mcp_op') /\ mcp_op'.step # "job"
  BY <1>15 DEF Asked, SameJob
<1>19. SpendingOK(mcp_op', Shaken(mcp_op', initialized'))
  <2>1. /\ SpendingOK(mcp_op, initialized[s])
        /\ mcp_op.attempts \in Nat /\ mcp_op.tries \in Nat /\ mcp_op.spawns \in Nat /\ mcp_op.calls \in Nat
    BY <1>1, SpendingIs
  <2>2. /\ mcp_op.attempts <= 1 /\ mcp_op.tries <= 1 /\ mcp_op.spawns <= 2 * mcp_op.attempts + mcp_op.tries
        /\ mcp_op.calls = 0
    BY <1>1, <2>1 DEF SpendingOK
  <2>3. Shaken(mcp_op', initialized') = ~shakes
    BY <1>2, <1>15, <1>17 DEF Asked, Shaken
  <2>4. /\ mcp_op'.step = "wait" /\ mcp_op'.attempts = mcp_op.attempts /\ mcp_op'.method = mcp_op.method
        /\ mcp_op'.tries = (IF method = "initialize" THEN mcp_op.tries ELSE 0)
        /\ mcp_op'.spawns = (IF spawned THEN mcp_op.spawns + 1 ELSE mcp_op.spawns)
        /\ mcp_op'.calls = (IF method = "tools/call" THEN mcp_op.calls + 1 ELSE mcp_op.calls)
    BY <1>15 DEF Asked
  <2> HIDE DEF spawned, s
  <2>5. CASE shakes
    <3>1. /\ mcp_op'.tries = mcp_op.tries /\ mcp_op'.calls = 0
          /\ (mcp_op'.spawns = mcp_op.spawns \/ mcp_op'.spawns = mcp_op.spawns + 1)
      BY <2>2, <2>4, <2>5, <1>14
    <3>2. ~Shaken(mcp_op', initialized')
      BY <2>3, <2>5
    <3> QED
      BY <3>1, <3>2, <2>1, <2>2, <2>4 DEF SpendingOK
  <2>6. CASE ~shakes
    <3>1. /\ mcp_op'.tries = 0 /\ mcp_op'.spawns = mcp_op.spawns
          /\ mcp_op'.calls <= 1 /\ (mcp_op'.method # "tools/call" => mcp_op'.calls = 0)
      BY <2>1, <2>2, <2>4, <2>6, <1>2, <1>10, <1>11, <1>14
    <3>2. Shaken(mcp_op', initialized')
      BY <2>3, <2>6
    <3> QED
      BY <3>1, <3>2, <2>1, <2>2, <2>4 DEF SpendingOK
  <2> QED
    BY <2>5, <2>6
<1>20. McpStands
  BY <1>1, <1>15, <1>16, <1>17, <1>18, <1>19, SameJobStands
<1> QED
  BY <1>6, <1>20, StandsOn

LEMMA NextRequestStep == ASSUME McpIInv, next_request PROVE McpIInv'
<1> DEFINE s == mcp_op.server
<1>1. /\ mcp_op.step = "send" /\ request(s, mcp_process, mcp_op.method)
      /\ mcp_used' = [mcp_used EXCEPT !.ids = @ + 1]
      /\ UNCHANGED <<initialized, mcp_alive, tool_index, last_listing, mcp_report>>
  BY DEF next_request
<1>2. /\ s \in McpServers /\ mcp_op \in McpOps /\ mcp_op.method \in McpMethods /\ mcp_op.method # "initialize"
  BY <1>1, InHand DEF McpMethods
<1>3. /\ initialized \in [McpServers -> BOOLEAN] /\ mcp_process \in [McpServers -> McpProcesses]
      /\ 0 \notin mcp_alive /\ mcp_alive \subseteq {mcp_process[x].n : x \in McpServers}
  BY DEF McpIInv, ProcessesOK
<1>4. \A x \in McpServers : Emptied(mcp_process[x])
  BY <1>1, AllEmptied
<1>5. /\ Asked(mcp_op, mcp_op', mcp_op.method, mcp_process[s].n # mcp_process[s].n)
      /\ mcp_process' \in [McpServers -> McpProcesses]
      /\ \A x \in McpServers : mcp_process'[x].n = mcp_process[x].n
      /\ PipesOK(mcp_op', mcp_process')
  BY <1>1, <1>2, <1>3, <1>4, RequestStep
<1>6. ProcessesOK(mcp_process', mcp_alive')
  BY <1>1, <1>3, <1>5 DEF ProcessesOK
<1>7. SameJob(mcp_op, mcp_op') /\ mcp_op'.step # "job"
  BY <1>5 DEF Asked, SameJob
<1>8. SpendingOK(mcp_op', Shaken(mcp_op', initialized'))
  <2>1. /\ SpendingOK(mcp_op, initialized[s]) /\ initialized[s] \in BOOLEAN
        /\ mcp_op.attempts \in Nat /\ mcp_op.tries \in Nat /\ mcp_op.spawns \in Nat /\ mcp_op.calls \in Nat
    BY <1>1, SpendingIs
  <2>2. Shaken(mcp_op', initialized') = initialized[s]
    <3>1. initialized' = initialized /\ mcp_op'.server = s /\ initialized[s] \in BOOLEAN
      BY <1>1, <1>5, <2>1 DEF Asked
    <3> HIDE DEF s
    <3> QED
      BY <3>1, <1>2 DEF Shaken
  <2>3. /\ mcp_op'.step = "wait" /\ mcp_op'.attempts = mcp_op.attempts /\ mcp_op'.method = mcp_op.method
        /\ mcp_op'.tries = 0 /\ mcp_op'.spawns = mcp_op.spawns
        /\ mcp_op'.calls = (IF mcp_op.method = "tools/call" THEN mcp_op.calls + 1 ELSE mcp_op.calls)
    BY <1>2, <1>5 DEF Asked
  <2>4. initialized[s] /\ mcp_op.attempts <= 1 /\ mcp_op.spawns <= 2 * mcp_op.attempts + 2 /\ mcp_op.calls = 0
    BY <1>1, <2>1 DEF SpendingOK
  <2>5. mcp_op'.calls <= 1 /\ (mcp_op.method # "tools/call" => mcp_op'.calls = 0)
    BY <2>1, <2>3, <2>4
  <2>6. Shaken(mcp_op', initialized')
    BY <2>2, <2>4
  <2>7. mcp_op'.attempts \in Nat /\ mcp_op'.spawns <= 2 * mcp_op'.attempts + 2
    BY <2>1, <2>3, <2>4
  <2>8. mcp_op'.step = "wait" /\ mcp_op'.attempts <= 1 /\ mcp_op'.tries <= 1 /\ mcp_op'.method = mcp_op.method
    BY <2>3, <2>4
  <2> QED
    BY <2>5, <2>6, <2>7, <2>8 DEF SpendingOK
<1>9. McpStands
  BY <1>1, <1>3, <1>5, <1>6, <1>7, <1>8, SameJobStands
<1>10. mcp_used' \in McpCounts
  BY <1>1, OneMoreId
<1> QED
  BY <1>9, <1>10, StandsOn

LEMMA SpawnFailsStep == ASSUME McpIInv, SpawnFails PROVE McpIInv'
<1>1. mcp_op.step = "ready" /\ FaultCount /\ reset_server(mcp_op.server) /\ JobFails
  BY DEF SpawnFails
<1>2. mcp_op.server \in McpServers
  BY <1>1, InHand
<1>3. /\ ProcessesOK(mcp_process', mcp_alive') /\ initialized' \in [McpServers -> BOOLEAN]
      /\ Emptied(mcp_process'[mcp_op.server])
      /\ \A x \in McpServers : x # mcp_op.server => mcp_process'[x] = mcp_process[x]
  BY <1>1, <1>2, ResetStep
<1>4. \A x \in McpServers : Emptied(mcp_process'[x])
  BY <1>1, <1>3, AllEmptied
<1>5. McpStands
  BY <1>1, <1>3, <1>4, JobFailsStep, RestsOn
<1> QED
  BY <1>1, <1>5, FaultIs, StandsOn

LEMMA TimesOutStep == ASSUME McpIInv, RequestTimesOut PROVE McpIInv'
<1>1. mcp_op.step = "wait" /\ FaultCount /\ RequestFails("Timeout")
  BY DEF RequestTimesOut
<1> QED
  BY <1>1, RequestFailsStep, FaultIs, StandsOn

LEMMA ClosesStep == ASSUME McpIInv, PipeCloses PROVE McpIInv'
<1>1. mcp_op.step = "wait" /\ mcp_used' = mcp_used /\ RequestFails("Transport")
  BY DEF PipeCloses
<1>2. mcp_used' \in McpCounts
  BY <1>1 DEF McpIInv
<1> QED
  BY <1>1, <1>2, RequestFailsStep, StandsOn

LEMMA FinishJobStep == ASSUME McpIInv, FinishJob PROVE McpIInv'
<1>1. /\ mcp_op.step = "done" /\ JobDone
      /\ UNCHANGED <<mcp_process, initialized, mcp_alive>> /\ mcp_used' = mcp_used
  BY DEF FinishJob
<1>2. \A x \in McpServers : Emptied(mcp_process[x])
  BY <1>1, AllEmptied
<1>3. initialized \in [McpServers -> BOOLEAN] /\ ProcessesOK(mcp_process, mcp_alive) /\ mcp_used \in McpCounts
  BY DEF McpIInv
<1>4. McpStands
  BY <1>1, <1>2, <1>3, JobDoneStep, RestsOn
<1> QED
  BY <1>1, <1>3, <1>4, StandsOn

LEMMA ServerDiesStep == ASSUME McpIInv, NEW s \in McpServers, ServerDies(s) PROVE McpIInv'
<1>1. /\ FaultCount /\ mcp_alive' \subseteq mcp_alive
      /\ UNCHANGED <<mcp_process, initialized, tool_index, mcp_op, last_listing, mcp_report>>
  BY DEF ServerDies
<1>2. ProcessesOK(mcp_process', mcp_alive')
  BY <1>1 DEF McpIInv, ProcessesOK
<1> QED
  BY <1>1, <1>2, FaultIs DEF McpIInv

\* What was wanted is answered on the same pipe.
LEMMA DispatchStep ==
  ASSUME McpIInv, NEW s \in McpServers, NEW kind \in AnswerKinds, NEW ts \in SUBSET RawTools,
         McpServer_dispatch(s, kind, ts)
  PROVE  McpIInv'
<1> DEFINE wanted == Head(mcp_process[s].inbox)
           a == [id |-> wanted.id, kind |-> kind, tools |-> ts]
<1>1. /\ mcp_process[s].inbox # <<>>
      /\ mcp_process' = [mcp_process EXCEPT ![s].inbox = Tail(@), ![s].outbox = Append(@, a)]
      /\ UNCHANGED <<initialized, mcp_alive, tool_index, mcp_op, last_listing, mcp_report>>
      /\ mcp_used' = mcp_used \/ FaultCount
  BY DEF McpServer_dispatch
<1>2. /\ mcp_process \in [McpServers -> McpProcesses] /\ 0 \notin mcp_alive
      /\ mcp_alive \subseteq {mcp_process[x].n : x \in McpServers} /\ PipesOK(mcp_op, mcp_process)
  BY DEF McpIInv, ProcessesOK
<1>3. PICK p \in McpProcesses : p = mcp_process[s]
  BY <1>2
<1>4. p.inbox \in Seq(McpRequests) /\ p.outbox \in Seq(McpAnswers) /\ p.n \in Nat /\ p.inbox # <<>>
  BY <1>1, <1>3 DEF McpProcesses
<1>5. Head(p.inbox) \in McpRequests
  BY <1>4
<1>6. a \in McpAnswers
  BY <1>3, <1>5 DEF McpRequests, McpAnswers
<1> HIDE DEF a, wanted
<1>7. PICK i \in Seq(McpRequests) :
         i = Tail(p.inbox) /\ Len(i) = Len(p.inbox) - 1 /\ Len(p.inbox) \in Nat
  <2>1. Tail(p.inbox) \in Seq(McpRequests) /\ Len(Tail(p.inbox)) = Len(p.inbox) - 1 /\ Len(p.inbox) \in Nat
    BY <1>4
  <2> QED
    BY <2>1, Zenon
<1>8. PICK o \in Seq(McpAnswers) :
         o = Append(p.outbox, a) /\ Len(o) = Len(p.outbox) + 1 /\ Len(p.outbox) \in Nat
  <2>1. Append(p.outbox, a) \in Seq(McpAnswers) /\ Len(Append(p.outbox, a)) = Len(p.outbox) + 1 /\ Len(p.outbox) \in Nat
    BY <1>4, <1>6
  <2> QED
    BY <2>1, Zenon
<1>9. PICK p2 \in McpProcesses : p2.n = p.n /\ p2.inbox = i /\ p2.outbox = o /\ p2 = [p EXCEPT !.inbox = i, !.outbox = o]
  BY <1>4 DEF McpProcesses
<1>10. mcp_process' = [mcp_process EXCEPT ![s] = p2]
  BY <1>1, <1>2, <1>3, <1>7, <1>8, <1>9
<1>11. /\ mcp_process' \in [McpServers -> McpProcesses] /\ mcp_process'[s] = p2
       /\ \A x \in McpServers : x # s => mcp_process'[x] = mcp_process[x]
  BY <1>2, <1>10
<1>12. \A x \in McpServers : mcp_process'[x].n = mcp_process[x].n
  BY <1>3, <1>9, <1>11
<1>13. ProcessesOK(mcp_process', mcp_alive')
  <2>1. ASSUME NEW m \in mcp_alive' PROVE \E x \in McpServers : m = mcp_process'[x].n
    BY <1>1, <1>2, <1>12
  <2> QED
    BY <1>1, <1>2, <1>11, <2>1 DEF ProcessesOK
<1>14. WaitsFor(mcp_op, s) /\ Len(p.inbox) + Len(p.outbox) = 1
  BY <1>2, <1>3, <1>4, PipesHold DEF Emptied
<1>15. PipesOK(mcp_op, mcp_process')
  <2> SUFFICES ASSUME NEW x \in McpServers PROVE PipeOK(mcp_process'[x], WaitsFor(mcp_op, x))
    BY DEF PipesOK
  <2>1. CASE x = s
    <3>1. Len(i) + Len(o) = 1
      <4>1. PICK m, n \in Nat : m = Len(p.inbox) /\ n = Len(p.outbox)
        BY <1>7, <1>8, Zenon
      <4>2. Len(i) = m - 1 /\ Len(o) = n + 1 /\ m + n = 1
        BY <1>7, <1>8, <1>14, <4>1, Zenon
      <4>3. m - 1 + (n + 1) = 1
        BY <4>2
      <4> QED
        BY <4>2, <4>3, Zenon
    <3>2. mcp_process'[x].inbox = i /\ mcp_process'[x].outbox = o /\ WaitsFor(mcp_op, x)
      BY <2>1, <1>9, <1>11, <1>14
    <3> QED
      BY <3>1, <3>2 DEF PipeOK
  <2>2. CASE x # s
    BY <2>2, <1>2, <1>11 DEF PipesOK
  <2> QED
    BY <2>1, <2>2
<1>16. mcp_used' \in McpCounts
  BY <1>1, FaultIs DEF McpIInv
<1> QED
  BY <1>1, <1>13, <1>15, <1>16 DEF McpIInv

\* The answer is taken off the pipe, which is empty then.
LEMMA TakenStep ==
  ASSUME McpIInv, mcp_op.step = "wait", mcp_process[mcp_op.server].outbox # <<>>,
         mcp_process' = [mcp_process EXCEPT ![mcp_op.server].outbox = Tail(@)], mcp_alive' = mcp_alive
  PROVE  ProcessesOK(mcp_process', mcp_alive') /\ \A x \in McpServers : Emptied(mcp_process'[x])
<1> DEFINE s == mcp_op.server
<1>1. /\ mcp_process \in [McpServers -> McpProcesses] /\ 0 \notin mcp_alive
      /\ mcp_alive \subseteq {mcp_process[x].n : x \in McpServers} /\ PipesOK(mcp_op, mcp_process)
  BY DEF McpIInv, ProcessesOK
<1>2. s \in McpServers
  BY InHand
<1>3. PICK p \in McpProcesses : p = mcp_process[s]
  BY <1>1, <1>2
<1>4. p.inbox \in Seq(McpRequests) /\ p.outbox \in Seq(McpAnswers) /\ p.outbox # <<>>
  BY <1>3 DEF McpProcesses
<1>5. Len(p.inbox) + Len(p.outbox) = 1
  BY <1>1, <1>2, <1>3, PipesHold DEF WaitsFor
<1>6. Tail(p.outbox) = <<>> /\ p.inbox = <<>> /\ Tail(p.outbox) \in Seq(McpAnswers)
  <2>1. p.inbox = <<>> /\ Len(p.outbox) = 1
    <3>1. PICK m, n \in Nat : m = Len(p.inbox) /\ n = Len(p.outbox)
      BY <1>4, LenIs, Zenon
    <3>2. n # 0 /\ m + n = 1 /\ (m = 0 => p.inbox = <<>>)
      BY <1>4, <1>5, <3>1, LenIs, Zenon
    <3>3. m = 0 /\ n = 1
      BY <3>2
    <3> QED
      BY <3>1, <3>2, <3>3, Zenon
  <2>2. Tail(p.outbox) \in Seq(McpAnswers) /\ Len(Tail(p.outbox)) = 0
    BY <1>4, <2>1
  <2> QED
    BY <2>1, <2>2, LenIs
<1>7. PICK p2 \in McpProcesses : p2.n = p.n /\ Emptied(p2) /\ p2 = [p EXCEPT !.outbox = Tail(p.outbox)]
  BY <1>6 DEF McpProcesses, Emptied
<1>8. mcp_process' = [mcp_process EXCEPT ![s] = p2]
  BY <1>3, <1>7
<1>9. /\ mcp_process' \in [McpServers -> McpProcesses] /\ mcp_process'[s] = p2
      /\ \A x \in McpServers : x # s => mcp_process'[x] = mcp_process[x]
  BY <1>1, <1>2, <1>8
<1>10. \A x \in McpServers : mcp_process'[x].n = mcp_process[x].n
  BY <1>3, <1>7, <1>9
<1>11. ProcessesOK(mcp_process', mcp_alive')
  <2>1. ASSUME NEW m \in mcp_alive' PROVE \E x \in McpServers : m = mcp_process'[x].n
    BY <1>1, <1>10
  <2> QED
    BY <1>1, <1>9, <2>1 DEF ProcessesOK
<1>12. \A x \in McpServers : Emptied(mcp_process'[x])
  <2> SUFFICES ASSUME NEW x \in McpServers, x # s PROVE Emptied(mcp_process'[x])
    BY <1>7, <1>9
  <2>1. ~WaitsFor(mcp_op, x)
    BY DEF WaitsFor
  <2> QED
    BY <1>1, <1>9, <2>1, PipesHold
<1> QED
  BY <1>11, <1>12

\* The job goes on from an answer.
LEMMA GoesOn ==
  ASSUME McpIInv, mcp_op.step = "wait", NEW found \in SUBSET RawTools, NEW step \in {"send", "done"},
         mcp_op' = [mcp_op EXCEPT !.step = step, !.found = found]
         \/ mcp_op' = [mcp_op EXCEPT !.step = step]
  PROVE  /\ SameJob(mcp_op, mcp_op') /\ mcp_op'.step = step
         /\ mcp_op'.attempts = mcp_op.attempts /\ mcp_op'.tries = mcp_op.tries
         /\ mcp_op'.spawns = mcp_op.spawns /\ mcp_op'.calls = mcp_op.calls
<1>1. PICK o \in McpOps : o = mcp_op
  BY InHand
<1>2. CASE mcp_op' = [o EXCEPT !.step = step, !.found = found]
  BY <1>1, <1>2 DEF McpOps, SameJob
<1>3. CASE mcp_op' = [o EXCEPT !.step = step]
  BY <1>1, <1>3 DEF McpOps, SameJob
<1> QED
  BY <1>1, <1>2, <1>3

LEMMA ReadStep == ASSUME McpIInv, read_response PROVE McpIInv'
<1> DEFINE s == mcp_op.server
           answer == Head(mcp_process[s].outbox)
           taken == [mcp_process EXCEPT ![s].outbox = Tail(@)]
           wrong == answer.kind = "odd" \/ answer.id # mcp_op.id
           calling == mcp_op.method = "tools/call"
<1>1. mcp_op.step = "wait" /\ mcp_process[s].outbox # <<>> /\ mcp_used' = mcp_used
  BY DEF read_response
<1>2. /\ s \in McpServers /\ mcp_op \in McpOps
      /\ initialized \in [McpServers -> BOOLEAN] /\ mcp_process \in [McpServers -> McpProcesses] /\ mcp_used \in McpCounts
  BY <1>1, InHand DEF McpIInv, ProcessesOK
<1>3. answer \in McpAnswers
  <2>1. mcp_process[s].outbox \in Seq(McpAnswers)
    BY <1>2 DEF McpProcesses
  <2> QED
    BY <1>1, <2>1
<1>4. answer.kind \in {"ok", "more", "error", "empty", "odd"} /\ answer.tools \in SUBSET RawTools
  BY <1>3 DEF McpAnswers, AnswerKinds
<1>5. Handshaking <=> ~initialized[s]
  BY <1>1 DEF Handshaking
<1>6. mcp_op.found \cup answer.tools \in SUBSET RawTools
  BY <1>2, <1>4 DEF McpOps
<1>7. \/ RequestFails("InvalidResponse")
      \/ mcp_process' = taken /\ JobFails /\ UNCHANGED <<initialized, mcp_alive>>
      \/ /\ Handshaking /\ mcp_process' = taken
         /\ initialized' = [initialized EXCEPT ![s] = TRUE]
         /\ mcp_op' = [mcp_op EXCEPT !.step = "send"]
         /\ UNCHANGED <<mcp_alive, tool_index, last_listing, mcp_report>>
      \/ /\ ~Handshaking /\ ~calling /\ mcp_process' = taken
         /\ mcp_op' = [mcp_op EXCEPT !.step = "send", !.found = @ \cup answer.tools]
         /\ UNCHANGED <<initialized, mcp_alive, tool_index, last_listing, mcp_report>>
      \/ /\ ~Handshaking /\ mcp_process' = taken
         /\ mcp_op' = [mcp_op EXCEPT !.step = "done", !.found = @ \cup answer.tools]
         /\ UNCHANGED <<initialized, mcp_alive, tool_index, last_listing, mcp_report>>
  <2> HIDE DEF taken
  <2>1. CASE wrong
    BY <2>1, Zenon DEF read_response, taken
  <2>2. CASE ~wrong /\ answer.kind = "empty"
    BY <2>2 DEF read_response, taken
  <2>3. CASE ~wrong /\ answer.kind = "error"
    BY <2>3 DEF read_response, taken
  <2>4. CASE ~wrong /\ answer.kind = "ok"
    BY <2>4 DEF read_response, taken
  <2>5. CASE ~wrong /\ answer.kind = "more"
    BY <2>5 DEF read_response, taken
  <2> QED
    BY <1>4, <2>1, <2>2, <2>3, <2>4, <2>5
<1> HIDE DEF answer
<1>8. /\ SpendingOK(mcp_op, initialized[s]) /\ initialized[s] \in BOOLEAN
      /\ mcp_op.attempts \in Nat /\ mcp_op.tries \in Nat /\ mcp_op.spawns \in Nat /\ mcp_op.calls \in Nat
  BY <1>1, SpendingIs
<1>9. McpStands
  <2>1. CASE RequestFails("InvalidResponse")
    BY <1>1, <2>1, RequestFailsStep
  <2>2. CASE mcp_process' = taken /\ JobFails /\ UNCHANGED <<initialized, mcp_alive>>
    <3>1. ProcessesOK(mcp_process', mcp_alive') /\ \A x \in McpServers : Emptied(mcp_process'[x])
      BY <1>1, <2>2, TakenStep
    <3> QED
      BY <1>1, <1>2, <2>2, <3>1, JobFailsStep, RestsOn
  <2>3. CASE /\ Handshaking /\ mcp_process' = taken
             /\ initialized' = [initialized EXCEPT ![s] = TRUE]
             /\ mcp_op' = [mcp_op EXCEPT !.step = "send"]
             /\ UNCHANGED <<mcp_alive, tool_index, last_listing, mcp_report>>
    <3>1. ProcessesOK(mcp_process', mcp_alive') /\ \A x \in McpServers : Emptied(mcp_process'[x])
      BY <1>1, <2>3, TakenStep
    <3>2. /\ SameJob(mcp_op, mcp_op') /\ mcp_op'.step = "send"
          /\ mcp_op'.attempts = mcp_op.attempts /\ mcp_op'.tries = mcp_op.tries
          /\ mcp_op'.spawns = mcp_op.spawns /\ mcp_op'.calls = mcp_op.calls
      BY <1>1, <1>6, <2>3, GoesOn
    <3>3. initialized' \in [McpServers -> BOOLEAN] /\ initialized'[s]
      BY <1>2, <2>3
    <3>4. Shaken(mcp_op', initialized')
      BY <1>2, <3>2, <3>3 DEF Shaken, SameJob
    <3>5. /\ mcp_op.attempts <= 1 /\ mcp_op.tries <= 1 /\ mcp_op.calls = 0
          /\ mcp_op.spawns <= 2 * mcp_op.attempts + mcp_op.tries + 1
      BY <1>1, <1>5, <1>8, <2>3 DEF SpendingOK
    <3>6. mcp_op.spawns <= 2 * mcp_op.attempts + 2
      BY <1>8, <3>5
    <3>7. SpendingOK(mcp_op', Shaken(mcp_op', initialized'))
      BY <3>2, <3>4, <3>5, <3>6 DEF SpendingOK
    <3>8. PipesOK(mcp_op', mcp_process')
      BY <3>1, <3>2, PipesAtRest
    <3> QED
      BY <1>1, <2>3, <3>1, <3>2, <3>3, <3>7, <3>8, SameJobStands
  <2>4. CASE \E step \in {"send", "done"} :
                /\ ~Handshaking /\ mcp_process' = taken /\ (step = "send" => ~calling)
                /\ mcp_op' = [mcp_op EXCEPT !.step = step, !.found = @ \cup answer.tools]
                /\ UNCHANGED <<initialized, mcp_alive, tool_index, last_listing, mcp_report>>
    <3>1. ProcessesOK(mcp_process', mcp_alive') /\ \A x \in McpServers : Emptied(mcp_process'[x])
      BY <1>1, <2>4, TakenStep
    <3>2. PICK step \in {"send", "done"} :
             /\ step = "send" => ~calling
             /\ mcp_op' = [mcp_op EXCEPT !.step = step, !.found = @ \cup answer.tools]
      BY <2>4
    <3>3. /\ SameJob(mcp_op, mcp_op') /\ mcp_op'.step = step
          /\ mcp_op'.attempts = mcp_op.attempts /\ mcp_op'.tries = mcp_op.tries
          /\ mcp_op'.spawns = mcp_op.spawns /\ mcp_op'.calls = mcp_op.calls
      BY <1>1, <1>6, <3>2, GoesOn
    <3>4. UNCHANGED <<initialized, tool_index, last_listing, mcp_report>> /\ initialized[s]
      BY <1>5, <2>4
    <3>5. Shaken(mcp_op', initialized')
      BY <1>2, <3>3, <3>4 DEF Shaken, SameJob
    <3>6. /\ mcp_op.attempts <= 1 /\ mcp_op.tries <= 1 /\ mcp_op.calls <= 1
          /\ mcp_op.spawns <= 2 * mcp_op.attempts + 2 /\ (~calling => mcp_op.calls = 0)
      BY <1>1, <1>8, <3>4 DEF SpendingOK
    <3>7. SpendingOK(mcp_op', Shaken(mcp_op', initialized'))
      BY <3>2, <3>3, <3>5, <3>6 DEF SpendingOK
    <3>8. PipesOK(mcp_op', mcp_process')
      BY <3>1, <3>3, PipesAtRest
    <3> QED
      BY <1>1, <1>2, <3>1, <3>3, <3>4, <3>7, <3>8, SameJobStands
  <2> QED
    BY <1>7, <2>1, <2>2, <2>3, <2>4
<1> QED
  BY <1>1, <1>2, <1>9, StandsOn

LEMMA OneJob ==
  ASSUME NEW op \in {"call", "read", "shutdown"}, NEW job \in McpJobs, JobFits(op, job)
  PROVE  <<job>> \in Seq(McpJobs) /\ JobsInOrder(op, <<job>>)
<1>1. <<job>> \in Seq(McpJobs) /\ Len(<<job>>) = 1 /\ <<job>>[1] = job /\ <<job>> # <<>>
  OBVIOUS
<1>2. \A i \in 1 .. Len(<<job>>) : <<job>>[i] = job
  BY <1>1
<1> QED
  BY <1>1, <1>2 DEF JobsInOrder

LEMMA ListJobs ==
  ASSUME NEW kind \in {"tools/list", "resources/list"}, NEW op, op # "idle",
         kind = "tools/list" <=> op \in {"discover", "best_effort", "bridge"}
  PROVE  JobsFor(kind) \in Seq(McpJobs) /\ JobsInOrder(op, JobsFor(kind))
<1>1. /\ JobsFor(kind) \in Seq(McpJobs) /\ JobsFor(kind) # <<>>
      /\ \A i \in 1 .. Len(JobsFor(kind)) : JobsFor(kind)[i].kind = kind /\ JobsFor(kind)[i].server \in McpServers
      /\ \A i, j \in 1 .. Len(JobsFor(kind)) : i # j => JobsFor(kind)[i].server # JobsFor(kind)[j].server
  BY JobsForAll
<1> QED
  BY <1>1 DEF JobsInOrder, JobFits

LEMMA BridgeJobs ==
  ASSUME NEW q \in QualifiedNames
  PROVE  LET jobs == JobsFor("tools/list") \o <<CallJob(q), [kind |-> "shutdown",
                                                server |-> "none", tool |-> <<>>]>>
         IN  jobs \in Seq(McpJobs) /\ JobsInOrder("bridge", jobs)
<1> DEFINE a == JobsFor("tools/list")
           b == <<CallJob(q), [kind |-> "shutdown", server |-> "none", tool |-> <<>>]>>
<1>1. a \in Seq(McpJobs) /\ JobsInOrder("bridge", a)
  BY ListJobs
<1>2. b \in Seq(McpJobs) /\ Len(b) = 2 /\ JobFits("bridge", b[1]) /\ JobFits("bridge", b[2])
  BY DEF CallJob, McpJobs, JobFits
<1> HIDE DEF a, b
<1>3. /\ a \o b \in Seq(McpJobs) /\ Len(a \o b) = Len(a) + 2 /\ Len(a) \in Nat
      /\ \A i \in 1 .. Len(a) : (a \o b)[i] = a[i]
      /\ (a \o b)[Len(a) + 1] = b[1] /\ (a \o b)[Len(a) + 2] = b[2]
  <2>1. PICK n \in Nat : n = Len(a)
    BY <1>1
  <2>2. /\ a \o b \in Seq(McpJobs) /\ Len(a \o b) = n + 2
        /\ \A i \in 1 .. n + 2 : (a \o b)[i] = IF i <= n THEN a[i] ELSE b[i - n]
    <3>1. /\ a \o b \in Seq(McpJobs) /\ Len(a \o b) = Len(a) + Len(b)
          /\ \A i \in 1 .. Len(a) + Len(b) : (a \o b)[i] = IF i <= Len(a) THEN a[i] ELSE b[i - Len(a)]
      BY <1>1, <1>2, ConcatProperties
    <3> QED
      BY <1>2, <2>1, <3>1, Zenon
  <2>3. \A i \in 1 .. n : (a \o b)[i] = a[i]
    BY <2>2
  <2>4. (a \o b)[n + 1] = b[1] /\ (a \o b)[n + 2] = b[2]
    <3>1. n + 1 \in 1 .. n + 2 /\ n + 2 \in 1 .. n + 2 /\ ~(n + 1 <= n) /\ ~(n + 2 <= n) /\ n + 1 - n = 1 /\ n + 2 - n = 2
      OBVIOUS
    <3>2. (a \o b)[n + 1] = b[n + 1 - n] /\ (a \o b)[n + 2] = b[n + 2 - n]
      <4> DEFINE E(i) == IF i <= n THEN a[i] ELSE b[i - n]
      <4>1. (a \o b)[n + 1] = E(n + 1) /\ (a \o b)[n + 2] = E(n + 2)
        BY <2>2, <3>1, Zenon
      <4> QED
        BY <3>1, <4>1
    <3> QED
      BY <3>1, <3>2, Zenon
  <2> QED
    BY <2>1, <2>2, <2>3, <2>4
<1>4. a \o b # <<>>
  BY <1>3
<1>5. ASSUME NEW i \in 1 .. Len(a \o b) PROVE JobFits("bridge", (a \o b)[i])
  <2>1. i \in 1 .. Len(a) \/ i = Len(a) + 1 \/ i = Len(a) + 2
    BY <1>3
  <2> QED
    BY <1>1, <1>2, <1>3, <2>1 DEF JobsInOrder
<1>6. JobsInOrder("bridge", a \o b)
  BY <1>4, <1>5 DEF JobsInOrder
<1> QED
  BY <1>3, <1>6 DEF a, b

LEMMA McpStart == McpInit => McpIInv
<1> SUFFICES ASSUME McpInit PROVE McpIInv
  OBVIOUS
<1>1. /\ mcp_process = [s \in McpServers |-> NoProcess] /\ initialized = [s \in McpServers |-> FALSE]
      /\ mcp_alive = {} /\ tool_index = <<>> /\ mcp_op = IdleManager
      /\ mcp_used = [procs |-> 0, ids |-> 0, ops |-> 0, faults |-> 0]
      /\ last_listing = [s \in McpServers |-> {}] /\ mcp_report = NoReport
  BY DEF McpInit
<1>2. initialized \in [McpServers -> BOOLEAN] /\ mcp_used \in McpCounts
  BY <1>1 DEF McpCounts
<1>3. ProcessesOK(mcp_process, mcp_alive) /\ \A s \in McpServers : Emptied(mcp_process[s])
  BY <1>1, NoProcessIs DEF ProcessesOK
<1>4. McpOpOK(mcp_op, Shaken(mcp_op, initialized))
  BY <1>1, <1>2, IdleManagerIs, ShakenIs
<1>5. PipesOK(mcp_op, mcp_process)
  BY <1>1, <1>3, IdleManagerIs, PipesAtRest
<1>6. DOMAIN tool_index = {}
  BY <1>1
<1>7. RoutesOK(tool_index, last_listing)
  BY <1>1, <1>6 DEF RoutesOK
<1>8. ReportOK(mcp_op.op, mcp_op.jobs, tool_index, mcp_report)
  BY <1>1, <1>6, IdleManagerIs DEF ReportOK, NoReport, McpReports
<1> QED
  BY <1>2, <1>3, <1>4, <1>5, <1>7, <1>8 DEF McpIInv

LEMMA McpStep == ASSUME McpIInv, McpNext PROVE McpIInv'
<1>1. CASE discover_tools
  BY <1>1, BeginStep, ListJobs DEF discover_tools
<1>2. CASE discover_tools_best_effort
  BY <1>2, BeginStep, ListJobs DEF discover_tools_best_effort
<1>3. CASE list_resources_for_all_servers
  <2>1. JobsFor("resources/list") \in Seq(McpJobs) /\ JobsInOrder("list_all", JobsFor("resources/list"))
    BY ListJobs
  <2> QED
    BY <1>3, <2>1, BeginStep DEF list_resources_for_all_servers
<1>4. CASE shutdown_mcp
  <2> DEFINE job == [kind |-> "shutdown", server |-> "none", tool |-> <<>>]
  <2>1. job \in McpJobs /\ JobFits("shutdown", job)
    BY DEF McpJobs, JobFits
  <2>2. <<job>> \in Seq(McpJobs) /\ JobsInOrder("shutdown", <<job>>)
    BY <2>1, OneJob
  <2>3. Begin("shutdown", <<job>>)
    BY <1>4 DEF shutdown_mcp
  <2> QED
    BY <2>2, <2>3, BeginStep
<1>5. ASSUME NEW q \in QualifiedNames, call_tool(q) PROVE McpIInv'
  <2>1. CallJob(q) \in McpJobs /\ JobFits("call", CallJob(q))
    BY DEF CallJob, McpJobs, JobFits
  <2>2. <<CallJob(q)>> \in Seq(McpJobs) /\ JobsInOrder("call", <<CallJob(q)>>)
    BY <2>1, OneJob
  <2>3. Begin("call", <<CallJob(q)>>)
    BY <1>5 DEF call_tool
  <2> QED
    BY <2>2, <2>3, BeginStep
<1>6. ASSUME NEW q \in QualifiedNames, spawn_tool_call(q) PROVE McpIInv'
  <2> DEFINE jobs == JobsFor("tools/list") \o <<CallJob(q), [kind |-> "shutdown",
                                                server |-> "none", tool |-> <<>>]>>
  <2>1. jobs \in Seq(McpJobs) /\ JobsInOrder("bridge", jobs)
    BY BridgeJobs
  <2>2. Begin("bridge", jobs)
    BY <1>6 DEF spawn_tool_call
  <2> HIDE DEF jobs
  <2> QED
    BY <2>1, <2>2, BeginStep
<1>7. ASSUME NEW s \in McpServers, read_resource(s) PROVE McpIInv'
  <2> DEFINE job == [kind |-> "resources/read", server |-> s, tool |-> <<>>]
  <2>1. job \in McpJobs /\ JobFits("read", job)
    BY DEF McpJobs, JobFits
  <2>2. <<job>> \in Seq(McpJobs) /\ JobsInOrder("read", <<job>>)
    BY <2>1, OneJob
  <2>3. Begin("read", <<job>>)
    BY <1>7 DEF read_resource
  <2> QED
    BY <2>2, <2>3, BeginStep
<1>8. ASSUME NEW s \in McpServers, ServerDies(s) PROVE McpIInv'
  BY <1>8, ServerDiesStep
<1>9. CASE StartJob \/ ShutdownJob \/ ensure_server_ready \/ SpawnFails \/ read_response
  BY <1>9, StartJobStep, ShutdownJobStep, EnsureStep, SpawnFailsStep, ReadStep
<1>10. CASE next_request \/ FinishJob \/ RequestTimesOut \/ PipeCloses
  BY <1>10, NextRequestStep, FinishJobStep, TimesOutStep, ClosesStep
<1>11. ASSUME NEW s \in McpServers, NEW k \in AnswerKinds, NEW ts \in SUBSET RawTools, McpServer_dispatch(s, k, ts)
       PROVE  McpIInv'
  BY <1>11, DispatchStep
<1> QED
  BY <1>1, <1>2, <1>3, <1>4, <1>5, <1>6, <1>7, <1>8, <1>9, <1>10, <1>11, Zenon DEF McpNext

LEMMA McpIInvIsEnough == ASSUME McpIInv PROVE McpManagerSound
<1>1. NoProcessEscapes
  BY DEF McpIInv, ProcessesOK, NoProcessEscapes
<1>2. PipesInStep
  <2> SUFFICES ASSUME NEW s \in McpServers, ~(mcp_op.step = "wait" /\ mcp_op.server = s)
               PROVE  mcp_process[s].inbox = <<>> /\ mcp_process[s].outbox = <<>>
    BY DEF PipesInStep
  <2> QED
    BY PipesHold DEF McpIInv, WaitsFor, Emptied
<1>3. RoutesFollowListings
  BY DEF McpIInv, RoutesOK, RoutesFollowListings
<1>4. ReportedToolsAreRouted
  BY DEF McpIInv, ReportOK, ReportedToolsAreRouted
<1>5. mcp_op \in McpOps /\ SpendingOK(mcp_op, Shaken(mcp_op, initialized)) /\ Shaken(mcp_op, initialized) \in BOOLEAN
  BY ShakenIs DEF McpIInv, McpOpOK
<1>6. SpawnsAreBounded /\ CallsAreSentOnce
  <2>1. /\ mcp_op.attempts \in Nat /\ mcp_op.tries \in Nat /\ mcp_op.spawns \in Nat /\ mcp_op.calls \in Nat
        /\ mcp_op.step \in {"job", "ready", "wait", "send", "done"}
    BY <1>5 DEF McpOps
  <2>2. mcp_op.attempts <= 1 /\ mcp_op.tries <= 1 /\ mcp_op.calls <= 1
        /\ (mcp_op.spawns = 0 \/ mcp_op.spawns <= 2 * mcp_op.attempts + mcp_op.tries + 1
            \/ mcp_op.spawns <= 2 * mcp_op.attempts + 2)
    BY <1>5, <2>1 DEF SpendingOK
  <2>3. mcp_op.spawns <= 4
    BY <2>1, <2>2
  <2> QED
    BY <2>2, <2>3 DEF SpawnsAreBounded, CallsAreSentOnce
<1> QED
  BY <1>1, <1>2, <1>3, <1>4, <1>6 DEF McpManagerSound

\* The MCP manager, for any servers and tools and any number of operations and faults:
\* no child process escapes it, no answer is taken for another's, tools are routed as the
\* last listings said, a job spawns four processes at most, and a call is sent once.
THEOREM ManagerKeepsItsServers == PartSpec => []McpManagerChecked
<1>1. PartInit => McpIInv
  BY McpStart DEF PartInit
<1>2. McpIInv /\ [PartNext]_partVars => McpIInv'
  <2> SUFFICES ASSUME McpIInv, [PartNext]_partVars PROVE McpIInv'
    OBVIOUS
  <2>1. McpNext \/ UNCHANGED mcpVars
    BY Zenon DEF PartNext, partVars
  <2>2. CASE UNCHANGED mcpVars
    BY <2>2 DEF mcpVars, McpIInv
  <2> QED
    BY <2>1, <2>2, McpStep
<1>3. McpIInv => McpManagerChecked
  BY McpIInvIsEnough DEF McpManagerChecked
<1> QED
  BY <1>1, <1>2, <1>3, PTL DEF PartSpec

-----------------------------------------------------------------------------
(* Shell commands *)
ShellRequests == [enabled : BOOLEAN, namespace : BOOLEAN, network : BOOLEAN,
                  mode : {"workspace-only", "allow-list", "off"}, mounts : {{}}]
ShellStatuses == [requested : ShellRequests, enabled : BOOLEAN, active : BOOLEAN,
                  namespace_active : BOOLEAN, network_active : BOOLEAN, filesystem_active : BOOLEAN,
                  fallback_reason : SUBSET {"namespace", "network", "mounts"}]
ShellLaunchers == [program : {"unshare", "sh"}, net : BOOLEAN, home : BOOLEAN]
ShellRecords == [run : Runs, status : ShellStatuses, launcher : ShellLaunchers,
                 homeThere : BOOLEAN, configOk : BOOLEAN, wrote : Nat, pipe : Nat, got : Nat, cut : BOOLEAN,
                 reader : {"none", "open", "closed"}, child : {"running", "exited", "broken", "killed"},
                 helper : BOOLEAN, outcome : {"none", "background", "output", "timeout"}]

\* What the answer of a command that ended holds.
AnswerOK(c) ==
  /\ ~c.cut => c.got = c.wrote
  /\ c.cut => c.run.tool = "bash" /\ c.got = OutputLimit /\ c.wrote > OutputLimit
  /\ c.run.tool = "bash" => c.got <= OutputLimit

\* How far the command and its reader are.
CourseOK(c) ==
  /\ c.outcome = "background" => c.run.background
  /\ c.outcome = "none" => c.reader = "open"
  /\ c.reader = "open" => c.got + c.pipe = c.wrote
  /\ c.reader = "open" => c.outcome = "none"
  /\ c.reader = "none" => c.outcome = "background"
  /\ c.child = "exited" => c.wrote = c.run.wants
  /\ c.outcome = "output" => c.child = "exited" /\ AnswerOK(c)
  /\ c.outcome = "timeout" => c.child = "killed" \/ c.run.tool = "bash"
  /\ ~ReadsWhileRunning(c.run) =>
       /\ c.child = "running" => c.got = 0
       /\ c.reader # "none" => c.wrote <= PipeSize

\* How the command was started.
StatusTrue(c) ==
  LET s == c.status IN
  /\ s.namespace_active => c.launcher.program = "unshare"
  /\ s.network_active <=> c.launcher.net
  /\ s.filesystem_active => c.launcher.home
  /\ s.enabled /\ s.requested.namespace /\ ~s.namespace_active => "namespace" \in s.fallback_reason
  /\ s.enabled /\ s.requested.network /\ ~s.network_active => "network" \in s.fallback_reason
  /\ s.active => \/ s.namespace_active \/ s.network_active
                 \/ ~s.requested.namespace /\ ~s.requested.network
IsolationKept(c, probe, config) ==
  c.run.tool = "bash" =>
    /\ c.launcher.program = "unshare" => probe = "works"
    /\ config.network = <<TRUE>> =>
         c.launcher.net \/ c.status.fallback_reason # {} \/ ~c.status.enabled \/ ~c.configOk
StartedOK(c, probe, config) == StatusTrue(c) /\ IsolationKept(c, probe, config)

\* The directories of the sandbox are made by the first command that waits.
Lingers(c) == c.run.background \/ c.run.tool = "powershell"
HomeOK(cs, dirs) ==
  /\ ~dirs => \A k \in 1 .. Len(cs) : Lingers(cs[k])
  /\ \A k \in 1 .. Len(cs) :
       cs[k].launcher.home /\ ~cs[k].homeThere =>
         cs[k].run.background /\ \A j \in 1 .. k : Lingers(cs[j])

ShellIInv ==
  /\ shellCalls \in Seq(ShellRecords)
  /\ unshareResult \in {"unknown", "works", "fails"} /\ namespacesWork \in BOOLEAN
  /\ configLoads \in BOOLEAN /\ sandboxDirs \in BOOLEAN /\ sandboxConfig \in SandboxConfigs
  /\ \A k \in 1 .. Len(shellCalls) : CourseOK(shellCalls[k]) /\ StartedOK(shellCalls[k], unshareResult, sandboxConfig)
  /\ HomeOK(shellCalls, sandboxDirs)

SameStart(c, c2) ==
  /\ c2.run = c.run /\ c2.status = c.status /\ c2.launcher = c.launcher
  /\ c2.homeThere = c.homeThere /\ c2.configOk = c.configOk

\* One call goes on.
LEMMA SetStep ==
  ASSUME ShellIInv, NEW k \in 1 .. Len(shellCalls), NEW c \in ShellRecords, c = shellCalls[k],
         NEW c2 \in ShellRecords, Set(k, c2), CourseOK(c2), SameStart(c, c2)
  PROVE  ShellIInv'
<1>1. /\ shellCalls \in Seq(ShellRecords) /\ shellCalls' = [shellCalls EXCEPT ![k] = c2]
      /\ UNCHANGED <<namespacesWork, unshareResult, sandboxConfig, configLoads, sandboxDirs>>
  BY DEF ShellIInv, Set
<1>2. /\ shellCalls' \in Seq(ShellRecords) /\ Len(shellCalls') = Len(shellCalls) /\ shellCalls'[k] = c2
      /\ \A j \in 1 .. Len(shellCalls) : j # k => shellCalls'[j] = shellCalls[j]
  BY <1>1
<1>3. \A j \in 1 .. Len(shellCalls') : SameStart(shellCalls[j], shellCalls'[j])
  BY <1>2 DEF SameStart
<1>4. \A j \in 1 .. Len(shellCalls') : CourseOK(shellCalls'[j])
  BY <1>2 DEF ShellIInv
<1>5. \A j \in 1 .. Len(shellCalls') : StartedOK(shellCalls'[j], unshareResult, sandboxConfig)
  <2> SUFFICES ASSUME NEW j \in 1 .. Len(shellCalls') PROVE StartedOK(shellCalls'[j], unshareResult, sandboxConfig)
    OBVIOUS
  <2>1. StartedOK(shellCalls[j], unshareResult, sandboxConfig) /\ SameStart(shellCalls[j], shellCalls'[j])
    BY <1>2, <1>3 DEF ShellIInv
  <2> QED
    BY <2>1 DEF StartedOK, StatusTrue, IsolationKept, SameStart
<1>6. HomeOK(shellCalls', sandboxDirs)
  <2>1. \A j \in 1 .. Len(shellCalls') : Lingers(shellCalls'[j]) <=> Lingers(shellCalls[j])
    BY <1>3 DEF SameStart, Lingers
  <2>2. HomeOK(shellCalls, sandboxDirs)
    BY DEF ShellIInv
  <2> QED
    BY <1>2, <1>3, <2>1, <2>2 DEF HomeOK, SameStart
<1> QED
  BY <1>1, <1>2, <1>4, <1>5, <1>6 DEF ShellIInv

LEMMA CallFactsShell ==
  ASSUME ShellIInv, NEW k \in DOMAIN shellCalls
  PROVE  /\ k \in 1 .. Len(shellCalls) /\ shellCalls[k] \in ShellRecords /\ CourseOK(shellCalls[k])
         /\ PipeSize \in Nat
BY ShellAssumption DEF ShellIInv

LEMMA WritesStep == ASSUME ShellIInv, NEW k \in DOMAIN shellCalls, ChildWrites(k) PROVE ShellIInv'
<1>1. PICK c \in ShellRecords : c = shellCalls[k] /\ CourseOK(c) /\ k \in 1 .. Len(shellCalls)
  BY CallFactsShell
<1>2. /\ c.child = "running" /\ c.wrote < c.run.wants
      /\ \/ c.reader = "open" /\ c.pipe < PipeSize /\ Set(k, [c EXCEPT !.wrote = @ + 1, !.pipe = @ + 1])
         \/ c.reader = "closed" /\ Set(k, [c EXCEPT !.child = "broken"])
         \/ c.reader = "none" /\ Set(k, [c EXCEPT !.wrote = @ + 1])
  BY <1>1 DEF ChildWrites
<1>3. c.wrote \in Nat /\ c.pipe \in Nat /\ c.got \in Nat /\ PipeSize \in Nat
  BY ShellAssumption DEF ShellRecords
<1>4. CASE c.reader = "open" /\ c.pipe < PipeSize /\ Set(k, [c EXCEPT !.wrote = @ + 1, !.pipe = @ + 1])
  <2>1. PICK w, p \in Nat : w = c.wrote + 1 /\ p = c.pipe + 1
    BY <1>3
  <2>2. PICK c2 : c2 = [c EXCEPT !.wrote = w, !.pipe = p]
    OBVIOUS
  <2>3. /\ c2 \in ShellRecords /\ SameStart(c, c2) /\ c2.wrote = w /\ c2.pipe = p /\ c2.got = c.got
        /\ c2.reader = c.reader /\ c2.child = c.child /\ c2.outcome = c.outcome /\ c2.cut = c.cut
    BY <2>2 DEF ShellRecords, SameStart
  <2>4. Set(k, c2)
    BY <1>4, <2>1, <2>2
  <2>5. c2.got + c2.pipe = c2.wrote
    BY <1>1, <1>3, <1>4, <2>1, <2>3 DEF CourseOK
  <2>6. ~ReadsWhileRunning(c.run) => c.got = 0 /\ c2.wrote <= PipeSize
    BY <1>1, <1>2, <1>3, <1>4, <2>1, <2>3 DEF CourseOK
  <2>7. CourseOK(c2)
    BY <1>1, <1>2, <1>4, <2>3, <2>5, <2>6 DEF CourseOK, AnswerOK, SameStart
  <2> QED
    BY <1>1, <2>3, <2>4, <2>7, SetStep
<1>5. CASE c.reader = "closed" /\ Set(k, [c EXCEPT !.child = "broken"])
  <2>1. PICK c2 : c2 = [c EXCEPT !.child = "broken"]
    OBVIOUS
  <2>2. /\ c2 \in ShellRecords /\ SameStart(c, c2) /\ c2.wrote = c.wrote /\ c2.pipe = c.pipe /\ c2.got = c.got
        /\ c2.reader = c.reader /\ c2.child = "broken" /\ c2.outcome = c.outcome /\ c2.cut = c.cut
    BY <2>1 DEF ShellRecords, SameStart
  <2>3. CourseOK(c2)
    BY <1>1, <1>2, <1>5, <2>2 DEF CourseOK, AnswerOK, SameStart
  <2> QED
    BY <1>1, <1>5, <2>1, <2>2, <2>3, SetStep
<1>6. CASE c.reader = "none" /\ Set(k, [c EXCEPT !.wrote = @ + 1])
  <2>1. PICK w \in Nat : w = c.wrote + 1
    BY <1>3
  <2>2. PICK c2 : c2 = [c EXCEPT !.wrote = w]
    OBVIOUS
  <2>3. /\ c2 \in ShellRecords /\ SameStart(c, c2) /\ c2.wrote = w /\ c2.pipe = c.pipe /\ c2.got = c.got
        /\ c2.reader = c.reader /\ c2.child = c.child /\ c2.outcome = c.outcome /\ c2.cut = c.cut
    BY <2>2 DEF ShellRecords, SameStart
  <2>4. Set(k, c2)
    BY <1>6, <2>1, <2>2
  <2>5. CourseOK(c2)
    BY <1>1, <1>2, <1>6, <2>3 DEF CourseOK, AnswerOK, SameStart
  <2> QED
    BY <1>1, <2>3, <2>4, <2>5, SetStep
<1> QED
  BY <1>2, <1>4, <1>5, <1>6

LEMMA ExitsStep == ASSUME ShellIInv, NEW k \in DOMAIN shellCalls, ChildExits(k) PROVE ShellIInv'
<1>1. PICK c \in ShellRecords : c = shellCalls[k] /\ CourseOK(c) /\ k \in 1 .. Len(shellCalls)
  BY CallFactsShell
<1>2. PICK c2 : c2 = [c EXCEPT !.child = "exited"]
  OBVIOUS
<1>3. c.child = "running" /\ c.wrote = c.run.wants /\ Set(k, c2)
  BY <1>1, <1>2 DEF ChildExits
<1>4. /\ c2 \in ShellRecords /\ SameStart(c, c2) /\ c2.wrote = c.wrote /\ c2.pipe = c.pipe /\ c2.got = c.got
      /\ c2.reader = c.reader /\ c2.child = "exited" /\ c2.outcome = c.outcome /\ c2.cut = c.cut
  BY <1>2 DEF ShellRecords, SameStart
<1>5. CourseOK(c2)
  BY <1>1, <1>3, <1>4 DEF CourseOK, AnswerOK, SameStart
<1> QED
  BY <1>1, <1>3, <1>4, <1>5, SetStep

LEMMA HelperStep == ASSUME ShellIInv, NEW k \in DOMAIN shellCalls, HelperExits(k) PROVE ShellIInv'
<1>1. PICK c \in ShellRecords : c = shellCalls[k] /\ CourseOK(c) /\ k \in 1 .. Len(shellCalls)
  BY CallFactsShell
<1>2. PICK c2 : c2 = [c EXCEPT !.helper = FALSE]
  OBVIOUS
<1>3. Set(k, c2)
  BY <1>1, <1>2 DEF HelperExits
<1>4. /\ c2 \in ShellRecords /\ SameStart(c, c2) /\ c2.wrote = c.wrote /\ c2.pipe = c.pipe /\ c2.got = c.got
      /\ c2.reader = c.reader /\ c2.child = c.child /\ c2.outcome = c.outcome /\ c2.cut = c.cut
  BY <1>2 DEF ShellRecords, SameStart
<1>5. CourseOK(c2)
  BY <1>1, <1>4 DEF CourseOK, AnswerOK, SameStart
<1> QED
  BY <1>1, <1>3, <1>4, <1>5, SetStep

LEMMA DrainStep == ASSUME ShellIInv, NEW k \in DOMAIN shellCalls, Drain(k) PROVE ShellIInv'
<1>1. PICK c \in ShellRecords : c = shellCalls[k] /\ CourseOK(c) /\ k \in 1 .. Len(shellCalls)
  BY CallFactsShell
<1>2. /\ c.reader = "open" /\ c.pipe > 0 /\ (ReadsWhileRunning(c.run) \/ c.child # "running")
      /\ Set(k, [c EXCEPT !.pipe = @ - 1, !.got = @ + 1])
  BY <1>1 DEF Drain
<1>3. c.wrote \in Nat /\ c.pipe \in Nat /\ c.got \in Nat /\ PipeSize \in Nat
  BY ShellAssumption DEF ShellRecords
<1>4. PICK p, g \in Nat : p = c.pipe - 1 /\ g = c.got + 1
  BY <1>2, <1>3
<1>5. PICK c2 : c2 = [c EXCEPT !.pipe = p, !.got = g]
  OBVIOUS
<1>6. /\ c2 \in ShellRecords /\ SameStart(c, c2) /\ c2.wrote = c.wrote /\ c2.pipe = p /\ c2.got = g
      /\ c2.reader = c.reader /\ c2.child = c.child /\ c2.outcome = c.outcome /\ c2.cut = c.cut
  BY <1>5 DEF ShellRecords, SameStart
<1>7. Set(k, c2)
  BY <1>2, <1>4, <1>5
<1>8. c2.got + c2.pipe = c2.wrote
  BY <1>1, <1>2, <1>3, <1>4, <1>6, SMTT(30) DEF CourseOK
<1>9. c.outcome = "none"
  BY <1>1, <1>2 DEF CourseOK
<1>10. CourseOK(c2)
  BY <1>1, <1>2, <1>6, <1>8, <1>9 DEF CourseOK, AnswerOK, SameStart
<1> QED
  BY <1>1, <1>6, <1>7, <1>10, SetStep

\* A call ends and its reader with it.
LEMMA ReturnsStep ==
  ASSUME ShellIInv, NEW k \in DOMAIN shellCalls, CommandReturns(k) \/ KilledReturns(k)
  PROVE  ShellIInv'
<1>1. PICK c \in ShellRecords : c = shellCalls[k] /\ CourseOK(c) /\ k \in 1 .. Len(shellCalls)
  BY CallFactsShell
<1>2. c.got \in Nat /\ c.wrote \in Nat /\ OutputLimit \in Nat
  BY ShellAssumption DEF ShellRecords
<1>3. /\ c.outcome = "none" /\ EndOfOutput(c)
      /\ c.child = "exited" \/ c.child = "killed"
  BY <1>1 DEF CommandReturns, KilledReturns
<1>4. c.got = c.wrote
  <2>1. c.pipe = 0 /\ c.got + c.pipe = c.wrote
    BY <1>1, <1>3 DEF EndOfOutput, CourseOK
  <2> QED
    BY <1>2, <2>1
<1>5. CASE CommandReturns(k)
  <2>1. PICK g \in Nat : g = IF c.run.tool = "bash" THEN truncate_output(c.got) ELSE c.got
    BY <1>2 DEF truncate_output
  <2>2. PICK x \in BOOLEAN : x <=> g # c.got
    OBVIOUS
  <2>3. PICK c2 : c2 = [c EXCEPT !.outcome = "output", !.reader = "closed", !.got = g, !.cut = x]
    OBVIOUS
  <2>4. c.child = "exited" /\ Set(k, c2)
    <3>1. (g # c.got) = x
      BY <2>2
    <3> QED
      BY <1>1, <1>5, <2>1, <2>3, <3>1 DEF CommandReturns
  <2>5. /\ c2 \in ShellRecords /\ SameStart(c, c2) /\ c2.wrote = c.wrote /\ c2.pipe = c.pipe /\ c2.got = g
        /\ c2.reader = "closed" /\ c2.child = c.child /\ c2.outcome = "output" /\ c2.cut = x
    BY <2>3 DEF ShellRecords, SameStart
  <2>6. AnswerOK(c2)
    BY <1>2, <1>4, <2>1, <2>2, <2>5 DEF AnswerOK, SameStart, truncate_output
  <2>7. CourseOK(c2)
    BY <1>1, <1>3, <2>4, <2>5, <2>6 DEF CourseOK, SameStart
  <2> QED
    BY <1>1, <2>4, <2>5, <2>7, SetStep
<1>6. CASE KilledReturns(k)
  <2>1. PICK c2 : c2 = [c EXCEPT !.outcome = "timeout", !.reader = "closed"]
    OBVIOUS
  <2>2. c.child = "killed" /\ Set(k, c2)
    BY <1>1, <1>6, <2>1 DEF KilledReturns
  <2>3. /\ c2 \in ShellRecords /\ SameStart(c, c2) /\ c2.wrote = c.wrote /\ c2.pipe = c.pipe /\ c2.got = c.got
        /\ c2.reader = "closed" /\ c2.child = c.child /\ c2.outcome = "timeout"
    BY <2>1 DEF ShellRecords, SameStart
  <2>4. CourseOK(c2)
    BY <1>1, <1>3, <2>2, <2>3 DEF CourseOK, SameStart
  <2> QED
    BY <1>1, <2>2, <2>3, <2>4, SetStep
<1> QED
  BY <1>5, <1>6

LEMMA BashGivesUp == ASSUME ShellIInv, NEW k \in DOMAIN shellCalls, BashTimesOut(k) PROVE ShellIInv'
<1>1. PICK c \in ShellRecords : c = shellCalls[k] /\ CourseOK(c) /\ k \in 1 .. Len(shellCalls)
  BY CallFactsShell
<1>2. PICK c2 : c2 = [c EXCEPT !.outcome = "timeout", !.reader = "closed", !.pipe = 0]
  OBVIOUS
<1>3. c.run.tool = "bash" /\ Set(k, c2)
  BY <1>1, <1>2 DEF BashTimesOut
<1>4. /\ c2 \in ShellRecords /\ SameStart(c, c2) /\ c2.wrote = c.wrote /\ c2.pipe = 0 /\ c2.got = c.got
      /\ c2.reader = "closed" /\ c2.child = c.child /\ c2.outcome = "timeout"
  BY <1>2 DEF ShellRecords, SameStart
<1>5. CourseOK(c2)
  BY <1>1, <1>3, <1>4 DEF CourseOK, AnswerOK, SameStart, ReadsWhileRunning
<1> QED
  BY <1>1, <1>3, <1>4, <1>5, SetStep

LEMMA PowerShellKillsStep == ASSUME ShellIInv, NEW k \in DOMAIN shellCalls, PowerShellKills(k) PROVE ShellIInv'
<1>1. PICK c \in ShellRecords : c = shellCalls[k] /\ CourseOK(c) /\ k \in 1 .. Len(shellCalls)
  BY CallFactsShell
<1>2. PICK c2 : c2 = [c EXCEPT !.child = "killed"]
  OBVIOUS
<1>3. c.outcome = "none" /\ Set(k, c2)
  BY <1>1, <1>2 DEF PowerShellKills
<1>4. /\ c2 \in ShellRecords /\ SameStart(c, c2) /\ c2.wrote = c.wrote /\ c2.pipe = c.pipe /\ c2.got = c.got
      /\ c2.reader = c.reader /\ c2.child = "killed" /\ c2.outcome = c.outcome /\ c2.cut = c.cut
  BY <1>2 DEF ShellRecords, SameStart
<1>5. CourseOK(c2)
  BY <1>1, <1>3, <1>4 DEF CourseOK, AnswerOK, SameStart
<1> QED
  BY <1>1, <1>3, <1>4, <1>5, SetStep

BoolOptions == {Absent, <<TRUE>>, <<FALSE>>}
ModeOptions == {Absent, <<"allow-list">>, <<"off">>}

LEMMA OptionIs ==
  /\ \A x \in BoolOptions : \A d \in BOOLEAN : OrElse(x, d) \in BOOLEAN
  /\ \A x \in ModeOptions : \A d \in {"workspace-only", "allow-list", "off"} :
        OrElse(x, d) \in {"workspace-only", "allow-list", "off"}
  /\ \A x \in BoolOptions : x # Absent => x[1] \in BOOLEAN
  /\ \A d : OrElse(Absent, d) = d
  /\ \A d : OrElse(<<TRUE>>, d) = TRUE
BY DEF BoolOptions, ModeOptions, OrElse, Absent

LEMMA ConfigsAre ==
  ASSUME NEW c \in SandboxConfigs
  PROVE  /\ c.enabled \in BoolOptions /\ c.namespace \in BoolOptions /\ c.network \in BoolOptions
         /\ c.mode \in ModeOptions /\ c.mounts = {}
<1> DEFINE d == DefaultConfig
<1>1. d \in [enabled : BoolOptions, namespace : BoolOptions, network : BoolOptions, mode : ModeOptions, mounts : {{}}]
  BY DEF DefaultConfig, BoolOptions, ModeOptions
<1>2. <<TRUE>> \in BoolOptions /\ <<FALSE>> \in BoolOptions /\ <<"allow-list">> \in ModeOptions
  BY DEF BoolOptions, ModeOptions
<1> HIDE DEF d
<1>3. c = d \/ c = [d EXCEPT !.network = <<TRUE>>] \/ c = [d EXCEPT !.enabled = <<FALSE>>]
      \/ c = [d EXCEPT !.namespace = <<FALSE>>, !.mode = <<"allow-list">>]
  BY Zenon DEF SandboxConfigs, d
<1> QED
  BY <1>1, <1>2, <1>3

LEMMA OverridesAre ==
  ASSUME NEW o \in SandboxOverrides
  PROVE  /\ o.disable \in BoolOptions /\ o.namespace \in BoolOptions /\ o.network \in {Absent, <<TRUE>>}
         /\ o.mode \in ModeOptions
<1> DEFINE d == NoOverride
           NetOptions == {Absent, <<TRUE>>}
<1>1. d \in [disable : BoolOptions, namespace : BoolOptions, network : NetOptions, mode : ModeOptions]
  BY DEF NoOverride, BoolOptions, ModeOptions
<1>2. /\ <<TRUE>> \in BoolOptions /\ <<FALSE>> \in BoolOptions /\ <<"off">> \in ModeOptions
      /\ <<TRUE>> \in NetOptions
  BY DEF BoolOptions, ModeOptions
<1> HIDE DEF d, NetOptions
<1>3. o = d \/ o = [d EXCEPT !.disable = <<TRUE>>] \/ o = [d EXCEPT !.disable = <<FALSE>>,
                                                                                  !.mode = <<"off">>]
      \/ o = [d EXCEPT !.network = <<TRUE>>, !.namespace = <<FALSE>>]
  BY Zenon DEF SandboxOverrides, d
<1>4. o \in [disable : BoolOptions, namespace : BoolOptions, network : NetOptions, mode : ModeOptions]
  BY <1>1, <1>2, <1>3
<1> QED
  BY <1>4 DEF NetOptions

LEMMA RequestIs ==
  ASSUME NEW c \in SandboxConfigs, NEW o \in SandboxOverrides
  PROVE  /\ resolve_request(c, o) \in ShellRequests
         /\ c.network = <<TRUE>> => resolve_request(c, o).network
<1> DEFINE e == IF o.disable # Absent THEN ~o.disable[1] ELSE OrElse(c.enabled, TRUE)
           ns == OrElse(o.namespace, OrElse(c.namespace, TRUE))
           nw == OrElse(o.network, OrElse(c.network, FALSE))
           md == OrElse(o.mode, OrElse(c.mode, "workspace-only"))
<1>1. /\ c.enabled \in BoolOptions /\ c.namespace \in BoolOptions /\ c.network \in BoolOptions
      /\ c.mode \in ModeOptions /\ c.mounts = {}
  BY ConfigsAre
<1>2. /\ o.disable \in BoolOptions /\ o.namespace \in BoolOptions /\ o.network \in {Absent, <<TRUE>>}
      /\ o.mode \in ModeOptions
  BY OverridesAre
<1>3. e \in BOOLEAN
  <2>1. OrElse(c.enabled, TRUE) \in BOOLEAN
    BY <1>1, OptionIs
  <2>2. o.disable # Absent => (~o.disable[1]) \in BOOLEAN
    BY <1>2, OptionIs
  <2> QED
    BY <2>1, <2>2
<1>4. ns \in BOOLEAN
  <2>1. OrElse(c.namespace, TRUE) \in BOOLEAN
    BY <1>1, OptionIs
  <2> QED
    BY <2>1, <1>2, OptionIs
<1>5. nw \in BOOLEAN /\ (c.network = <<TRUE>> => nw = TRUE)
  <2>1. OrElse(c.network, FALSE) \in BOOLEAN
    BY <1>1, OptionIs
  <2>2. c.network = <<TRUE>> => OrElse(c.network, FALSE) = TRUE
    BY OptionIs
  <2>3. nw = TRUE \/ nw = OrElse(c.network, FALSE)
    BY <1>2, OptionIs
  <2> QED
    BY <2>1, <2>2, <2>3
<1>6. md \in {"workspace-only", "allow-list", "off"}
  <2>1. OrElse(c.mode, "workspace-only") \in {"workspace-only", "allow-list", "off"}
    BY <1>1, OptionIs
  <2> QED
    BY <2>1, <1>2, OptionIs
<1>7. resolve_request(c, o) = [enabled |-> e, namespace |-> ns, network |-> nw, mode |-> md, mounts |-> {}]
  BY <1>1 DEF resolve_request
<1> HIDE DEF e, ns, nw, md
<1>8. PICK a, b, n \in BOOLEAN : a = e /\ b = ns /\ n = nw
  BY <1>3, <1>4, <1>5
<1>9. resolve_request(c, o) = [enabled |-> a, namespace |-> b, network |-> n, mode |-> md, mounts |-> {}]
  BY <1>7, <1>8
<1>10. resolve_request(c, o) \in ShellRequests /\ resolve_request(c, o).network = n
  BY <1>6, <1>9 DEF ShellRequests
<1>11. c.network = <<TRUE>> => resolve_request(c, o).network = TRUE
  BY <1>5, <1>8, <1>10
<1> QED
  BY <1>10, <1>11, Zenon

\* What the status says is what the launcher does.
LEMMA StatusIs ==
  ASSUME NEW r \in ShellRequests, NEW works \in BOOLEAN,
         NEW s, s = resolve_sandbox_status_for_request(r, works)
  PROVE  /\ s \in ShellStatuses /\ build_linux_sandbox_command(s) \in ShellLaunchers
         /\ build_linux_sandbox_command(s).program = "unshare" => works
         /\ r.network => build_linux_sandbox_command(s).net \/ s.fallback_reason # {} \/ ~s.enabled
         /\ ~r.enabled => ~s.enabled /\ ~build_linux_sandbox_command(s).home
         /\ \A c : (c.status = s /\ c.launcher = build_linux_sandbox_command(s)) => StatusTrue(c)
<1>1. /\ r.enabled \in BOOLEAN /\ r.namespace \in BOOLEAN /\ r.network \in BOOLEAN
  BY DEF ShellRequests
<1>2. /\ s.requested = r /\ s.enabled = r.enabled
      /\ s.active = (r.enabled /\ (r.namespace => works) /\ (r.network => works))
      /\ s.namespace_active = (r.enabled /\ r.namespace /\ works)
      /\ s.network_active = (r.enabled /\ r.network /\ works)
      /\ s.filesystem_active = (r.enabled /\ r.mode # "off")
  BY DEF resolve_sandbox_status_for_request
<1>3. s \in ShellStatuses
  <2> DEFINE f == IF ~r.enabled THEN {}
                  ELSE {x \in {"namespace", "network", "mounts"} :
                          CASE x = "namespace" -> r.namespace /\ ~works
                            [] x = "network" -> r.network /\ ~works
                            [] x = "mounts" -> r.mode = "allow-list" /\ r.mounts = {}}
  <2>1. f \in SUBSET {"namespace", "network", "mounts"}
    OBVIOUS
  <2>2. s = [requested |-> r, enabled |-> r.enabled,
             active |-> r.enabled /\ (r.namespace => works) /\ (r.network => works),
             namespace_active |-> r.enabled /\ r.namespace /\ works,
             network_active |-> r.enabled /\ r.network /\ works,
             filesystem_active |-> r.enabled /\ r.mode # "off",
             fallback_reason |-> f]
    BY DEF resolve_sandbox_status_for_request
  <2> HIDE DEF f
  <2> QED
    BY <2>1, <2>2, <1>1 DEF ShellStatuses
<1>4. /\ r.enabled /\ r.namespace /\ ~works => "namespace" \in s.fallback_reason
      /\ r.enabled /\ r.network /\ ~works => "network" \in s.fallback_reason
  BY DEF resolve_sandbox_status_for_request
<1>5. PICK l : l = build_linux_sandbox_command(s)
  OBVIOUS
<1>6. /\ l \in ShellLaunchers
      /\ l.program = (IF s.enabled /\ (s.namespace_active \/ s.network_active) THEN "unshare" ELSE "sh")
      /\ s.enabled /\ (s.namespace_active \/ s.network_active) => l.net = s.network_active /\ l.home = TRUE
      /\ ~(s.enabled /\ (s.namespace_active \/ s.network_active)) => l.net = FALSE /\ l.home = s.filesystem_active
  BY <1>3, <1>5 DEF build_linux_sandbox_command, ShellLaunchers, ShellStatuses
<1>7. \A c : c.status = s /\ c.launcher = l => StatusTrue(c)
  <2> SUFFICES ASSUME NEW c, c.status = s, c.launcher = l PROVE StatusTrue(c)
    OBVIOUS
  <2> QED
    BY <1>1, <1>2, <1>4, <1>6 DEF StatusTrue
<1>8. l.program = "unshare" => works
  BY <1>1, <1>2, <1>6
<1>9. r.network => l.net \/ s.fallback_reason # {} \/ ~s.enabled
  BY <1>1, <1>2, <1>4, <1>6
<1>10. ~r.enabled => ~s.enabled /\ ~l.home
  BY <1>1, <1>2, <1>6
<1> QED
  BY <1>3, <1>5, <1>6, <1>7, <1>8, <1>9, <1>10

LEMMA PlainRuns ==
  /\ PlainRun \in Runs /\ PlainRun.tool = "bash" /\ PlainRun.background = FALSE
  /\ [PlainRun EXCEPT !.background = TRUE] \in Runs
  /\ [PlainRun EXCEPT !.background = TRUE].tool = "bash"
<1> DEFINE late == [tool |-> "bash", timed |-> FALSE, background |-> TRUE, wants |-> 1, helper |-> FALSE]
<1>1. 1 \in 0..(PipeSize + 1)
  BY ShellAssumption
<1>2. [PlainRun EXCEPT !.background = TRUE] = late
  <2>1. PICK n \in 0..(PipeSize + 1) : n = 1
    BY <1>1
  <2>2. PICK p, y \in BOOLEAN : p = FALSE /\ y = TRUE
    OBVIOUS
  <2>3. PICK r : r = [tool |-> "bash", timed |-> p, background |-> p, wants |-> n, helper |-> p]
    OBVIOUS
  <2>4. PlainRun = r /\ late = [tool |-> "bash", timed |-> p, background |-> y, wants |-> n, helper |-> p]
    BY <2>1, <2>2, <2>3 DEF PlainRun
  <2>5. [r EXCEPT !.background = y] = [tool |-> "bash", timed |-> p, background |-> y, wants |-> n, helper |-> p]
    BY <2>3
  <2> QED
    BY <2>2, <2>4, <2>5
<1>3. /\ PlainRun \in [tool : {"bash", "powershell"}, timed : BOOLEAN, background : BOOLEAN,
                       wants : 0..(PipeSize + 1), helper : BOOLEAN]
      /\ late \in [tool : {"bash", "powershell"}, timed : BOOLEAN, background : BOOLEAN,
                   wants : 0..(PipeSize + 1), helper : BOOLEAN]
  BY <1>1 DEF PlainRun
<1>4. /\ PlainRun.background = FALSE /\ PlainRun.helper = FALSE /\ PlainRun.wants = 1
      /\ PlainRun.timed = FALSE /\ PlainRun.tool = "bash"
  BY DEF PlainRun
<1>5. late.background = TRUE /\ late.helper = FALSE /\ late.wants = 1 /\ late.timed = FALSE /\ late.tool = "bash"
  OBVIOUS
<1> HIDE DEF late
<1>6. PlainRun \in Runs /\ late \in Runs
  BY <1>3, <1>4, <1>5 DEF Runs
<1> QED
  BY <1>2, <1>4, <1>5, <1>6

NewShellCall(run, status, dirs) ==
  IF run.background THEN [NewCall(run, status, dirs) EXCEPT !.outcome = "background"]
  ELSE NewCall(run, status, dirs)

LEMMA NewCallIs ==
  ASSUME ShellIInv, NEW run \in Runs, NEW status \in ShellStatuses, NEW dirs \in BOOLEAN,
         build_linux_sandbox_command(status) \in ShellLaunchers,
         NEW c, c = NewShellCall(run, status, dirs)
  PROVE  /\ c \in ShellRecords /\ CourseOK(c)
         /\ c.run = run /\ c.status = status /\ c.launcher = build_linux_sandbox_command(status)
         /\ c.homeThere = dirs /\ c.configOk = configLoads
<1>1. PICK l \in ShellLaunchers : l = build_linux_sandbox_command(status)
  OBVIOUS
<1>2. run.background \in BOOLEAN /\ run.helper \in BOOLEAN /\ run.wants \in Nat /\ PipeSize \in Nat
  BY ShellAssumption DEF Runs
<1>3. configLoads \in BOOLEAN
  BY DEF ShellIInv
<1>4. PICK h \in BOOLEAN : h = run.helper
  BY <1>2
<1>5. CASE run.background
  <2>1. c = [run |-> run, status |-> status, launcher |-> l, homeThere |-> dirs, configOk |-> configLoads,
             wrote |-> 0, pipe |-> 0, got |-> 0, cut |-> FALSE, reader |-> "none",
             child |-> "running", helper |-> h, outcome |-> "background"]
    BY <1>1, <1>4, <1>5 DEF NewShellCall, NewCall
  <2>2. c \in ShellRecords
    BY <1>3, <2>1 DEF ShellRecords
  <2>3. CourseOK(c)
    BY <1>5, <2>1 DEF CourseOK
  <2> QED
    BY <1>1, <2>1, <2>2, <2>3
<1>6. CASE ~run.background
  <2>1. c = [run |-> run, status |-> status, launcher |-> l, homeThere |-> dirs, configOk |-> configLoads,
             wrote |-> 0, pipe |-> 0, got |-> 0, cut |-> FALSE, reader |-> "open",
             child |-> "running", helper |-> h, outcome |-> "none"]
    BY <1>1, <1>4, <1>6 DEF NewShellCall, NewCall
  <2>2. c \in ShellRecords
    BY <1>3, <2>1 DEF ShellRecords
  <2>3. CourseOK(c)
    BY <1>2, <2>1 DEF CourseOK
  <2> QED
    BY <1>1, <2>1, <2>2, <2>3
<1> QED
  BY <1>5, <1>6

\* A call is added whose start is in order.
LEMMA OneMoreCall ==
  ASSUME ShellIInv, NEW c \in ShellRecords, CourseOK(c), shellCalls' = Append(shellCalls, c),
         NEW probe \in {"unknown", "works", "fails"}, unshareResult' = probe, unshareResult = "works" => probe = "works",
         StartedOK(c, probe, sandboxConfig),
         UNCHANGED <<namespacesWork, sandboxConfig, configLoads>>,
         NEW dirs \in BOOLEAN, sandboxDirs' = dirs, sandboxDirs => dirs,
         dirs \/ Lingers(c),
         c.launcher.home /\ ~c.homeThere => ~sandboxDirs /\ c.run.background
  PROVE  ShellIInv'
<1> DEFINE n == Len(shellCalls)
<1>1. shellCalls \in Seq(ShellRecords) /\ n \in Nat /\ HomeOK(shellCalls, sandboxDirs)
  BY DEF ShellIInv
<1>2. /\ shellCalls' \in Seq(ShellRecords) /\ Len(shellCalls') = n + 1 /\ shellCalls'[n + 1] = c
      /\ \A j \in 1 .. n : shellCalls'[j] = shellCalls[j]
  BY <1>1
<1> HIDE DEF n
<1>3. \A j \in 1 .. n + 1 : j \in 1 .. n \/ j = n + 1
  BY <1>1
<1>4. \A j \in 1 .. n + 1 : CourseOK(shellCalls'[j])
  BY <1>2, <1>3 DEF ShellIInv, n
<1>5. \A j \in 1 .. n + 1 : StartedOK(shellCalls'[j], probe, sandboxConfig)
  <2>1. ASSUME NEW j \in 1 .. n PROVE StartedOK(shellCalls[j], probe, sandboxConfig)
    <3>1. StartedOK(shellCalls[j], unshareResult, sandboxConfig)
      BY DEF ShellIInv, n
    <3> QED
      BY <3>1 DEF StartedOK, IsolationKept
  <2> QED
    BY <1>2, <1>3, <2>1
<1>6. HomeOK(shellCalls', dirs)
  <2>1. ~sandboxDirs => \A j \in 1 .. n : Lingers(shellCalls'[j])
    BY <1>1, <1>2 DEF HomeOK, n
  <2>2. ~dirs => \A j \in 1 .. n + 1 : Lingers(shellCalls'[j])
    BY <1>2, <1>3, <2>1
  <2>3. ASSUME NEW j \in 1 .. n + 1, shellCalls'[j].launcher.home, ~shellCalls'[j].homeThere
        PROVE  shellCalls'[j].run.background /\ \A i \in 1 .. j : Lingers(shellCalls'[i])
    <3>1. CASE j = n + 1
      <4>1. ~sandboxDirs /\ c.run.background
        BY <1>2, <2>3, <3>1
      <4>2. Lingers(c)
        BY <4>1 DEF Lingers
      <4> QED
        BY <1>2, <1>3, <2>1, <3>1, <4>1, <4>2
    <3>2. CASE j \in 1 .. n
      <4>1. shellCalls[j].run.background /\ \A i \in 1 .. j : Lingers(shellCalls[i])
        BY <1>1, <1>2, <2>3, <3>2 DEF HomeOK, n
      <4>2. \A i \in 1 .. j : i \in 1 .. n
        BY <1>1, <3>2
      <4> QED
        BY <1>2, <3>2, <4>1, <4>2
    <3> QED
      BY <1>3, <3>1, <3>2
  <2> QED
    BY <1>2, <2>2, <2>3 DEF HomeOK
<1> QED
  BY <1>2, <1>4, <1>5, <1>6 DEF ShellIInv

LEMMA BashStep ==
  ASSUME ShellIInv, NEW run \in Runs, NEW o \in SandboxOverrides, CallBash(run, o)
  PROVE  ShellIInv'
<1> DEFINE dirs == sandboxDirs \/ ~run.background
           config == IF configLoads THEN sandboxConfig ELSE DefaultConfig
           r == resolve_request(config, o)
           works == unshare_user_namespace_works
           s == resolve_sandbox_status_for_request(r, works)
           c == NewShellCall(run, s, dirs)
           probe == IF works THEN "works" ELSE "fails"
<1>1. /\ namespacesWork \in BOOLEAN /\ configLoads \in BOOLEAN /\ sandboxDirs \in BOOLEAN
      /\ sandboxConfig \in SandboxConfigs /\ unshareResult \in {"unknown", "works", "fails"}
  BY DEF ShellIInv
<1>2. dirs \in BOOLEAN /\ works \in BOOLEAN /\ (unshareResult = "works" => works)
  BY <1>1 DEF unshare_user_namespace_works, Runs
<1>3. config \in SandboxConfigs
  BY <1>1 DEF SandboxConfigs
<1>4. r \in ShellRequests /\ (configLoads /\ sandboxConfig.network = <<TRUE>> => r.network)
  BY <1>3, RequestIs
<1>5. /\ run.tool = "bash" /\ shellCalls' = Append(shellCalls, c) /\ sandboxDirs' = dirs /\ unshareResult' = probe
      /\ UNCHANGED <<namespacesWork, sandboxConfig, configLoads>>
  BY DEF CallBash, sandbox_status_for_input, NewShellCall
<1> HIDE DEF works, r, config
<1>6. PICK st : st = s
  OBVIOUS
<1>7. /\ st \in ShellStatuses /\ build_linux_sandbox_command(st) \in ShellLaunchers
      /\ build_linux_sandbox_command(st).program = "unshare" => works
      /\ r.network => build_linux_sandbox_command(st).net \/ st.fallback_reason # {} \/ ~st.enabled
      /\ \A x : (x.status = st /\ x.launcher = build_linux_sandbox_command(st)) => StatusTrue(x)
  BY <1>2, <1>4, <1>6, StatusIs
<1>8. PICK d \in BOOLEAN : d = dirs
  BY <1>2
<1>9. PICK c0 : c0 = NewShellCall(run, st, d)
  OBVIOUS
<1>10. c0 = c
  BY <1>6, <1>8, <1>9
<1>11. /\ c0 \in ShellRecords /\ CourseOK(c0)
       /\ c0.run = run /\ c0.status = st /\ c0.launcher = build_linux_sandbox_command(st)
       /\ c0.homeThere = d /\ c0.configOk = configLoads
  BY <1>7, <1>9, NewCallIs
<1> HIDE DEF c, s, probe, dirs
<1>12. probe \in {"unknown", "works", "fails"} /\ (works => probe = "works")
  BY DEF probe
<1>13. StartedOK(c0, probe, sandboxConfig)
  <2>1. StatusTrue(c0)
    BY <1>7, <1>11
  <2>2. IsolationKept(c0, probe, sandboxConfig)
    BY <1>4, <1>7, <1>11, <1>12 DEF IsolationKept
  <2> QED
    BY <2>1, <2>2 DEF StartedOK
<1>14. (sandboxDirs => d) /\ (d \/ run.background) /\ (~d => ~sandboxDirs)
  BY <1>1, <1>8 DEF dirs
<1>15. /\ d \/ Lingers(c0)
       /\ c0.launcher.home /\ ~c0.homeThere => ~sandboxDirs /\ c0.run.background
  BY <1>11, <1>14 DEF Lingers
<1>16. /\ shellCalls' = Append(shellCalls, c0) /\ sandboxDirs' = d /\ unshareResult' = probe
       /\ UNCHANGED <<namespacesWork, sandboxConfig, configLoads>>
       /\ unshareResult = "works" => probe = "works"
  BY <1>2, <1>5, <1>8, <1>10, <1>12
<1> QED
  BY <1>11, <1>12, <1>13, <1>14, <1>15, <1>16, OneMoreCall

LEMMA PowerShellStep ==
  ASSUME ShellIInv, NEW run \in Runs, CallPowerShell(run)
  PROVE  ShellIInv'
<1> DEFINE r0 == resolve_request(DefaultConfig, NoOverride)
           r == [r0 EXCEPT !.enabled = FALSE]
<1>1. /\ namespacesWork \in BOOLEAN /\ configLoads \in BOOLEAN /\ sandboxDirs \in BOOLEAN
      /\ sandboxConfig \in SandboxConfigs /\ unshareResult \in {"unknown", "works", "fails"}
  BY DEF ShellIInv
<1>2. DefaultConfig \in SandboxConfigs /\ NoOverride \in SandboxOverrides
  BY Zenon DEF SandboxConfigs, SandboxOverrides
<1>3. r0 \in ShellRequests
  BY <1>2, RequestIs
<1>4. r \in ShellRequests /\ ~r.enabled
  <2> HIDE DEF r0
  <2> QED
    BY <1>3 DEF ShellRequests
<1>5. NoStatus = resolve_sandbox_status_for_request(r, FALSE)
  BY DEF NoStatus
<1> HIDE DEF r, r0
<1>6. PICK st : st = NoStatus
  OBVIOUS
<1>7. /\ st \in ShellStatuses /\ build_linux_sandbox_command(st) \in ShellLaunchers
      /\ ~build_linux_sandbox_command(st).home
      /\ \A x : (x.status = st /\ x.launcher = build_linux_sandbox_command(st)) => StatusTrue(x)
  BY <1>4, <1>5, <1>6, StatusIs
<1>8. PICK c : c = NewShellCall(run, st, sandboxDirs)
  OBVIOUS
<1>9. /\ run.tool = "powershell" /\ shellCalls' = Append(shellCalls, c)
      /\ UNCHANGED <<namespacesWork, unshareResult, sandboxConfig, configLoads, sandboxDirs>>
  BY <1>6, <1>8 DEF CallPowerShell, NewShellCall
<1>10. /\ c \in ShellRecords /\ CourseOK(c)
       /\ c.run = run /\ c.status = st /\ c.launcher = build_linux_sandbox_command(st)
       /\ c.homeThere = sandboxDirs
  BY <1>1, <1>7, <1>8, NewCallIs
<1>11. StartedOK(c, unshareResult, sandboxConfig)
  BY <1>7, <1>9, <1>10 DEF StartedOK, IsolationKept
<1>12. Lingers(c) /\ ~c.launcher.home
  BY <1>7, <1>9, <1>10 DEF Lingers
<1> QED
  BY <1>1, <1>9, <1>10, <1>11, <1>12, OneMoreCall

LEMMA ShellStart == ShellInit => ShellIInv
<1> SUFFICES ASSUME ShellInit PROVE ShellIInv
  OBVIOUS
<1>1. Len(shellCalls) = 0 /\ shellCalls \in Seq(ShellRecords)
  BY DEF ShellInit
<1>2. \A k \in 1 .. Len(shellCalls) : FALSE
  BY <1>1
<1> QED
  BY <1>1, <1>2 DEF ShellInit, ShellIInv, HomeOK

LEMMA ShellStep == ASSUME ShellIInv, ShellNext PROVE ShellIInv'
<1>1. CASE StartShell
  <2>1. NoOverride \in SandboxOverrides
    BY Zenon DEF SandboxOverrides
  <2>2. ASSUME NEW o \in SandboxOverrides, CallBash(PlainRun, o) PROVE ShellIInv'
    BY <2>2, PlainRuns, BashStep
  <2>3. ASSUME CallBash([PlainRun EXCEPT !.background = TRUE], NoOverride) PROVE ShellIInv'
    <3>1. PICK r \in Runs : r = [PlainRun EXCEPT !.background = TRUE]
      BY PlainRuns
    <3> QED
      BY <2>1, <2>3, <3>1, BashStep
  <2>4. ASSUME NEW r \in Runs, CallBash(r, NoOverride) \/ CallPowerShell(r) PROVE ShellIInv'
    BY <2>1, <2>4, BashStep, PowerShellStep
  <2> QED
    BY <1>1, <2>2, <2>3, <2>4, Zenon DEF StartShell
<1>2. ASSUME NEW k \in DOMAIN shellCalls,
             \/ ChildWrites(k) \/ ChildExits(k) \/ HelperExits(k) \/ Drain(k)
             \/ CommandReturns(k) \/ BashTimesOut(k) \/ PowerShellKills(k) \/ KilledReturns(k)
      PROVE  ShellIInv'
  BY <1>2, WritesStep, ExitsStep, HelperStep, DrainStep, ReturnsStep, BashGivesUp, PowerShellKillsStep, Zenon
<1>3. CASE SystemChanges
  BY <1>3 DEF SystemChanges, ShellIInv
<1> QED
  BY <1>1, <1>2, <1>3, Zenon DEF ShellNext

LEMMA ShellIInvIsEnough == ASSUME ShellIInv PROVE ShellCommandsSound
<1>1. \A k \in DOMAIN shellCalls : /\ k \in 1 .. Len(shellCalls) /\ shellCalls[k] \in ShellRecords
                                  /\ CourseOK(shellCalls[k]) /\ StartedOK(shellCalls[k], unshareResult, sandboxConfig)
  BY DEF ShellIInv
<1>2. \A c \in ShellCallsMade : c \in ShellRecords /\ CourseOK(c) /\ StartedOK(c, unshareResult, sandboxConfig)
  BY <1>1 DEF ShellCallsMade
<1>3. OutputIsWholeOrMarked
  <2> SUFFICES ASSUME NEW c \in ShellCallsMade, c.outcome = "output"
               PROVE  /\ c.wrote = c.run.wants
                      /\ ~c.cut => c.got = c.run.wants
                      /\ c.cut => /\ c.run.tool = "bash" /\ c.got = OutputLimit
                                  /\ c.run.wants > OutputLimit
                      /\ c.run.tool = "bash" => c.got <= OutputLimit
                      /\ ~ReadsWhileRunning(c.run) => c.got <= PipeSize
    BY Zenon DEF OutputIsWholeOrMarked
  <2>1. c \in ShellRecords /\ CourseOK(c) /\ AnswerOK(c)
    BY <1>2 DEF CourseOK
  <2>2. c.reader # "none" /\ c.child = "exited" /\ c.wrote = c.run.wants
    BY <2>1 DEF CourseOK
  <2>3. ~ReadsWhileRunning(c.run) => c.run.tool # "bash" /\ c.wrote <= PipeSize
    BY <2>1, <2>2 DEF CourseOK, ReadsWhileRunning
  <2> QED
    BY <2>1, <2>2, <2>3 DEF AnswerOK
<1>4. OnlyTheseOutlive
  <2> SUFFICES ASSUME NEW c \in ShellCallsMade, c.outcome # "none", c.child = "running"
               PROVE  c.run.background \/ (c.run.tool = "bash" /\ c.outcome = "timeout")
    BY Zenon DEF OnlyTheseOutlive
  <2>1. c.outcome \in {"none", "background", "output", "timeout"}
    BY <1>2 DEF ShellRecords
  <2> QED
    BY <1>2, <2>1 DEF CourseOK
<1>5. StatusIsTrue
  BY <1>2, Zenon DEF StatusIsTrue, StartedOK, StatusTrue
<1>6. IsolationIsLostForAReason
  BY <1>2, Zenon DEF IsolationIsLostForAReason, StartedOK, IsolationKept
<1>7. HomeIsThere
  <2>1. HomeOK(shellCalls, sandboxDirs) /\ shellCalls \in Seq(ShellRecords)
    BY DEF ShellIInv
  <2> QED
    BY <1>1, <2>1, Zenon DEF HomeIsThere, HomeOK, Lingers
<1> QED
  BY <1>3, <1>4, <1>5, <1>6, <1>7 DEF ShellCommandsSound

\* The shell tools, for any size of a pipe and any number of calls: an answer that is not
\* marked interrupted is the whole output or a cut at bash's limit that is marked as one,
\* whatever that limit is; only background commands and those bash gave up
\* on outlive their call, the sandbox status says how the command was started, isolation is
\* lost for a reason only, and a command with a home of its own finds it.
THEOREM ShellsTellTheTruth == PartSpec => []ShellCommandsChecked
<1>1. PartInit => ShellIInv
  BY ShellStart DEF PartInit
<1>2. ShellIInv /\ [PartNext]_partVars => ShellIInv'
  <2> SUFFICES ASSUME ShellIInv, [PartNext]_partVars PROVE ShellIInv'
    OBVIOUS
  <2>1. ShellNext \/ UNCHANGED shellVars
    BY Zenon DEF PartNext, partVars
  <2>2. CASE UNCHANGED shellVars
    BY <2>2 DEF shellVars, ShellIInv
  <2> QED
    BY <2>1, <2>2, ShellStep
<1>3. ShellIInv => ShellCommandsChecked
  BY ShellIInvIsEnough DEF ShellCommandsChecked
<1> QED
  BY <1>1, <1>2, <1>3, PTL DEF PartSpec

-----------------------------------------------------------------------------
(* The plugin manager *)

DirContents == PluginVersions \cup {"none", "nomanifest", "broken"}
RecordKinds == {"None", "Bundled", "External"}
PluginRecords == [kind : RecordKinds, version : PluginVersions \cup {"none"}]
PluginDisks == [dir : [PluginNames -> DirContents], copy : [PluginNames -> CopyStates],
                reg : [PluginNames -> PluginRecords], file : {"ok", "torn"}]
Flags == {"unset", "on", "off"}
PluginRuns == [state : {"none", "live", "failed", "gone"}, started : Seq(PluginIds), stopped : Seq(PluginIds),
         plugins : SUBSET [id : PluginIds, kind : {"Bundled", "External"}, version : PluginVersions]]

\* What is recorded of a plugin is of its kind: "b" is never installed, "e" never shipped.
KindsFit(d) ==
  /\ d.reg["b"].kind \in {"None", "Bundled"} /\ d.reg["e"].kind \in {"None", "External"}
  /\ \A n \in PluginNames : d.reg[n].kind = "None" <=> d.reg[n] = NoRecord
  /\ d.reg["b"].kind = "Bundled" => d.reg["b"].version \in PluginVersions

\* A record in the shipped version has the shipped plugin behind it, if anything
\* that loads, and no copy of it that failed but one over this record; and no
\* record is ahead of what was shipped.
ShippedFits(d, b) ==
  /\ b = "v1" => d.reg["b"].version # "v2"
  /\ b # "none" /\ d.reg["b"].version = b /\ ManifestLoads(d.dir["b"]) =>
       d.dir["b"] = b /\ d.copy["b"] # "half"

\* Nothing is left of an uninstalled plugin that could be discovered or updated.
GoneFits(d, removed) ==
  /\ removed \subseteq {"e@external"}
  /\ removed # {} => ~ManifestLoads(d.dir["e"]) /\ d.reg["e"] = NoRecord

DiskOK(d, b, removed) == d \in PluginDisks /\ KindsFit(d) /\ ShippedFits(d, b) /\ GoneFits(d, removed)

\* A running runtime has started all its plugins, in the order of their ids.
RunOK(run) ==
  /\ run \in PluginRuns
  /\ IsPrefix(run.stopped, Reverse(run.started))
  /\ run.state = "live" =>
       /\ run.stopped = <<>> /\ run.started = InOrder({p.id : p \in run.plugins})
       /\ Len(run.started) = Cardinality(run.plugins)
       /\ ~ToolsClash(run.plugins)

FlagTypes ==
  /\ plugin_settings \in [PluginIds -> Flags] /\ plugin_memory \in [PluginIds -> Flags]
  /\ plugin_acked \in [PluginIds -> Flags]
  /\ settings_file \in {"ok", "torn"} /\ plugin_lost \in SUBSET PluginIds

PluginIInv ==
  /\ bundle \in PluginVersions \cup {"none"} /\ plugin_origin \in {"v1", "v2", "broken"}
  /\ FlagTypes /\ AcknowledgedFlagsLast
  /\ DiskOK(plugin_disk, bundle, plugin_removed)
  /\ RunOK(plugin_run)

\* Steps of the file system that keep what they are not about.
DirMoved(d, e, name, c, s) ==
  /\ e \in PluginDisks /\ e.reg = d.reg /\ e.file = d.file
  /\ e.dir = [d.dir EXCEPT ![name] = c] /\ e.copy = [d.copy EXCEPT ![name] = s]
RegMoved(d, e, records) == e \in PluginDisks /\ e.dir = d.dir /\ e.copy = d.copy /\ e.reg = records

NoRecords == [n \in PluginNames |-> NoRecord]

LEMMA NoRecordIsOne == NoRecord \in PluginRecords /\ NoRecord.kind = "None" /\ NoRecord.version = "none"
BY DEF NoRecord, PluginRecords, RecordKinds

LEMMA DirStep ==
  ASSUME NEW d \in PluginDisks, NEW name \in PluginNames, NEW c \in DirContents, NEW s \in CopyStates
  PROVE  DirMoved(d, Holding(d, name, c, s), name, c, s)
<1>1. /\ d.dir \in [PluginNames -> DirContents] /\ d.copy \in [PluginNames -> CopyStates]
      /\ d.reg \in [PluginNames -> PluginRecords] /\ d.file \in {"ok", "torn"}
  BY DEF PluginDisks
<1>2. /\ [d.dir EXCEPT ![name] = c] \in [PluginNames -> DirContents]
      /\ [d.copy EXCEPT ![name] = s] \in [PluginNames -> CopyStates]
  BY <1>1
<1> QED
  BY <1>1, <1>2 DEF DirMoved, PluginDisks, Holding

LEMMA SameDir ==
  ASSUME NEW d \in PluginDisks, NEW name \in PluginNames
  PROVE  /\ DirMoved(d, d, name, d.dir[name], d.copy[name])
         /\ d.dir[name] \in DirContents /\ d.copy[name] \in CopyStates
BY DEF DirMoved, PluginDisks

LEMMA RemoveDirIs ==
  ASSUME NEW d \in PluginDisks, NEW name \in PluginNames, NEW r \in remove_dir_all(d, name)
  PROVE  \E c \in {d.dir[name], "none", "broken", "nomanifest"}, s \in CopyStates :
           DirMoved(d, r.disk, name, c, s) /\ (r.ok => c = "none")
<1>1. CASE d.dir[name] = "none"
  <2>1. r = FsDone(d)
    BY <1>1, Zenon DEF remove_dir_all
  <2>2. r.disk = d
    BY <2>1 DEF FsDone
  <2> QED
    BY <1>1, <2>2, SameDir
<1>2. CASE d.dir[name] # "none"
  <2>1. \/ r = FsDone(Holding(d, name, "none", "whole")) \/ r = FsFailed(d)
        \/ r = FsFailed(Holding(d, name, d.dir[name], "half"))
        \/ \E c \in {"broken", "nomanifest"} : r = FsFailed(Holding(d, name, c, "whole"))
    BY <1>2, Zenon DEF remove_dir_all
  <2>2. CASE r = FsDone(Holding(d, name, "none", "whole"))
    <3>1. r.disk = Holding(d, name, "none", "whole")
      BY <2>2, Zenon DEF FsDone
    <3>2. DirMoved(d, r.disk, name, "none", "whole")
      BY <3>1, DirStep DEF DirContents, CopyStates
    <3> QED
      BY <3>2 DEF CopyStates
  <2>3. ASSUME NEW c \in {d.dir[name], "broken", "nomanifest"}, NEW s \in CopyStates,
               r = FsFailed(Holding(d, name, c, s))
        PROVE  DirMoved(d, r.disk, name, c, s) /\ ~r.ok
    <3>1. r.disk = Holding(d, name, c, s)
      BY <2>3, Zenon DEF FsFailed
    <3>2. ~r.ok
      BY <2>3, Zenon DEF FsFailed
    <3>3. c \in DirContents
      BY SameDir DEF DirContents
    <3> QED
      BY <3>1, <3>2, <3>3, DirStep
  <2>4. CASE r = FsFailed(d)
    <3>1. r.disk = d
      BY <2>4, Zenon DEF FsFailed
    <3>2. ~r.ok
      BY <2>4, Zenon DEF FsFailed
    <3> QED
      BY <3>1, <3>2, SameDir
  <2>5. "half" \in CopyStates /\ "whole" \in CopyStates
    BY DEF CopyStates
  <2>6. CASE \E c \in {d.dir[name], "broken", "nomanifest"}, s \in CopyStates : r = FsFailed(Holding(d, name, c, s))
    BY <2>3, <2>6
  <2> QED
    BY <2>1, <2>2, <2>4, <2>5, <2>6
<1> QED
  BY <1>1, <1>2

LEMMA CopyDirIs ==
  ASSUME NEW d \in PluginDisks, NEW name \in PluginNames, NEW v \in PluginVersions,
         NEW r \in copy_dir_all(d, name, v)
  PROVE  \E c \in {v, "broken", "nomanifest"}, s \in CopyStates :
           /\ DirMoved(d, r.disk, name, c, s)
           /\ r.ok => c = v /\ s = "whole"
           /\ s = "half" => d.reg[name].version # v
<1> DEFINE halfCopy == IF d.reg[name].version = v THEN "unrenewed" ELSE "half"
<1>1. \/ r = FsDone(Holding(d, name, v, "whole")) \/ r = FsFailed(Holding(d, name, v, halfCopy))
      \/ \E c \in {"broken", "nomanifest"} : r = FsFailed(Holding(d, name, c, "whole"))
  BY Zenon DEF copy_dir_all
<1>2. "whole" \in CopyStates /\ halfCopy \in CopyStates /\ (halfCopy = "half" => d.reg[name].version # v)
  BY DEF CopyStates
<1> HIDE DEF halfCopy
<1>3. CASE r = FsDone(Holding(d, name, v, "whole"))
  <2>1. r.disk = Holding(d, name, v, "whole")
    BY <1>3, Zenon DEF FsDone
  <2>2. DirMoved(d, r.disk, name, v, "whole")
    BY <1>2, <2>1, DirStep DEF DirContents
  <2> QED
    BY <1>2, <2>2
<1>4. ASSUME NEW c \in {v, "broken", "nomanifest"}, NEW s \in CopyStates, r = FsFailed(Holding(d, name, c, s))
      PROVE  DirMoved(d, r.disk, name, c, s) /\ ~r.ok
  <2>1. r.disk = Holding(d, name, c, s)
    BY <1>4, Zenon DEF FsFailed
  <2>2. ~r.ok
    BY <1>4, Zenon DEF FsFailed
  <2> QED
    BY <2>1, <2>2, DirStep DEF DirContents
<1>5. CASE r = FsFailed(Holding(d, name, v, halfCopy))
  BY <1>2, <1>4, <1>5
<1>6. CASE \E c \in {"broken", "nomanifest"} : r = FsFailed(Holding(d, name, c, "whole"))
  BY <1>2, <1>4, <1>6
<1> QED
  BY <1>1, <1>3, <1>5, <1>6

LEMMA LoadIs ==
  ASSUME NEW d, NEW r \in load_registry(d)
  PROVE  r.disk = d /\ (r.ok => d.file # "torn")
<1>1. CASE d.file = "torn"
  <2>1. r = FsFailed(d)
    BY <1>1, Zenon DEF load_registry
  <2>2. r.disk = d
    BY <2>1, Zenon DEF FsFailed
  <2>3. ~r.ok
    BY <2>1, Zenon DEF FsFailed
  <2> QED
    BY <2>2, <2>3
<1>2. CASE d.file # "torn"
  <2>1. r = FsDone(d)
    BY <1>2, Zenon DEF load_registry
  <2> QED
    BY <1>2, <2>1 DEF FsDone
<1> QED
  BY <1>1, <1>2

LEMMA StoreIs ==
  ASSUME NEW d \in PluginDisks, NEW records \in [PluginNames -> PluginRecords], NEW r \in store_registry(d, records)
  PROVE  /\ \E g \in {d.reg, records, NoRecords} : RegMoved(d, r.disk, g)
         /\ r.ok => RegMoved(d, r.disk, records) /\ r.disk.file = d.file
<1>1. /\ d.dir \in [PluginNames -> DirContents] /\ d.copy \in [PluginNames -> CopyStates]
      /\ d.reg \in [PluginNames -> PluginRecords]
      /\ d.file \in {"ok", "torn"} /\ NoRecords \in [PluginNames -> PluginRecords]
  BY NoRecordIsOne DEF PluginDisks, NoRecords
<1>2. \/ r = FsDone([d EXCEPT !.reg = records]) \/ r = FsFailed(d)
      \/ r = FsFailed([d EXCEPT !.reg = NoRecords]) \/ r = FsFailed([d EXCEPT !.file = "torn"])
  BY Zenon DEF store_registry, NoRecords
<1>3. CASE r = FsDone([d EXCEPT !.reg = records])
  <2>1. r.disk = [d EXCEPT !.reg = records]
    BY <1>3, Zenon DEF FsDone
  <2>2. RegMoved(d, r.disk, records) /\ r.disk.file = d.file
    BY <1>1, <2>1 DEF RegMoved, PluginDisks
  <2> QED
    BY <2>2
<1>4. ASSUME NEW e, r = FsFailed(e) PROVE r.disk = e /\ ~r.ok
  <2>1. r.disk = e
    BY <1>4, Zenon DEF FsFailed
  <2>2. ~r.ok
    BY <1>4, Zenon DEF FsFailed
  <2> QED
    BY <2>1, <2>2
<1>5. CASE r = FsFailed(d)
  <2>1. RegMoved(d, d, d.reg)
    BY DEF RegMoved
  <2> QED
    BY <1>4, <1>5, <2>1
<1>6. CASE r = FsFailed([d EXCEPT !.reg = NoRecords])
  <2>1. RegMoved(d, [d EXCEPT !.reg = NoRecords], NoRecords)
    BY <1>1 DEF RegMoved, PluginDisks
  <2> QED
    BY <1>4, <1>6, <2>1
<1>7. CASE r = FsFailed([d EXCEPT !.file = "torn"])
  <2>1. RegMoved(d, [d EXCEPT !.file = "torn"], d.reg)
    BY <1>1 DEF RegMoved, PluginDisks
  <2> QED
    BY <1>4, <1>7, <2>1
<1> QED
  BY <1>2, <1>3, <1>5, <1>6, <1>7

\* Placing a plugin: what it leaves behind, however far it came.
Placed(d, r, name, v, record) ==
  /\ r.disk \in PluginDisks
  /\ \A n \in PluginNames \ {name} :
       /\ r.disk.dir[n] = d.dir[n] /\ r.disk.copy[n] = d.copy[n]
       /\ r.disk.reg[n] \in {d.reg[n], NoRecord}
  /\ r.disk.dir[name] \in {d.dir[name], "none", "broken", "nomanifest", v}
  /\ r.disk.reg[name] \in {d.reg[name], NoRecord} \/ (r.disk.reg[name] = record /\ r.disk.dir[name] = v)
  /\ r.disk.copy[name] = "half" /\ ManifestLoads(r.disk.dir[name]) =>
       /\ r.disk.reg[name] = d.reg[name]
       /\ r.disk.dir[name] = d.dir[name] \/ d.reg[name].version # v
  /\ r.ok => /\ r.disk.dir[name] = v /\ r.disk.reg[name] = record /\ r.disk.file # "torn"
             /\ r.disk.copy[name] = "whole"
             /\ \A n \in PluginNames \ {name} : r.disk.reg[n] = d.reg[n]

RecordThen(d, name, record) ==
  FsThen(load_registry(d), LAMBDA d3 : store_registry(d3, [d3.reg EXCEPT ![name] = record]))
CopyThen(d, name, v, record) ==
  FsThen(copy_dir_all(d, name, v), LAMBDA d2 : RecordThen(d2, name, record))

LEMMA PlaceStages ==
  ASSUME NEW d, NEW name, NEW v, NEW record, NEW r
  PROVE  /\ r \in PlacePlugin(d, name, v, record) =>
              \E s \in remove_dir_all(d, name) :
                (s.ok /\ r \in CopyThen(s.disk, name, v, record)) \/ (~s.ok /\ r = s)
         /\ r \in CopyThen(d, name, v, record) =>
              \E s \in copy_dir_all(d, name, v) :
                (s.ok /\ r \in RecordThen(s.disk, name, record)) \/ (~s.ok /\ r = s)
<1>1. PlacePlugin(d, name, v, record) = FsThen(remove_dir_all(d, name), LAMBDA d1 : CopyThen(d1, name, v, record))
  BY DEF PlacePlugin, CopyThen, RecordThen, FsThen
<1>2. r \in PlacePlugin(d, name, v, record) =>
        \E s \in remove_dir_all(d, name) :
          (s.ok /\ r \in CopyThen(s.disk, name, v, record)) \/ (~s.ok /\ r = s)
  BY <1>1, Zenon DEF FsThen
<1>3. r \in CopyThen(d, name, v, record) =>
        \E s \in copy_dir_all(d, name, v) :
          (s.ok /\ r \in RecordThen(s.disk, name, record)) \/ (~s.ok /\ r = s)
  BY Zenon DEF FsThen, CopyThen
<1> QED
  BY <1>2, <1>3

LEMMA RecordStages ==
  ASSUME NEW d, NEW name, NEW record, NEW r \in RecordThen(d, name, record)
  PROVE  \E s \in load_registry(d) :
           (s.ok /\ r \in store_registry(s.disk, [s.disk.reg EXCEPT ![name] = record])) \/ (~s.ok /\ r = s)
BY Zenon DEF FsThen, RecordThen

LEMMA RecordThenIs ==
  ASSUME NEW d \in PluginDisks, NEW name \in PluginNames, NEW record \in PluginRecords,
         NEW r \in RecordThen(d, name, record)
  PROVE  /\ \E g \in {d.reg, [d.reg EXCEPT ![name] = record], NoRecords} : RegMoved(d, r.disk, g)
         /\ r.ok => RegMoved(d, r.disk, [d.reg EXCEPT ![name] = record]) /\ r.disk.file # "torn"
<1>1. PICK s \in load_registry(d) :
        (s.ok /\ r \in store_registry(s.disk, [s.disk.reg EXCEPT ![name] = record])) \/ (~s.ok /\ r = s)
  BY RecordStages
<1>2. s.disk = d /\ (s.ok => d.file # "torn")
  BY LoadIs
<1>3. [d.reg EXCEPT ![name] = record] \in [PluginNames -> PluginRecords]
  BY DEF PluginDisks
<1>4. CASE ~s.ok /\ r = s
  <2>1. RegMoved(d, r.disk, d.reg)
    BY <1>2, <1>4 DEF RegMoved
  <2> QED
    BY <1>4, <2>1
<1>5. CASE s.ok /\ r \in store_registry(s.disk, [s.disk.reg EXCEPT ![name] = record])
  <2>1. r \in store_registry(d, [d.reg EXCEPT ![name] = record])
    BY <1>2, <1>5
  <2> QED
    BY <1>2, <1>3, <1>5, <2>1, StoreIs
<1> QED
  BY <1>1, <1>4, <1>5

LEMMA PlacePluginIs ==
  ASSUME NEW d \in PluginDisks, NEW name \in PluginNames, NEW v \in PluginVersions, NEW record \in PluginRecords,
         NEW r \in PlacePlugin(d, name, v, record)
  PROVE  Placed(d, r, name, v, record)
<1>1. PICK s \in remove_dir_all(d, name) :
        (s.ok /\ r \in CopyThen(s.disk, name, v, record)) \/ (~s.ok /\ r = s)
  BY PlaceStages
<1>2. PICK c \in {d.dir[name], "none", "broken", "nomanifest"}, h \in CopyStates : DirMoved(d, s.disk, name, c, h)
  BY RemoveDirIs
<1>3. /\ d.dir \in [PluginNames -> DirContents] /\ d.copy \in [PluginNames -> CopyStates]
      /\ d.reg \in [PluginNames -> PluginRecords]
  BY DEF PluginDisks
<1>4. CASE ~s.ok /\ r = s
  BY <1>2, <1>3, <1>4 DEF DirMoved, Placed, ManifestLoads, PluginVersions
<1>5. CASE s.ok /\ r \in CopyThen(s.disk, name, v, record)
  <2>1. PICK e : e = s.disk
    OBVIOUS
  <2>2. /\ e \in PluginDisks /\ e.reg = d.reg /\ e.dir = [d.dir EXCEPT ![name] = c]
        /\ e.copy = [d.copy EXCEPT ![name] = h]
    BY <1>2, <2>1 DEF DirMoved
  <2>3. PICK t \in copy_dir_all(e, name, v) :
          (t.ok /\ r \in RecordThen(t.disk, name, record)) \/ (~t.ok /\ r = t)
    BY <1>5, <2>1, PlaceStages
  <2>4. PICK c2 \in {v, "broken", "nomanifest"}, h2 \in CopyStates :
          /\ DirMoved(e, t.disk, name, c2, h2)
          /\ t.ok => c2 = v /\ h2 = "whole"
          /\ h2 = "half" => d.reg[name].version # v
    BY <2>2, CopyDirIs
  <2>5. PICK f : f = t.disk
    OBVIOUS
  <2>6. /\ f \in PluginDisks /\ f.reg = d.reg /\ f.dir = [d.dir EXCEPT ![name] = c2]
        /\ f.copy = [d.copy EXCEPT ![name] = h2]
    BY <1>3, <2>2, <2>4, <2>5 DEF DirMoved
  <2>7. CASE ~t.ok /\ r = t
    BY <1>3, <2>4, <2>5, <2>6, <2>7 DEF Placed
  <2>8. CASE t.ok /\ r \in RecordThen(t.disk, name, record)
    <3>1. /\ \E g \in {f.reg, [f.reg EXCEPT ![name] = record], NoRecords} : RegMoved(f, r.disk, g)
          /\ r.ok => RegMoved(f, r.disk, [f.reg EXCEPT ![name] = record]) /\ r.disk.file # "torn"
      BY <2>5, <2>6, <2>8, RecordThenIs
    <3>2. PICK g \in {d.reg, [d.reg EXCEPT ![name] = record], NoRecords} : RegMoved(f, r.disk, g)
      BY <2>6, <3>1
    <3>3. /\ r.disk \in PluginDisks /\ r.disk.dir = [d.dir EXCEPT ![name] = v] /\ r.disk.reg = g
          /\ r.disk.copy = [d.copy EXCEPT ![name] = "whole"]
      BY <2>4, <2>6, <2>8, <3>2 DEF RegMoved
    <3>4. r.ok => r.disk.reg = [d.reg EXCEPT ![name] = record] /\ r.disk.file # "torn"
      BY <2>6, <3>1 DEF RegMoved
    <3>5. /\ \A n \in PluginNames \ {name} : /\ r.disk.dir[n] = d.dir[n] /\ r.disk.copy[n] = d.copy[n]
                                           /\ g[n] \in {d.reg[n], NoRecord}
          /\ r.disk.dir[name] = v /\ g[name] \in {d.reg[name], NoRecord, record}
          /\ r.disk.copy[name] = "whole"
      BY <1>3, <3>3 DEF NoRecords
    <3> QED
      BY <1>3, <3>3, <3>4, <3>5 DEF Placed
  <2> QED
    BY <2>3, <2>7, <2>8
<1> QED
  BY <1>1, <1>4, <1>5

\* Removing a plugin, or records of plugins that are gone.
OnlyLost(d, e) ==
  /\ e \in PluginDisks
  /\ \A n \in PluginNames : /\ e.dir[n] \in {d.dir[n], "none", "broken", "nomanifest"}
                            /\ e.reg[n] \in {d.reg[n], NoRecord}

RemoveThen(d, name) ==
  FsThen(remove_dir_all(d, name), LAMBDA d1 : store_registry(d1, [d1.reg EXCEPT ![name] = NoRecord]))

LEMMA RemoveThenIs ==
  ASSUME NEW d \in PluginDisks, NEW name \in PluginNames, NEW r \in RemoveThen(d, name)
  PROVE  /\ OnlyLost(d, r.disk)
         /\ \A n \in PluginNames \ {name} : r.disk.dir[n] = d.dir[n] /\ r.disk.copy[n] = d.copy[n]
         /\ r.ok => /\ r.disk.dir[name] = "none" /\ r.disk.reg[name] = NoRecord /\ r.disk.file = d.file
                    /\ \A n \in PluginNames \ {name} : r.disk.reg[n] = d.reg[n]
<1>1. PICK s \in remove_dir_all(d, name) :
        \/ s.ok /\ r \in store_registry(s.disk, [s.disk.reg EXCEPT ![name] = NoRecord])
        \/ ~s.ok /\ r = s
  BY Zenon DEF RemoveThen, FsThen
<1>2. PICK c \in {d.dir[name], "none", "broken", "nomanifest"}, k \in CopyStates :
        DirMoved(d, s.disk, name, c, k) /\ (s.ok => c = "none")
  BY RemoveDirIs
<1>3. /\ d.dir \in [PluginNames -> DirContents] /\ d.copy \in [PluginNames -> CopyStates]
      /\ d.reg \in [PluginNames -> PluginRecords]
  BY DEF PluginDisks
<1>4. CASE ~s.ok /\ r = s
  BY <1>2, <1>3, <1>4 DEF DirMoved, OnlyLost
<1>5. CASE s.ok /\ r \in store_registry(s.disk, [s.disk.reg EXCEPT ![name] = NoRecord])
  <2>1. PICK e, g : e = s.disk /\ g = [e.reg EXCEPT ![name] = NoRecord]
    OBVIOUS
  <2>2. /\ e \in PluginDisks /\ e.reg = d.reg /\ e.file = d.file /\ e.dir = [d.dir EXCEPT ![name] = "none"]
        /\ e.copy = [d.copy EXCEPT ![name] = k]
    BY <1>2, <1>5, <2>1 DEF DirMoved
  <2>3. g \in [PluginNames -> PluginRecords]
    BY <1>3, <2>1, <2>2, NoRecordIsOne
  <2>4. /\ \E h \in {e.reg, g, NoRecords} : RegMoved(e, r.disk, h)
        /\ r.ok => RegMoved(e, r.disk, g) /\ r.disk.file = e.file
    BY <1>5, <2>1, <2>2, <2>3, StoreIs
  <2>5. PICK h \in {e.reg, g, NoRecords} : RegMoved(e, r.disk, h)
    BY <2>4
  <2>6. \A n \in PluginNames : h[n] \in {d.reg[n], NoRecord}
    BY <1>3, <2>1, <2>2 DEF NoRecords
  <2>7. /\ r.disk \in PluginDisks /\ r.disk.dir = [d.dir EXCEPT ![name] = "none"] /\ r.disk.reg = h
        /\ r.disk.copy = [d.copy EXCEPT ![name] = k]
    BY <2>2, <2>5 DEF RegMoved
  <2>8. r.ok => r.disk.reg = [d.reg EXCEPT ![name] = NoRecord] /\ r.disk.file = d.file
    BY <2>1, <2>2, <2>4 DEF RegMoved
  <2> QED
    BY <1>3, <2>6, <2>7, <2>8 DEF OnlyLost
<1> QED
  BY <1>1, <1>4, <1>5

LEMMA DiscoverIs ==
  ASSUME NEW d \in PluginDisks, NEW r \in discover_installed_plugins(d)
  PROVE  /\ OnlyLost(d, r.disk) /\ r.disk.dir = d.dir /\ r.disk.copy = d.copy
         /\ r.ok => /\ r.disk.file # "torn"
                    /\ \A n \in PluginNames : HasManifest(d.dir[n]) => r.disk.reg[n] = d.reg[n]
<1> DEFINE stale == {n \in PluginNames : d.reg[n] # NoRecord /\ ~HasManifest(d.dir[n])}
           records == [n \in PluginNames |-> IF n \in stale THEN NoRecord ELSE d.reg[n]]
<1>1. d.dir \in [PluginNames -> DirContents] /\ d.reg \in [PluginNames -> PluginRecords]
  BY DEF PluginDisks
<1>2. OnlyLost(d, d)
  BY DEF OnlyLost
<1>3. \/ d.file = "torn" /\ r = FsFailed(d)
      \/ d.file # "torn" /\ r = FsDone(d)
      \/ d.file # "torn" /\ r \in store_registry(d, records)
  <2>1. load_registry(d) = IF d.file = "torn" THEN {FsFailed(d)} ELSE {FsDone(d)}
    BY DEF load_registry
  <2>2. PICK s \in load_registry(d) :
          \/ ~s.ok /\ r = s
          \/ s.ok /\ r \in LET lost == {n \in PluginNames : s.disk.reg[n] # NoRecord /\ ~HasManifest(s.disk.dir[n])}
                           IN  IF lost = {} THEN {FsDone(s.disk)}
                               ELSE store_registry(s.disk, [n \in PluginNames |->
                                      IF n \in lost THEN NoRecord ELSE s.disk.reg[n]])
    BY Zenon DEF discover_installed_plugins, FsThen
  <2>3. s.disk = d /\ (s.ok => d.file # "torn")
    BY LoadIs
  <2>4. CASE d.file = "torn"
    <3>1. s = FsFailed(d)
      BY <2>1, <2>4
    <3> QED
      BY <2>2, <2>3, <2>4, <3>1
  <2>5. CASE d.file # "torn"
    <3>1. s = FsDone(d)
      BY <2>1, <2>5
    <3>2. s.ok
      BY <3>1, Zenon DEF FsDone
    <3>3. r \in IF stale = {} THEN {FsDone(d)} ELSE store_registry(d, records)
      BY <2>2, <2>3, <3>2
    <3> QED
      BY <2>5, <3>3
  <2> QED
    BY <2>4, <2>5
<1>4. CASE d.file = "torn" /\ r = FsFailed(d)
  <2>1. r.disk = d /\ ~r.ok
    BY <1>4, Zenon DEF FsFailed
  <2> QED
    BY <1>2, <2>1
<1>5. CASE d.file # "torn" /\ r = FsDone(d)
  <2>1. r.disk = d
    BY <1>5, Zenon DEF FsDone
  <2> QED
    BY <1>2, <1>5, <2>1
<1>6. CASE d.file # "torn" /\ r \in store_registry(d, records)
  <2>1. PICK g : g = records
    OBVIOUS
  <2>2. /\ g \in [PluginNames -> PluginRecords]
        /\ \A n \in PluginNames : g[n] \in {d.reg[n], NoRecord} /\ (HasManifest(d.dir[n]) => g[n] = d.reg[n])
    BY <1>1, <2>1, NoRecordIsOne
  <2> HIDE DEF records
  <2>3. /\ \E h \in {d.reg, g, NoRecords} : RegMoved(d, r.disk, h)
        /\ r.ok => RegMoved(d, r.disk, g) /\ r.disk.file = d.file
    BY <1>6, <2>1, <2>2, StoreIs
  <2>4. PICK h \in {d.reg, g, NoRecords} : RegMoved(d, r.disk, h)
    BY <2>3
  <2>5. \A n \in PluginNames : h[n] \in {d.reg[n], NoRecord}
    BY <2>2 DEF NoRecords
  <2> QED
    BY <1>6, <2>2, <2>3, <2>4, <2>5 DEF RegMoved, OnlyLost
<1> QED
  BY <1>3, <1>4, <1>5, <1>6

LEMMA DroppedKeeps ==
  ASSUME NEW d, NEW e, NEW b, NEW removed, DiskOK(d, b, removed), OnlyLost(d, e),
         b # "none" /\ ManifestLoads(e.dir["b"]) => e.copy["b"] = d.copy["b"]
  PROVE  DiskOK(e, b, removed)
<1>1. NoRecord.kind = "None" /\ NoRecord.version = "none"
  BY NoRecordIsOne
<1>2. "b" \in PluginNames /\ "e" \in PluginNames
  BY DEF PluginNames
<1>3. \A n \in PluginNames : ManifestLoads(e.dir[n]) => e.dir[n] = d.dir[n]
  BY DEF OnlyLost, ManifestLoads, PluginVersions
<1>4. KindsFit(e)
  BY <1>1, <1>2 DEF DiskOK, KindsFit, OnlyLost
<1>5. ShippedFits(e, b)
  BY <1>1, <1>2, <1>3 DEF DiskOK, ShippedFits, OnlyLost
<1>6. GoneFits(e, removed)
  BY <1>2, <1>3 DEF DiskOK, GoneFits, OnlyLost
<1> QED
  BY <1>4, <1>5, <1>6 DEF DiskOK, OnlyLost

LEMMA ShippedKeeps ==
  ASSUME NEW d, NEW r, NEW b \in PluginVersions, NEW removed, DiskOK(d, b, removed),
         d.reg["b"].kind # "Bundled" \/ d.reg["b"].version # b \/ ~ManifestLoads(d.dir["b"]),
         Placed(d, r, "b", b, [kind |-> "Bundled", version |-> b])
  PROVE  DiskOK(r.disk, b, removed)
<1>1. PICK e, record : e = r.disk /\ record = [kind |-> "Bundled", version |-> b]
  OBVIOUS
<1>2. NoRecord.kind = "None" /\ NoRecord.version = "none"
  BY NoRecordIsOne
<1>3. record.kind = "Bundled" /\ record.version = b /\ record # NoRecord
  BY <1>1, <1>2
<1>4. /\ e \in PluginDisks /\ e.dir["e"] = d.dir["e"] /\ e.reg["e"] \in {d.reg["e"], NoRecord}
      /\ e.dir["b"] \in {d.dir["b"], "none", "broken", "nomanifest", b}
      /\ e.reg["b"] \in {d.reg["b"], NoRecord} \/ (e.reg["b"] = record /\ e.dir["b"] = b)
  BY <1>1 DEF Placed, PluginNames
<1>5. KindsFit(e)
  BY <1>2, <1>3, <1>4 DEF DiskOK, KindsFit, PluginNames
<1>6. ShippedFits(e, b)
  <2>1. /\ b = "v1" => e.reg["b"].version # "v2"
        /\ e.reg["b"].version = b /\ ManifestLoads(e.dir["b"]) => e.dir["b"] = b
    BY <1>2, <1>3, <1>4 DEF DiskOK, ShippedFits, ManifestLoads, PluginVersions
  <2>2. ASSUME e.reg["b"].version = b, ManifestLoads(e.dir["b"]), e.copy["b"] = "half" PROVE FALSE
    <3>1. d.reg["b"].version = b /\ ManifestLoads(d.dir["b"])
      BY <1>1, <2>2 DEF Placed
    <3>2. d.reg["b"].kind = "Bundled"
      BY <1>2, <3>1 DEF DiskOK, KindsFit, PluginNames, PluginVersions
    <3> QED
      BY <3>1, <3>2
  <2> QED
    BY <2>1, <2>2 DEF ShippedFits
<1>7. GoneFits(e, removed)
  BY <1>4 DEF DiskOK, GoneFits
<1> QED
  BY <1>1, <1>4, <1>5, <1>6, <1>7 DEF DiskOK

LEMMA InstalledKeeps ==
  ASSUME NEW d, NEW r, NEW b, NEW v \in PluginVersions, NEW removed, DiskOK(d, b, removed),
         Placed(d, r, "e", v, [kind |-> "External", version |-> v])
  PROVE  DiskOK(r.disk, b, {})
<1>1. PICK e, record : e = r.disk /\ record = [kind |-> "External", version |-> v]
  OBVIOUS
<1>2. NoRecord.kind = "None" /\ NoRecord.version = "none"
  BY NoRecordIsOne
<1>3. record.kind = "External" /\ record # NoRecord
  BY <1>1, <1>2
<1>4. /\ e \in PluginDisks /\ e.dir["b"] = d.dir["b"] /\ e.copy["b"] = d.copy["b"]
      /\ e.reg["b"] \in {d.reg["b"], NoRecord}
      /\ e.reg["e"] \in {d.reg["e"], NoRecord, record}
  BY <1>1 DEF Placed, PluginNames
<1>5. KindsFit(e)
  BY <1>2, <1>3, <1>4 DEF DiskOK, KindsFit, PluginNames
<1>6. ShippedFits(e, b)
  BY <1>2, <1>4 DEF DiskOK, ShippedFits
<1> QED
  BY <1>1, <1>4, <1>5, <1>6 DEF DiskOK, GoneFits

\* The shipped plugin is there in the shipped version, or none where none is shipped.
Current(d) ==
  IF bundle = "none" THEN d.reg["b"].kind # "Bundled"
  ELSE /\ d.reg["b"].kind = "Bundled" /\ d.reg["b"].version = bundle
       /\ d.dir["b"] = bundle /\ d.copy["b"] # "half"

SyncThen(d) ==
  IF bundle # "none"
  THEN IF needs_sync(d) THEN PlacePlugin(d, "b", bundle, [kind |-> "Bundled", version |-> bundle]) ELSE {FsDone(d)}
  ELSE IF d.reg["b"].kind = "Bundled" THEN RemoveThen(d, "b") ELSE {FsDone(d)}

LEMMA SyncThenIs ==
  ASSUME bundle \in PluginVersions \cup {"none"}, NEW d, NEW removed, DiskOK(d, bundle, removed),
         NEW r \in SyncThen(d)
  PROVE  DiskOK(r.disk, bundle, removed) /\ (r.ok => Current(r.disk))
<1>1. /\ d \in PluginDisks /\ "b" \in PluginNames /\ NoRecord.kind = "None"
      /\ \A x : [kind |-> "Bundled", version |-> x].kind = "Bundled" /\ [kind |-> "Bundled", version |-> x].version = x
  BY NoRecordIsOne DEF DiskOK, PluginNames
<1>2. ASSUME r = FsDone(d), Current(d) PROVE DiskOK(r.disk, bundle, removed) /\ Current(r.disk)
  <2>1. r.disk = d
    BY <1>2, Zenon DEF FsDone
  <2> QED
    BY <1>2, <2>1
<1>3. CASE bundle # "none" /\ needs_sync(d)
  <2>1. PICK record : record = [kind |-> "Bundled", version |-> bundle]
    OBVIOUS
  <2>2. record \in PluginRecords /\ bundle \in PluginVersions
    BY <1>3, <2>1 DEF PluginRecords, RecordKinds
  <2>3. r \in PlacePlugin(d, "b", bundle, record)
    BY <1>3, <2>1, Zenon DEF SyncThen
  <2>4. Placed(d, r, "b", bundle, record)
    BY <1>1, <2>2, <2>3, PlacePluginIs
  <2>5. DiskOK(r.disk, bundle, removed)
    BY <1>3, <2>1, <2>2, <2>4, ShippedKeeps DEF needs_sync
  <2>6. r.ok => r.disk.dir["b"] = bundle /\ r.disk.reg["b"] = record /\ r.disk.copy["b"] = "whole"
    BY <2>4 DEF Placed
  <2> QED
    BY <1>1, <1>3, <2>1, <2>5, <2>6 DEF Current
<1>4. CASE bundle # "none" /\ ~needs_sync(d)
  <2>1. r = FsDone(d)
    BY <1>4, Zenon DEF SyncThen
  <2>2. Current(d)
    BY <1>4 DEF needs_sync, Current, DiskOK, ShippedFits
  <2> QED
    BY <1>2, <2>1, <2>2
<1>5. CASE bundle = "none" /\ d.reg["b"].kind = "Bundled"
  <2>1. r \in RemoveThen(d, "b")
    BY <1>5, Zenon DEF SyncThen
  <2>2. OnlyLost(d, r.disk) /\ (r.ok => r.disk.reg["b"] = NoRecord)
    BY <1>1, <2>1, RemoveThenIs
  <2>3. DiskOK(r.disk, bundle, removed)
    BY <1>5, <2>2, DroppedKeeps
  <2> QED
    BY <1>1, <1>5, <2>2, <2>3 DEF Current
<1>6. CASE bundle = "none" /\ d.reg["b"].kind # "Bundled"
  <2>1. r = FsDone(d)
    BY <1>6, Zenon DEF SyncThen
  <2>2. Current(d)
    BY <1>6 DEF Current
  <2> QED
    BY <1>2, <2>1, <2>2
<1> QED
  BY <1>3, <1>4, <1>5, <1>6

LEMMA SyncIs ==
  ASSUME bundle \in PluginVersions \cup {"none"}, NEW d, NEW removed, DiskOK(d, bundle, removed),
         NEW r \in sync_bundled_plugins(d)
  PROVE  DiskOK(r.disk, bundle, removed) /\ (r.ok => Current(r.disk))
<1>1. sync_bundled_plugins(d) = FsThen(load_registry(d), LAMBDA d1 : SyncThen(d1))
  BY DEF sync_bundled_plugins, SyncThen, RemoveThen, FsThen
<1>2. PICK s \in load_registry(d) : (s.ok /\ r \in SyncThen(s.disk)) \/ (~s.ok /\ r = s)
  BY <1>1, Zenon DEF FsThen
<1>3. s.disk = d
  BY LoadIs
<1> QED
  BY <1>2, <1>3, SyncThenIs

LEMMA RegistryIs ==
  ASSUME bundle \in PluginVersions \cup {"none"}, NEW d, NEW removed, DiskOK(d, bundle, removed),
         NEW r \in plugin_registry(d)
  PROVE  DiskOK(r.disk, bundle, removed) /\ (r.ok => Current(r.disk))
<1>1. PICK s \in sync_bundled_plugins(d) : (s.ok /\ r \in discover_installed_plugins(s.disk)) \/ (~s.ok /\ r = s)
  BY Zenon DEF plugin_registry, FsThen
<1>2. DiskOK(s.disk, bundle, removed) /\ (s.ok => Current(s.disk))
  BY SyncIs
<1>3. CASE ~s.ok /\ r = s
  BY <1>2, <1>3
<1>4. CASE s.ok /\ r \in discover_installed_plugins(s.disk)
  <2>1. PICK e : e = s.disk
    OBVIOUS
  <2>2. e \in PluginDisks /\ Current(e) /\ r \in discover_installed_plugins(e) /\ DiskOK(e, bundle, removed)
    BY <1>2, <1>4, <2>1 DEF DiskOK
  <2>3. /\ OnlyLost(e, r.disk) /\ r.disk.dir = e.dir /\ r.disk.copy = e.copy
        /\ r.ok => \A n \in PluginNames : HasManifest(e.dir[n]) => r.disk.reg[n] = e.reg[n]
    BY <2>2, DiscoverIs
  <2>4. DiskOK(r.disk, bundle, removed)
    BY <2>2, <2>3, DroppedKeeps
  <2>5. ASSUME r.ok PROVE Current(r.disk)
    <3>1. "b" \in PluginNames /\ NoRecord.kind = "None"
      BY NoRecordIsOne DEF PluginNames
    <3>2. CASE bundle = "none"
      BY <2>2, <2>3, <3>1, <3>2 DEF Current, OnlyLost
    <3>3. CASE bundle # "none"
      <4>1. HasManifest(e.dir["b"])
        BY <2>2, <3>3 DEF Current, HasManifest
      <4> QED
        BY <2>2, <2>3, <2>5, <3>1, <3>3, <4>1 DEF Current
    <3> QED
      BY <3>2, <3>3
  <2> QED
    BY <2>4, <2>5
<1> QED
  BY <1>1, <1>3, <1>4

\* What the registry lists.
LEMMA KindIs ==
  ASSUME NEW d, NEW b, NEW removed, DiskOK(d, b, removed), NEW n \in PluginNames
  PROVE  /\ KindOf(d, n) \in {"Bundled", "External"} /\ plugin_id(n, KindOf(d, n)) \in PluginIds
         /\ KindOf(d, n) = "Bundled" <=> d.reg[n].kind = "Bundled"
         /\ NameOf(plugin_id(n, KindOf(d, n))) = n
         /\ plugin_id("b", "Bundled") = "b@bundled" /\ plugin_id("e", KindOf(d, n)) = "e@external"
<1>1. KindsFit(d) /\ NoRecord.kind = "None"
  BY NoRecordIsOne DEF DiskOK
<1>2. KindOf(d, n) \in {"Bundled", "External"} /\ (KindOf(d, n) = "Bundled" <=> d.reg[n].kind = "Bundled")
  BY <1>1 DEF KindsFit, KindOf, PluginNames
<1> QED
  BY <1>2 DEF plugin_id, PluginIds, PluginNames, NameOf

PluginInfos == [id : PluginIds, kind : {"Bundled", "External"}, version : PluginVersions]

LEMMA DiscoveredAre ==
  ASSUME NEW d, NEW b, NEW removed, DiskOK(d, b, removed), NEW p \in Discovered(d)
  PROVE  /\ p \in PluginInfos /\ ManifestLoads(d.dir[NameOf(p.id)]) /\ p.version = d.dir[NameOf(p.id)]
         /\ p.kind = KindOf(d, NameOf(p.id)) /\ p.id = plugin_id(NameOf(p.id), p.kind) /\ NameOf(p.id) \in PluginNames
<1>1. PICK n \in PluginNames :
        /\ ManifestLoads(d.dir[n])
        /\ p = [id |-> plugin_id(n, KindOf(d, n)), kind |-> KindOf(d, n), version |-> d.dir[n]]
  BY DEF Discovered
<1> QED
  BY <1>1, KindIs DEF ManifestLoads, PluginInfos

LEMMA CurrentIsListed ==
  ASSUME NEW d, NEW removed, DiskOK(d, bundle, removed), bundle \in PluginVersions \cup {"none"}, Current(d)
  PROVE  IF bundle = "none" THEN \A p \in Discovered(d) : p.kind # "Bundled"
         ELSE \E p \in Discovered(d) : p.id = "b@bundled" /\ p.version = bundle
<1>1. CASE bundle = "none"
  <2>1. ASSUME NEW p \in Discovered(d) PROVE p.kind # "Bundled"
    <3>1. PICK n \in PluginNames : n = NameOf(p.id) /\ p.kind = KindOf(d, n)
      BY DiscoveredAre
    <3>2. d.reg[n].kind # "Bundled"
      BY <1>1 DEF Current, DiskOK, KindsFit, PluginNames
    <3> QED
      BY <3>1, <3>2, KindIs
  <2> QED
    BY <1>1, <2>1
<1>2. CASE bundle # "none"
  <2>1. /\ "b" \in PluginNames /\ d.dir["b"] = bundle /\ ManifestLoads(d.dir["b"])
        /\ d.reg["b"].kind = "Bundled"
    BY <1>2 DEF Current, ManifestLoads, PluginNames
  <2>2. KindOf(d, "b") = "Bundled" /\ plugin_id("b", "Bundled") = "b@bundled"
    BY <2>1, KindIs
  <2>3. PICK p : p = [id |-> "b@bundled", kind |-> "Bundled", version |-> bundle]
    OBVIOUS
  <2>4. p \in Discovered(d)
    BY <2>1, <2>2, <2>3 DEF Discovered
  <2> QED
    BY <1>2, <2>3, <2>4
<1> QED
  BY <1>1, <1>2

LEMMA ListedOnce ==
  ASSUME NEW d, NEW b, NEW removed, DiskOK(d, b, removed)
  PROVE  /\ Plugins(d) \subseteq PluginInfos
         /\ \A p, q \in Plugins(d) : p.id = q.id => p = q
<1> DEFINE outer == [id |-> "e@external", kind |-> "External", version |-> "v1"]
<1>1. outer \in PluginInfos /\ outer.id = "e@external"
  BY DEF PluginInfos, PluginIds, PluginVersions
<1> HIDE DEF outer
<1>2. ASSUME NEW p \in Plugins(d)
      PROVE  p \in Discovered(d) \/ (p = outer /\ \A q \in Discovered(d) : q.id # "e@external")
  BY Zenon DEF Plugins, outer
<1>3. \A p \in Discovered(d) : p \in PluginInfos
  BY DiscoveredAre
<1>4. ASSUME NEW p \in Discovered(d), NEW q \in Discovered(d), p.id = q.id PROVE p = q
  <2>1. /\ p \in PluginInfos /\ p.version = d.dir[NameOf(p.id)] /\ p.kind = KindOf(d, NameOf(p.id))
        /\ q \in PluginInfos /\ q.version = d.dir[NameOf(q.id)] /\ q.kind = KindOf(d, NameOf(q.id))
    BY DiscoveredAre
  <2> QED
    BY <1>4, <2>1 DEF PluginInfos
<1>5. ASSUME NEW p \in Plugins(d), NEW q \in Plugins(d), p.id = q.id PROVE p = q
  BY <1>1, <1>2, <1>4, <1>5
<1> QED
  BY <1>1, <1>2, <1>3, <1>5

\* The ids of plugins that differ by their ids are as many as the plugins.
LEMMA IdsCount ==
  ASSUME NEW on \in SUBSET PluginInfos, \A p, q \in on : p.id = q.id => p = q
  PROVE  /\ {p.id : p \in on} \subseteq PluginIds
         /\ Cardinality(on) = Cardinality({p.id : p \in on})
<1> DEFINE ids == {p.id : p \in on}
           f == [i \in ids |-> CHOOSE p \in on : p.id = i]
<1>1. ids \subseteq PluginIds
  BY DEF PluginInfos
<1>2. IsFiniteSet(ids)
  <2>1. IsFiniteSet({"b@bundled"}) /\ IsFiniteSet({"b@external"}) /\ IsFiniteSet({"e@external"})
    BY FS_Singleton
  <2>2. IsFiniteSet(({"b@bundled"} \cup {"b@external"}) \cup {"e@external"})
    BY <2>1, FS_Union
  <2>3. PluginIds = ({"b@bundled"} \cup {"b@external"}) \cup {"e@external"}
    BY DEF PluginIds
  <2> QED
    BY <1>1, <2>2, <2>3, FS_Subset
<1>3. \A i \in ids : f[i] \in on /\ f[i].id = i
  <2>1. \A i \in ids : \E p \in on : p.id = i
    OBVIOUS
  <2> QED
    BY <2>1
<1> HIDE DEF f
<1>4. f \in [ids -> on]
  <2>1. f = [i \in ids |-> f[i]]
    BY DEF f
  <2> QED
    BY <1>3, <2>1
<1>5. \A p \in on : p.id \in ids /\ f[p.id] = p
  BY <1>3
<1> HIDE DEF ids
<1>6. f \in Bijection(ids, on)
  <2>1. \A i, j \in ids : f[i] = f[j] => i = j
    BY <1>3
  <2>2. \A p \in on : \E i \in ids : f[i] = p
    BY <1>5
  <2> QED
    BY <1>4, <2>1, <2>2 DEF Bijection, Injection, Surjection, IsInjective
<1>7. ExistsBijection(ids, on)
  BY <1>6 DEF ExistsBijection
<1>8. Cardinality(on) = Cardinality(ids)
  BY <1>2, <1>7, FS_Bijection
<1> QED
  BY <1>1, <1>8 DEF ids

LEMMA InOrderIs ==
  ASSUME NEW ids \in SUBSET PluginIds
  PROVE  InOrder(ids) \in Seq(PluginIds) /\ Len(InOrder(ids)) = Cardinality(ids)
<1> DEFINE If(i) == IF i \in ids THEN <<i>> ELSE <<>>
           One(i) == IF i \in ids THEN 1 ELSE 0
           A == {i \in ids : i = "b@bundled"}
           B == {i \in ids : i \in {"b@bundled", "b@external"}}
<1>1. \A i \in PluginIds : If(i) \in Seq(PluginIds) /\ Len(If(i)) = One(i)
  OBVIOUS
<1>2. \A i \in PluginIds : One(i) \in {0, 1}
  OBVIOUS
<1>3. "b@bundled" \in PluginIds /\ "b@external" \in PluginIds /\ "e@external" \in PluginIds
  BY DEF PluginIds
<1>4. IsFiniteSet(A) /\ Cardinality(A) = One("b@bundled")
  <2>1. CASE "b@bundled" \in ids
    <3>1. A = {"b@bundled"}
      BY <2>1
    <3> QED
      BY <2>1, <3>1, FS_Singleton
  <2>2. CASE "b@bundled" \notin ids
    <3>1. A = {}
      BY <2>2
    <3> QED
      BY <2>2, <3>1, FS_EmptySet
  <2> QED
    BY <2>1, <2>2
<1>5. IsFiniteSet(B) /\ Cardinality(B) = One("b@bundled") + One("b@external")
  <2>1. CASE "b@external" \in ids
    <3>1. B = A \cup {"b@external"} /\ "b@external" \notin A
      BY <2>1
    <3> QED
      BY <1>4, <2>1, <3>1, FS_AddElement
  <2>2. CASE "b@external" \notin ids
    <3>1. B = A
      BY <2>2
    <3> QED
      BY <1>2, <1>3, <1>4, <2>2, <3>1
  <2> QED
    BY <2>1, <2>2
<1>6. Cardinality(ids) = One("b@bundled") + One("b@external") + One("e@external")
  <2>1. CASE "e@external" \in ids
    <3>1. ids = B \cup {"e@external"} /\ "e@external" \notin B
      BY <2>1 DEF PluginIds
    <3> QED
      BY <1>5, <2>1, <3>1, FS_AddElement
  <2>2. CASE "e@external" \notin ids
    <3>1. ids = B
      BY <2>2 DEF PluginIds
    <3> QED
      BY <1>2, <1>3, <1>5, <2>2, <3>1
  <2> QED
    BY <2>1, <2>2
<1>7. InOrder(ids) = (If("b@bundled") \o If("b@external")) \o If("e@external")
  BY DEF InOrder
<1> HIDE DEF If, One
<1>8. /\ If("b@bundled") \o If("b@external") \in Seq(PluginIds)
      /\ Len(If("b@bundled") \o If("b@external")) = One("b@bundled") + One("b@external")
  BY <1>1, <1>3, ConcatProperties
<1>9. PICK s \in Seq(PluginIds), u \in Seq(PluginIds) :
        s = If("b@bundled") \o If("b@external") /\ u = If("e@external")
  BY <1>1, <1>3, <1>8
<1>10. InOrder(ids) = s \o u /\ s \o u \in Seq(PluginIds) /\ Len(s \o u) = Len(s) + Len(u)
  BY <1>7, <1>9, ConcatProperties
<1>11. Len(s) = One("b@bundled") + One("b@external") /\ Len(u) = One("e@external")
  BY <1>1, <1>3, <1>8, <1>9
<1> QED
  BY <1>6, <1>10, <1>11

\* A runtime that was not started, and one that was, as far as it came.
LEMMA NothingIsPrefix ==
  ASSUME NEW s \in Seq(PluginIds)
  PROVE  Reverse(s) \in Seq(PluginIds) /\ Len(Reverse(s)) = Len(s) /\ IsPrefix(<<>>, Reverse(s))
<1>1. Len(s) \in Nat /\ \A i \in 1 .. Len(s) : s[i] \in PluginIds
  OBVIOUS
<1>2. PICK n \in Nat : n = Len(s)
  BY <1>1
<1>3. \A i \in 1 .. n : n - i + 1 \in 1 .. n
  OBVIOUS
<1>4. Reverse(s) = [i \in 1 .. n |-> s[(n - i) + 1]]
  BY <1>2 DEF Reverse
<1>5. Reverse(s) \in [1 .. n -> PluginIds]
  BY <1>1, <1>2, <1>3, <1>4
<1>6. Reverse(s) \in Seq(PluginIds) /\ Len(Reverse(s)) = n
  BY <1>5
<1>7. SubSeq(<<>>, 1, 0) = <<>> /\ SubSeq(Reverse(s), 1, 0) = <<>>
  BY SubSeqEmpty
<1>8. Len(<<>>) = 0
  OBVIOUS
<1> QED
  BY <1>2, <1>6, <1>7, <1>8 DEF IsPrefix

LEMMA PartsOf ==
  ASSUME NEW s \in Seq(PluginIds), NEW t \in run_lifecycle_commands(s)
  PROVE  t \in Seq(PluginIds) /\ IsPrefix(t, s)
<1>1. PICK n \in 0 .. Len(s) : t = SubSeq(s, 1, n)
  BY DEF run_lifecycle_commands
<1>2. n \in Nat /\ n <= Len(s) /\ \A i \in 1 .. n : s[i] \in PluginIds
  OBVIOUS
<1>3. t \in Seq(PluginIds) /\ Len(t) = n /\ \A i \in 1 .. n : t[i] = s[i]
  BY <1>1, <1>2, SubSeqProperties
<1>4. SubSeq(t, 1, n) = t
  BY <1>3
<1> QED
  BY <1>1, <1>2, <1>3, <1>4 DEF IsPrefix

LEMMA NoRuntimeIsOne == RunOK(NoRuntime)
<1>1. /\ NoRuntime.state = "none" /\ NoRuntime.started = <<>> /\ NoRuntime.stopped = <<>>
      /\ NoRuntime.plugins = {} /\ NoRuntime \in PluginRuns
  BY DEF NoRuntime, PluginRuns
<1>2. <<>> \in Seq(PluginIds)
  OBVIOUS
<1>3. IsPrefix(<<>>, Reverse(<<>>))
  BY <1>2, NothingIsPrefix
<1> QED
  BY <1>1, <1>3 DEF RunOK

LEMMA StartedRun ==
  ASSUME NEW on \in SUBSET PluginInfos, \A p, q \in on : p.id = q.id => p = q, ~ToolsClash(on),
         NEW order, order = InOrder({p.id : p \in on}), NEW done \in run_lifecycle_commands(order),
         NEW how, how = IF done = order THEN "live" ELSE "failed"
  PROVE  RunOK([state |-> how, started |-> done, stopped |-> <<>>, plugins |-> on])
<1>1. order \in Seq(PluginIds) /\ Len(order) = Cardinality(on)
  BY IdsCount, InOrderIs
<1>2. done \in Seq(PluginIds)
  BY <1>1, PartsOf
<1>3. PICK run : run = [state |-> how, started |-> done, stopped |-> <<>>, plugins |-> on]
  OBVIOUS
<1>4. run.state = how /\ run.started = done /\ run.stopped = <<>> /\ run.plugins = on
  BY <1>3
<1>5. run \in PluginRuns
  BY <1>2, <1>3 DEF PluginRuns, PluginInfos
<1>6. IsPrefix(run.stopped, Reverse(run.started))
  BY <1>2, <1>4, NothingIsPrefix
<1>7. run.state = "live" => done = order
  BY <1>4
<1> QED
  BY <1>1, <1>3, <1>4, <1>5, <1>6, <1>7 DEF RunOK

LEMMA StoppedRun ==
  ASSUME NEW run, RunOK(run), run.state = "live",
         NEW done \in run_lifecycle_commands(Reverse(InOrder({p.id : p \in run.plugins})))
  PROVE  RunOK([run EXCEPT !.state = "gone", !.stopped = done])
<1>1. run \in PluginRuns /\ run.started = InOrder({p.id : p \in run.plugins})
  BY DEF RunOK
<1>2. run.started \in Seq(PluginIds) /\ run.stopped \in Seq(PluginIds)
  BY <1>1 DEF PluginRuns
<1>3. Reverse(run.started) \in Seq(PluginIds)
  BY <1>2, NothingIsPrefix
<1>4. done \in Seq(PluginIds) /\ IsPrefix(done, Reverse(run.started))
  BY <1>1, <1>3, PartsOf
<1>5. PICK run2 : run2 = [run EXCEPT !.state = "gone", !.stopped = done]
  OBVIOUS
<1>6. run2 \in PluginRuns /\ run2.state = "gone" /\ run2.started = run.started /\ run2.stopped = done
  BY <1>1, <1>4, <1>5 DEF PluginRuns
<1> QED
  BY <1>4, <1>5, <1>6 DEF RunOK

\* What the user was told about flags.
LEMMA SameFlags ==
  ASSUME FlagTypes, AcknowledgedFlagsLast, KeepFlags
  PROVE  FlagTypes' /\ AcknowledgedFlagsLast'
BY DEF FlagTypes, AcknowledgedFlagsLast, KeepFlags, flagVars

LEMMA WrittenFlags ==
  ASSUME FlagTypes, AcknowledgedFlagsLast, NEW id \in PluginIds, NEW value \in {"unset", "on", "off"},
         write_enabled_state(id, value)
  PROVE  FlagTypes' /\ AcknowledgedFlagsLast'
<1>1. CASE FlagWritten(id, value)
  BY <1>1 DEF FlagWritten, FlagTypes, AcknowledgedFlagsLast, Flags
<1>2. CASE FlagsDestroyed
  BY <1>2 DEF FlagsDestroyed, FlagTypes, AcknowledgedFlagsLast, Flags
<1> QED
  BY <1>1, <1>2, SameFlags, Zenon DEF write_enabled_state

\* The operations.
LEMMA PluginStart == ASSUME PlugInit PROVE PluginIInv
<1>1. /\ plugin_settings = [i \in PluginIds |-> "unset"] /\ plugin_memory = plugin_settings
      /\ plugin_acked = plugin_settings /\ bundle = "v1" /\ plugin_origin = "v1" /\ plugin_removed = {}
      /\ plugin_run = NoRuntime
      /\ settings_file = "ok" /\ plugin_lost = {}
  BY DEF PlugInit
<1>2. FlagTypes /\ AcknowledgedFlagsLast
  BY <1>1 DEF FlagTypes, Flags, AcknowledgedFlagsLast
<1>3. /\ plugin_disk.dir = [n \in PluginNames |-> "none"]
      /\ plugin_disk.reg = [n \in PluginNames |-> NoRecord]
      /\ plugin_disk \in PluginDisks
  BY NoRecordIsOne DEF PlugInit, PluginDisks, DirContents, CopyStates
<1>4. DiskOK(plugin_disk, "v1", {})
  BY <1>3, NoRecordIsOne DEF DiskOK, KindsFit, ShippedFits, GoneFits, PluginNames, ManifestLoads, PluginVersions
<1> QED
  BY <1>1, <1>2, <1>4, NoRuntimeIsOne DEF PluginIInv, PluginVersions

LEMMA NoneGone == ASSUME NEW d, NEW b, NEW removed, DiskOK(d, b, removed) PROVE DiskOK(d, b, {})
BY DEF DiskOK, GoneFits

\* A copy of "e" placed on the disk, its record written or not.
LEMMA PlaceExternal ==
  ASSUME NEW d, NEW b, NEW removed, DiskOK(d, b, removed), NEW v \in PluginVersions,
         NEW r \in PlacePlugin(d, "e", v, [kind |-> "External", version |-> v])
  PROVE  DiskOK(r.disk, b, {})
<1>1. PICK record : record = [kind |-> "External", version |-> v]
  OBVIOUS
<1>2. record \in PluginRecords /\ "e" \in PluginNames /\ d \in PluginDisks
  BY <1>1 DEF PluginRecords, RecordKinds, PluginNames, DiskOK
<1>3. Placed(d, r, "e", v, record)
  BY <1>1, <1>2, PlacePluginIs
<1> QED
  BY <1>1, <1>3, InstalledKeeps

LEMMA InstallStep == ASSUME PluginIInv, install PROVE PluginIInv'
<1>1. /\ FlagTypes /\ AcknowledgedFlagsLast /\ DiskOK(plugin_disk, bundle, plugin_removed) /\ RunOK(plugin_run)
      /\ bundle' = bundle /\ plugin_origin' = plugin_origin /\ plugin_run' = plugin_run
  BY DEF PluginIInv, install
<1>2. plugin_removed' = {}
  BY <1>1 DEF install, DiskOK, GoneFits
<1>3. "e@external" \in PluginIds
  BY DEF PluginIds
<1>4. FlagTypes' /\ AcknowledgedFlagsLast' /\ DiskOK(plugin_disk', bundle, {})
  <2>1. CASE ~ManifestLoads(plugin_origin)
    <3>1. plugin_disk' = plugin_disk /\ KeepFlags
      BY <2>1, Zenon DEF install
    <3> QED
      BY <1>1, <3>1, SameFlags, NoneGone
  <2>2. CASE ManifestLoads(plugin_origin)
    <3>1. PICK r \in PlacePlugin(plugin_disk, "e", plugin_origin, [kind |-> "External", version |-> plugin_origin]) :
            /\ plugin_disk' = r.disk
            /\ IF r.ok THEN write_enabled_state("e@external", "on")
               ELSE KeepFlags
      BY <2>2, Zenon DEF install
    <3>2. DiskOK(plugin_disk', bundle, {})
      BY <1>1, <2>2, <3>1, PlaceExternal DEF ManifestLoads
    <3>3. FlagTypes' /\ AcknowledgedFlagsLast'
      BY <1>1, <1>3, <3>1, SameFlags, WrittenFlags
    <3> QED
      BY <3>2, <3>3
  <2> QED
    BY <2>1, <2>2
<1> QED
  BY <1>1, <1>2, <1>4 DEF PluginIInv

LEMMA SetEnabledStep ==
  ASSUME PluginIInv, NEW id \in PluginIds, NEW value \in {"on", "off"}, SetEnabled(id, value)
  PROVE  PluginIInv'
<1>1. /\ FlagTypes /\ AcknowledgedFlagsLast /\ DiskOK(plugin_disk, bundle, plugin_removed) /\ RunOK(plugin_run)
      /\ bundle \in PluginVersions \cup {"none"}
      /\ bundle' = bundle /\ plugin_origin' = plugin_origin /\ plugin_run' = plugin_run
      /\ plugin_removed' = plugin_removed
  BY DEF PluginIInv, SetEnabled
<1>2. PICK r \in plugin_registry(plugin_disk) :
        /\ plugin_disk' = r.disk
        /\ write_enabled_state(id, value) \/ KeepFlags
  BY Zenon DEF SetEnabled
<1>3. DiskOK(plugin_disk', bundle, plugin_removed)
  BY <1>1, <1>2, RegistryIs
<1>4. FlagTypes' /\ AcknowledgedFlagsLast'
  BY <1>1, <1>2, WrittenFlags, SameFlags
<1> QED
  BY <1>1, <1>3, <1>4 DEF PluginIInv

LEMMA UninstallStep == ASSUME PluginIInv, NEW id \in PluginIds, uninstall(id) PROVE PluginIInv'
<1> DEFINE name == NameOf(id)
           known == plugin_disk.reg[name] # NoRecord /\ plugin_id(name, plugin_disk.reg[name].kind) = id
<1>1. /\ FlagTypes /\ AcknowledgedFlagsLast /\ DiskOK(plugin_disk, bundle, plugin_removed) /\ RunOK(plugin_run)
      /\ bundle' = bundle /\ plugin_origin' = plugin_origin /\ plugin_run' = plugin_run
  BY DEF PluginIInv, uninstall
<1>2. CASE plugin_disk.file = "torn" \/ ~known \/ plugin_disk.reg[name].kind = "Bundled"
  <2>1. /\ plugin_disk' = plugin_disk /\ KeepFlags
        /\ plugin_removed' = plugin_removed
    BY <1>2, Zenon DEF uninstall
  <2>2. FlagTypes' /\ AcknowledgedFlagsLast'
    BY <1>1, <2>1, SameFlags
  <2> QED
    BY <1>1, <2>1, <2>2 DEF PluginIInv
<1>3. CASE known /\ plugin_disk.reg[name].kind # "Bundled" /\ plugin_disk.file # "torn"
  <2>1. PICK d : d = plugin_disk
    OBVIOUS
  <2>2. name = "e" /\ id = "e@external"
    BY <1>1, <1>3, NoRecordIsOne DEF DiskOK, KindsFit, NameOf, PluginNames, PluginIds
  <2>3. PICK r \in RemoveThen(plugin_disk, name) :
          /\ plugin_disk' = r.disk
          /\ \/ r.ok /\ write_enabled_state(id, "unset") /\ plugin_removed' = plugin_removed \cup {id}
             \/ KeepFlags /\ plugin_removed' = plugin_removed
    BY <1>3, Zenon DEF uninstall, RemoveThen
  <2>4. d \in PluginDisks /\ "e" \in PluginNames
    BY <1>1, <2>1 DEF DiskOK, PluginNames
  <2>5. /\ OnlyLost(d, r.disk) /\ r.disk.copy["b"] = d.copy["b"]
        /\ r.ok => r.disk.dir["e"] = "none" /\ r.disk.reg["e"] = NoRecord
    BY <2>1, <2>2, <2>3, <2>4, RemoveThenIs DEF PluginNames
  <2>6. DiskOK(r.disk, bundle, plugin_removed)
    BY <1>1, <2>1, <2>5, DroppedKeeps
  <2>7. r.ok => DiskOK(r.disk, bundle, plugin_removed \cup {id})
    BY <2>2, <2>5, <2>6 DEF DiskOK, GoneFits, ManifestLoads, PluginVersions
  <2>8. DiskOK(plugin_disk', bundle, plugin_removed')
    BY <2>3, <2>6, <2>7
  <2>9. FlagTypes' /\ AcknowledgedFlagsLast'
    BY <1>1, <2>3, SameFlags, WrittenFlags
  <2> QED
    BY <1>1, <2>8, <2>9 DEF PluginIInv
<1> QED
  BY <1>2, <1>3

LEMMA UpdateStep == ASSUME PluginIInv, update PROVE PluginIInv'
<1>1. /\ FlagTypes /\ AcknowledgedFlagsLast /\ DiskOK(plugin_disk, bundle, plugin_removed) /\ RunOK(plugin_run)
      /\ plugin_disk.reg["e"] # NoRecord /\ plugin_origin \in PluginVersions
  BY DEF PluginIInv, update, ManifestLoads
<1>2. PICK r \in PlacePlugin(plugin_disk, "e", plugin_origin, [kind |-> "External", version |-> plugin_origin]) :
        plugin_disk' = r.disk
  BY DEF update
<1>3. UNCHANGED <<bundle, plugin_origin, flagVars, plugin_run, plugin_removed>>
  BY DEF update
<1>4. plugin_removed = {}
  BY <1>1 DEF DiskOK, GoneFits
<1>5. DiskOK(plugin_disk', bundle, {})
  BY <1>1, <1>2, PlaceExternal
<1> QED
  BY <1>1, <1>3, <1>4, <1>5 DEF PluginIInv, FlagTypes, AcknowledgedFlagsLast, flagVars

LEMMA ListStep == ASSUME PluginIInv, list_plugins PROVE PluginIInv'
<1>1. /\ DiskOK(plugin_disk, bundle, plugin_removed) /\ bundle \in PluginVersions \cup {"none"}
      /\ UNCHANGED <<bundle, plugin_origin, flagVars, plugin_run, plugin_removed>>
  BY DEF PluginIInv, list_plugins
<1>2. PICK r \in plugin_registry(plugin_disk) : plugin_disk' = r.disk
  BY DEF list_plugins
<1>3. DiskOK(plugin_disk', bundle, plugin_removed)
  BY <1>1, <1>2, RegistryIs
<1> QED
  BY <1>1, <1>3 DEF PluginIInv, FlagTypes, AcknowledgedFlagsLast, flagVars

LEMMA BuildStep == ASSUME PluginIInv, BuildRuntime PROVE PluginIInv'
<1>1. /\ DiskOK(plugin_disk, bundle, plugin_removed) /\ bundle \in PluginVersions \cup {"none"}
      /\ UNCHANGED <<bundle, plugin_origin, flagVars, plugin_removed>>
  BY DEF PluginIInv, BuildRuntime
<1>2. PICK r \in plugin_registry(plugin_disk) :
        /\ plugin_disk' = r.disk
        /\ LET on == {p \in Plugins(r.disk) : is_enabled(p)}
               order == InOrder({p.id : p \in on})
           IN  IF ~r.ok \/ LoadFailures(r.disk) # {} \/ ToolsClash(on)
               THEN plugin_run' = NoRuntime
               ELSE \E done \in initialize_plugins(order) :
                      plugin_run' = [state |-> IF done = order THEN "live" ELSE "failed",
                                     started |-> done, stopped |-> <<>>, plugins |-> on]
  BY DEF BuildRuntime
<1>3. DiskOK(r.disk, bundle, plugin_removed)
  BY <1>1, <1>2, RegistryIs
<1>4. PICK on : on = {p \in Plugins(r.disk) : is_enabled(p)}
  OBVIOUS
<1>5. on \in SUBSET PluginInfos /\ \A p, q \in on : p.id = q.id => p = q
  BY <1>3, <1>4, ListedOnce
<1>6. PICK order : order = InOrder({p.id : p \in on})
  OBVIOUS
<1>7. \/ plugin_run' = NoRuntime
      \/ /\ ~ToolsClash(on)
         /\ \E done \in run_lifecycle_commands(order) :
              plugin_run' = [state |-> IF done = order THEN "live" ELSE "failed",
                             started |-> done, stopped |-> <<>>, plugins |-> on]
  BY <1>2, <1>4, <1>6, Zenon DEF initialize_plugins
<1>8. CASE plugin_run' = NoRuntime
  BY <1>1, <1>2, <1>3, <1>8, NoRuntimeIsOne DEF PluginIInv, FlagTypes, AcknowledgedFlagsLast, flagVars
<1>9. ASSUME ~ToolsClash(on), NEW done \in run_lifecycle_commands(order),
             plugin_run' = [state |-> IF done = order THEN "live" ELSE "failed",
                            started |-> done, stopped |-> <<>>, plugins |-> on]
      PROVE  RunOK(plugin_run')
  <2>1. PICK how : how = IF done = order THEN "live" ELSE "failed"
    OBVIOUS
  <2>2. RunOK([state |-> how, started |-> done, stopped |-> <<>>, plugins |-> on])
    BY <1>5, <1>6, <1>9, <2>1, StartedRun
  <2> QED
    BY <1>9, <2>1, <2>2
<1>10. CASE RunOK(plugin_run')
  BY <1>1, <1>2, <1>3, <1>10 DEF PluginIInv, FlagTypes, AcknowledgedFlagsLast, flagVars
<1> QED
  BY <1>7, <1>8, <1>9, <1>10

LEMMA DropStep == ASSUME PluginIInv, DropRuntime PROVE PluginIInv'
<1>1. /\ RunOK(plugin_run) /\ plugin_run.state = "live"
      /\ UNCHANGED <<plugin_disk, bundle, plugin_origin, flagVars, plugin_removed>>
  BY DEF PluginIInv, DropRuntime
<1>2. PICK done \in run_lifecycle_commands(Reverse(InOrder({p.id : p \in plugin_run.plugins}))) :
        plugin_run' = [plugin_run EXCEPT !.state = "gone", !.stopped = done]
  BY Zenon DEF DropRuntime, shutdown_plugins
<1>3. RunOK(plugin_run')
  BY <1>1, <1>2, StoppedRun
<1> QED
  BY <1>1, <1>3 DEF PluginIInv, FlagTypes, AcknowledgedFlagsLast, flagVars

LEMMA RestartStep == ASSUME PluginIInv, PluginRestart PROVE PluginIInv'
<1>1. /\ plugin_memory' = plugin_settings /\ plugin_run' = NoRuntime
      /\ plugin_acked' = [i \in PluginIds |-> IF i \in plugin_lost THEN plugin_settings[i] ELSE plugin_acked[i]]
      /\ plugin_lost' = {}
      /\ UNCHANGED <<plugin_disk, bundle, plugin_origin, plugin_settings, settings_file,
                     plugin_removed>>
  BY DEF PluginRestart
<1>2. FlagTypes' /\ AcknowledgedFlagsLast'
  BY <1>1 DEF PluginIInv, FlagTypes, AcknowledgedFlagsLast
<1> QED
  BY <1>1, <1>2, NoRuntimeIsOne DEF PluginIInv

LEMMA OutsideStep ==
  ASSUME PluginIInv, bundle' \in PluginVersions \cup {"none"}, plugin_origin' \in {"v1", "v2", "broken"},
         DiskOK(plugin_disk', bundle', plugin_removed),
         UNCHANGED <<flagVars, plugin_run, plugin_removed>>
  PROVE  PluginIInv'
BY DEF PluginIInv, FlagTypes, AcknowledgedFlagsLast, flagVars

LEMMA ReleaseStep == ASSUME PluginIInv, ReleaseProgram PROVE PluginIInv'
<1>1. /\ bundle' = CASE bundle = "v1" -> "v2" [] OTHER -> "none"
      /\ UNCHANGED <<plugin_disk, plugin_origin, flagVars, plugin_run, plugin_removed>>
      /\ DiskOK(plugin_disk, bundle, plugin_removed) /\ plugin_origin \in {"v1", "v2", "broken"}
  BY DEF ReleaseProgram, PluginIInv
<1>2. bundle' = IF bundle = "v1" THEN "v2" ELSE "none"
  BY <1>1
<1>3. ShippedFits(plugin_disk, bundle')
  BY <1>1, <1>2 DEF DiskOK, ShippedFits
<1>4. DiskOK(plugin_disk', bundle', plugin_removed)
  BY <1>1, <1>3 DEF DiskOK
<1> QED
  BY <1>1, <1>2, <1>4, OutsideStep DEF PluginVersions

LEMMA EditStep == ASSUME PluginIInv, NEW c \in {"v1", "v2", "broken"}, EditSource(c) PROVE PluginIInv'
<1>1. /\ plugin_origin' = c
      /\ UNCHANGED <<plugin_disk, bundle, flagVars, plugin_run, plugin_removed>>
      /\ DiskOK(plugin_disk, bundle, plugin_removed) /\ bundle \in PluginVersions \cup {"none"}
  BY DEF EditSource, PluginIInv
<1> QED
  BY <1>1, OutsideStep

LEMMA DamageStep ==
  ASSUME PluginIInv, NEW name \in PluginNames, NEW c \in {"none", "broken"}, DamageCopy(name, c)
  PROVE  PluginIInv'
<1>1. /\ plugin_disk' = Holding(plugin_disk, name, c, "whole")
      /\ UNCHANGED <<bundle, plugin_origin, flagVars, plugin_run, plugin_removed>>
      /\ DiskOK(plugin_disk, bundle, plugin_removed) /\ bundle \in PluginVersions \cup {"none"}
      /\ plugin_origin \in {"v1", "v2", "broken"}
  BY DEF DamageCopy, PluginIInv
<1>2. PICK d, e : d = plugin_disk /\ e = Holding(d, name, c, "whole")
  OBVIOUS
<1>3. d \in PluginDisks /\ c \in DirContents
  BY <1>1, <1>2 DEF DiskOK, DirContents
<1>4. DirMoved(d, e, name, c, "whole")
  BY <1>2, <1>3, DirStep DEF CopyStates
<1>5. OnlyLost(d, e) /\ (ManifestLoads(e.dir["b"]) => e.copy["b"] = d.copy["b"])
  BY <1>3, <1>4 DEF DirMoved, OnlyLost, PluginDisks, ManifestLoads, PluginVersions, PluginNames
<1>6. DiskOK(e, bundle, plugin_removed)
  BY <1>1, <1>2, <1>5, DroppedKeeps
<1> QED
  BY <1>1, <1>2, <1>6, OutsideStep

LEMMA DeleteRegistryStep == ASSUME PluginIInv, DeleteRegistry PROVE PluginIInv'
<1>1. /\ plugin_disk' = [plugin_disk EXCEPT !.file = "ok", !.reg = NoRecords]
      /\ UNCHANGED <<bundle, plugin_origin, flagVars, plugin_run, plugin_removed>>
      /\ DiskOK(plugin_disk, bundle, plugin_removed) /\ bundle \in PluginVersions \cup {"none"}
      /\ plugin_origin \in {"v1", "v2", "broken"}
  BY DEF DeleteRegistry, PluginIInv, NoRecords
<1>2. PICK d, e : d = plugin_disk /\ e = [d EXCEPT !.file = "ok", !.reg = NoRecords]
  OBVIOUS
<1>3. d \in PluginDisks /\ NoRecords \in [PluginNames -> PluginRecords] /\ \A n \in PluginNames : NoRecords[n] = NoRecord
  BY <1>1, <1>2, NoRecordIsOne DEF DiskOK, NoRecords
<1>4. e \in PluginDisks /\ e.dir = d.dir /\ e.copy = d.copy /\ e.reg = NoRecords
  BY <1>2, <1>3 DEF PluginDisks
<1>5. OnlyLost(d, e)
  BY <1>3, <1>4 DEF OnlyLost
<1>6. DiskOK(e, bundle, plugin_removed)
  BY <1>1, <1>2, <1>4, <1>5, DroppedKeeps
<1> QED
  BY <1>1, <1>2, <1>6, OutsideStep

LEMMA DeleteSettingsStep == ASSUME PluginIInv, DeleteSettings PROVE PluginIInv'
BY DEF DeleteSettings, PluginIInv, FlagTypes, AcknowledgedFlagsLast

LEMMA PluginStep == ASSUME PluginIInv, PlugNext PROVE PluginIInv'
<1>1. PlugStep
  BY DEF PlugNext
<1>2. ASSUME NEW i \in PluginIds, SetEnabled(i, "on") \/ SetEnabled(i, "off") \/ uninstall(i) PROVE PluginIInv'
  BY <1>2, SetEnabledStep, UninstallStep
<1>3. CASE ReleaseProgram \/ DeleteRegistry \/ DeleteSettings
  BY <1>3, ReleaseStep, DeleteRegistryStep, DeleteSettingsStep
<1>4. ASSUME NEW c \in {"v1", "v2", "broken"}, EditSource(c) PROVE PluginIInv'
  BY <1>4, EditStep
<1>5. ASSUME NEW n \in PluginNames, NEW c \in {"none", "broken"}, DamageCopy(n, c) PROVE PluginIInv'
  BY <1>5, DamageStep
<1> QED
  BY <1>1, <1>2, <1>3, <1>4, <1>5, InstallStep, UpdateStep, ListStep, BuildStep, DropStep, RestartStep, Zenon
     DEF PlugStep

LEMMA PluginIInvIsEnough == ASSUME PluginIInv PROVE PluginManagerSound
<1>1. DiskOK(plugin_disk, bundle, plugin_removed) /\ bundle \in PluginVersions \cup {"none"} /\ RunOK(plugin_run)
  BY DEF PluginIInv
<1>2. RemovedStaysRemoved
  <2> SUFFICES ASSUME NEW p \in Discovered(plugin_disk), p.id \in plugin_removed PROVE FALSE
    BY DEF RemovedStaysRemoved
  <2>1. p.id = "e@external" /\ plugin_removed # {} /\ ~ManifestLoads(plugin_disk.dir["e"])
    BY <1>1 DEF DiskOK, GoneFits
  <2>2. ManifestLoads(plugin_disk.dir[NameOf(p.id)])
    BY <1>1, DiscoveredAre
  <2> QED
    BY <2>1, <2>2 DEF NameOf
<1>3. BundledIsCurrent
  <2> SUFFICES ASSUME NEW r \in plugin_registry(plugin_disk), r.ok
               PROVE  IF bundle = "none" THEN \A p \in Discovered(r.disk) : p.kind # "Bundled"
                      ELSE /\ \E p \in Discovered(r.disk) : p.id = "b@bundled" /\ p.version = bundle
                           /\ r.disk.copy["b"] # "half"
    BY DEF BundledIsCurrent
  <2>1. DiskOK(r.disk, bundle, plugin_removed) /\ Current(r.disk)
    BY <1>1, RegistryIs
  <2> QED
    BY <1>1, <2>1, CurrentIsListed DEF Current
<1>4. StopsMirrorStarts
  BY <1>1 DEF RunOK, StopsMirrorStarts
<1>5. OneOwnerPerTool
  BY <1>1, Zenon DEF RunOK, ToolsClash, OneOwnerPerTool
<1> QED
  BY <1>2, <1>3, <1>4, <1>5 DEF PluginManagerSound, PluginIInv

\* The plugin manager, for any number of operations and failing steps of the file system:
\* the flag an operation returned Ok for is the manager's until the next, and the settings
\* file's as well unless a write destroyed the file; an uninstalled plugin stays away; the
\* shipped plugin is there in the shipped version, whole but for a failed copy over the same
\* version, or not at all; plugins are shut down in the reverse order of their start, and a
\* tool has one owner.
THEOREM PluginsFollowTheUser == PartSpec => []PluginManagerChecked
<1>1. PartInit => PluginIInv
  BY PluginStart DEF PartInit
<1>2. PluginIInv /\ [PartNext]_partVars => PluginIInv'
  <2> SUFFICES ASSUME PluginIInv, [PartNext]_partVars PROVE PluginIInv'
    OBVIOUS
  <2>1. PlugNext \/ UNCHANGED plugVars
    BY Zenon DEF PartNext, partVars
  <2>2. CASE UNCHANGED plugVars
    BY <2>2 DEF plugVars, PluginIInv, FlagTypes, AcknowledgedFlagsLast
  <2> QED
    BY <2>1, <2>2, PluginStep
<1>3. PluginIInv => PluginManagerChecked
  BY PluginIInvIsEnough DEF PluginManagerChecked
<1> QED
  BY <1>1, <1>2, <1>3, PTL DEF PartSpec

-----------------------------------------------------------------------------
(* Plugin manifests *)

ManifestIInv == manifest \in Seq(ManifestEntries)

LEMMA CommandNames ==
  ASSUME NEW entry \in ManifestEntries
  PROVE  /\ entry.list \in {"hook", "lifecycle"} => entry.name \in EntryShapes
         /\ entry.list = "tool" => entry.command \in {"", "./file", "./missing"}
BY DEF ManifestEntries

\* Resolving an entry that passed the check at loading gives one that passes the check at use.
LEMMA CheckedEntryResolves ==
  ASSUME NEW entry \in EntryShapes, NEW at, entry # "", validate_command_entry(at, entry) = {}
  PROVE  validate_command_path(resolve_hook_entry(entry))
BY DEF EntryShapes, validate_command_entry, validate_command_path, resolve_hook_entry,
       is_literal_command, PathExists, PathIsFile

LEMMA AcceptedMeansChecked ==
  ASSUME ManifestIInv, load_manifest_from_path(manifest) = {}
  PROVE  /\ build_manifest_permissions(manifest) = {} /\ validate_command_entries(manifest) = {}
         /\ build_manifest_tools(manifest) = {} /\ build_manifest_commands(manifest) = {}
BY DEF load_manifest_from_path, build_plugin_manifest

LEMMA AcceptedHooks ==
  ASSUME ManifestIInv, load_manifest_from_path(manifest) = {},
         NEW i \in Listed(manifest, "hook") \cup Listed(manifest, "lifecycle")
  PROVE  validate_command_path(resolve_hook_entry(manifest[i].name))
<1>1. manifest[i] \in ManifestEntries /\ manifest[i].list \in {"hook", "lifecycle"}
  BY DEF ManifestIInv, Listed
<1>2. manifest[i].name \in EntryShapes
  BY <1>1, CommandNames
<1>3. validate_command_entry(i, manifest[i].name) = {}
  BY AcceptedMeansChecked, Zenon DEF validate_command_entries
<1>4. manifest[i].name # ""
  BY <1>3 DEF validate_command_entry
<1> QED
  BY <1>2, <1>3, <1>4, CheckedEntryResolves

LEMMA AcceptedTools ==
  ASSUME ManifestIInv, load_manifest_from_path(manifest) = {}, NEW i \in Listed(manifest, "tool")
  PROVE  validate_command_path(resolve_hook_entry(manifest[i].command))
<1>1. manifest[i] \in ManifestEntries /\ manifest[i].list = "tool"
  BY DEF ManifestIInv, Listed
<1>2. manifest[i].command \in EntryShapes
  BY <1>1, CommandNames DEF EntryShapes
<1>3. CommonErrors(i, manifest[i]) = {}
  <2>1. \A k \in Listed(manifest, "tool") :
          (IF manifest[k].name = "" THEN {Err(k, "EmptyEntryField")}
           ELSE IF SeenBefore(manifest, "tool", k) THEN {Err(k, "DuplicateEntry")}
           ELSE CommonErrors(k, manifest[k])
                  \cup (IF manifest[k].schema THEN {} ELSE {Err(k, "InvalidToolInputSchema")})
                  \cup (IF manifest[k].permission = "bad" THEN {Err(k, "InvalidToolRequiredPermission")} ELSE {})) = {}
    BY AcceptedMeansChecked, Zenon DEF build_manifest_tools
  <2> QED
    BY <2>1
<1>4. manifest[i].command # "" /\ validate_command_entry(i, manifest[i].command) = {}
  BY <1>3 DEF CommonErrors
<1> QED
  BY <1>2, <1>4, CheckedEntryResolves

LEMMA LoadedValidate == ManifestIInv => LoadedPluginsValidate
<1> SUFFICES ASSUME ManifestIInv, load_manifest_from_path(manifest) = {} PROVE validate(manifest)
  BY DEF LoadedPluginsValidate
<1> QED
  BY AcceptedHooks, AcceptedTools DEF validate, ResolvedHooks, ResolvedLifecycle, ResolvedTools

\* An accepted name is not one that came before in its list.
LEMMA AcceptedIsNew ==
  ASSUME ManifestIInv, load_manifest_from_path(manifest) = {},
         NEW list \in {"permission", "tool", "command"}, NEW i \in Listed(manifest, list)
  PROVE  ~SeenBefore(manifest, list, i)
<1>1. CASE list = "permission"
  <2>1. \A k \in Listed(manifest, "permission") :
          (LET p == trim(manifest[k].name)
           IN  IF p = "" THEN {Err(k, "EmptyEntryField")}
               ELSE IF SeenBefore(manifest, "permission", k) THEN {Err(k, "DuplicatePermission")}
               ELSE IF p = "bad" THEN {Err(k, "InvalidPermission")}
               ELSE {}) = {}
    BY AcceptedMeansChecked, Zenon DEF build_manifest_permissions
  <2> QED
    BY <1>1, <2>1
<1>2. CASE list = "tool"
  <2>1. \A k \in Listed(manifest, "tool") :
          (IF manifest[k].name = "" THEN {Err(k, "EmptyEntryField")}
           ELSE IF SeenBefore(manifest, "tool", k) THEN {Err(k, "DuplicateEntry")}
           ELSE CommonErrors(k, manifest[k])
                  \cup (IF manifest[k].schema THEN {} ELSE {Err(k, "InvalidToolInputSchema")})
                  \cup (IF manifest[k].permission = "bad" THEN {Err(k, "InvalidToolRequiredPermission")} ELSE {})) = {}
    BY AcceptedMeansChecked, Zenon DEF build_manifest_tools
  <2> QED
    BY <1>2, <2>1
<1>3. CASE list = "command"
  <2>1. \A k \in Listed(manifest, "command") :
          (IF manifest[k].name = "" THEN {Err(k, "EmptyEntryField")}
           ELSE IF SeenBefore(manifest, "command", k) THEN {Err(k, "DuplicateEntry")}
           ELSE CommonErrors(k, manifest[k])) = {}
    BY AcceptedMeansChecked, Zenon DEF build_manifest_commands
  <2> QED
    BY <1>3, <2>1
<1> QED
  BY <1>1, <1>2, <1>3

LEMMA AcceptedDiffer == ManifestIInv => AcceptedNamesDiffer
<1> SUFFICES ASSUME ManifestIInv, load_manifest_from_path(manifest) = {},
                    NEW i \in DOMAIN manifest, NEW j \in DOMAIN manifest, i # j,
                    manifest[i].list = manifest[j].list,
                    manifest[i].list \in {"permission", "tool", "command"},
                    trim(manifest[i].name) = trim(manifest[j].name)
             PROVE  FALSE
  BY DEF AcceptedNamesDiffer
<1> DEFINE list == manifest[i].list
<1>1. i \in Listed(manifest, list) /\ j \in Listed(manifest, list)
  BY DEF Listed
<1>2. ~SeenBefore(manifest, list, i) /\ ~SeenBefore(manifest, list, j)
  BY <1>1, AcceptedIsNew
<1>3. i \in Nat /\ j \in Nat
  BY DEF ManifestIInv
<1>4. i < j \/ j < i
  BY <1>3
<1> QED
  BY <1>1, <1>2, <1>4 DEF SeenBefore

\* Manifests of any length: a plugin that loads passes the checks made before its hooks and
\* tools are used, and the names of its permissions, tools and commands differ.
THEOREM LoadedManifestsAreUsable ==
  PartSpec => [](part = "PluginManifests" => LoadedPluginsValidate /\ AcceptedNamesDiffer)
<1>1. PartInit => ManifestIInv
  BY DEF PartInit, ManifestInit, ManifestIInv
<1>2. ManifestIInv /\ [PartNext]_partVars => ManifestIInv'
  <2> SUFFICES ASSUME ManifestIInv, [PartNext]_partVars PROVE ManifestIInv'
    OBVIOUS
  <2>1. ManifestNext \/ UNCHANGED manifestVars
    BY Zenon DEF PartNext, partVars
  <2>2. CASE ManifestNext
    BY <2>2 DEF ManifestIInv, ManifestNext, AddEntry
  <2>3. CASE UNCHANGED manifestVars
    BY <2>3 DEF manifestVars, ManifestIInv
  <2> QED
    BY <2>1, <2>2, <2>3
<1>3. ManifestIInv => (part = "PluginManifests" => LoadedPluginsValidate /\ AcceptedNamesDiffer)
  BY LoadedValidate, AcceptedDiffer
<1> QED
  BY <1>1, <1>2, <1>3, PTL DEF PartSpec
=============================================================================
