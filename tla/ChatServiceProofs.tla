-------------------------- MODULE ChatServiceProofs --------------------------
(***************************************************************************)
(* Proofs about ChatService: no card of a session is doubled or lost        *)
(* between a turn and its client, and the deltas of a turn come before its  *)
(* one end, for every number of streams, turns, pairs and calls and every   *)
(* capacity.                                                                *)
(*                                                                         *)
(* ChatCardsSound counts the places a card is in.  A count is not           *)
(* inductive; what is, says of each place which cards it may hold and that  *)
(* no two places hold one card.  The count follows at the end.              *)
(***************************************************************************)
EXTENDS ChatService, SequenceTheorems, FiniteSetTheorems, TLAPS

Items ==
  [kind : {"card", "expiry"}, of : Nat \ {0}] \cup [kind : {"delta", "final"}, of : Turns]
    \cup {Item("error", 0)}

\* The state, with the types of what TypeOK only bounds.
ChatTypes ==
  /\ entry \in 0 .. MaxPairs /\ made \in Pairs /\ parking \subseteq Pairs
  /\ parked \in 0 .. MaxPairs
  /\ attached \in [Pairs -> Streams \cup {NoStream}]
  /\ alive \in [Channels -> SUBSET Pairs]
  /\ buffer \in [Channels -> [Pairs -> Seq(Nat \ {0})]]
  /\ hold \in [Channels -> [Pairs -> Nat]]
  /\ stream \in [Streams -> {"new", "open", "closed"}]
  /\ started \in [Streams -> BOOLEAN]
  /\ loop \in [Streams -> {"reading", "error", "awaiting"}]
  /\ out \in [Streams -> Seq(Items)]
  /\ turn \in [Turns -> {"unsent", "queued", "running", "dispatch", "wait", "expired",
                         "returned", "answered"}]
  /\ home \in [Turns -> Streams \cup {NoStream}]
  /\ pair \in [Turns -> 0 .. MaxPairs]
  /\ call \in [Turns -> Nat]
  /\ events \in [Turns -> 0 .. EventCap]
  /\ deltas \in [Turns -> 0 .. MaxDeltas]
  /\ calls \in Seq([pair : Pairs, turn : Turns])
  /\ finished \subseteq Turns
  /\ closing \in {"no", "usage", "remove", "done"}

\* No channel is over its capacity.
Capacities ==
  /\ \A k \in Channels, p \in Pairs : Len(buffer[k][p]) <= InstrCap
  /\ \A s \in Streams : Len(out[s]) <= OutCap
  /\ Len(calls) <= MaxCalls

\* Only calls that were made are anywhere, and only of pairs that were made.
Numbered ==
  /\ \A k \in Channels, p \in Pairs :
       /\ \A i \in 1 .. Len(buffer[k][p]) : buffer[k][p][i] \in Calls
       /\ hold[k][p] \in {0} \cup Calls
  /\ \A s \in Streams : \A i \in 1 .. Len(out[s]) :
       out[s][i].kind = "card" => out[s][i].of \in Calls
  /\ shown \subseteq Calls
  /\ \A c \in Calls : calls[c].pair <= made

\* A turn that waits has a call.
Waiting ==
  \A t \in Turns :
    /\ call[t] \in {0} \cup Calls
    /\ turn[t] \in {"wait", "expired"} => call[t] # 0

\* Where the receivers of a pair are: nowhere yet, with the handler that made the
\* pair, parked, taken by a stream, or dropped.  Until they are taken no forwarder
\* holds anything of theirs, and what is parked or about to be is alive.
Receivers ==
  /\ entry <= made /\ parked <= made /\ parked \notin parking
  /\ \A p \in parking : p <= made
  /\ \A p \in parking \cup ({parked} \ {0}) :
       attached[p] = NoStream /\ \A k \in Channels : p \in alive[k]
  /\ \A k \in Channels : \A p \in alive[k] : p <= made
  /\ \A p \in Pairs : attached[p] # NoStream =>
       p <= made /\ stream[attached[p]] \in {"open", "closed"}
  /\ \A k \in Channels, p \in Pairs : hold[k][p] # 0 => attached[p] # NoStream

\* A turn has the stream its message came on.
Homes ==
  \A t \in Turns :
    /\ turn[t] # "unsent" => home[t] \in Streams
    /\ turn[t] \in {"unsent", "answered"} => events[t] = 0

In(v, a) == \E i \in 1 .. Len(a) : a[i] = v
Once(v, a) == \A i, j \in 1 .. Len(a) : a[i] = v /\ a[j] = v => i = j

InBuffer(c, p) == In(c, buffer["card"][p])
InOutput(c, s) == In(Item("card", c), out[s])

\* The places a card may be in are those of its own pair, and it is there once.
OwnPlaces(c, p) ==
  /\ \A q \in Pairs : InBuffer(c, q) \/ hold["card"][q] = c => q = p
  /\ \A s \in Streams : InOutput(c, s) => attached[p] = s
  /\ Once(c, buffer["card"][p])
  /\ \A s \in Streams : Once(Item("card", c), out[s])

\* No card is in two places.
OnePlace(c, p) ==
  /\ InBuffer(c, p) => hold["card"][p] # c
  /\ c \in shown => ~InBuffer(c, p) /\ hold["card"][p] # c
  /\ \A s \in Streams : InOutput(c, s) =>
       ~InBuffer(c, p) /\ hold["card"][p] # c /\ c \notin shown

\* A card that is in no place went with its receivers.
Gone(p) ==
  IF attached[p] = NoStream THEN p \notin alive["card"] ELSE stream[attached[p]] = "closed"

LostWithReceivers(c, p) ==
  \/ InBuffer(c, p) \/ hold["card"][p] = c \/ c \in shown
  \/ \E s \in Streams : InOutput(c, s)
  \/ Gone(p)

CardSound(c, p) == OwnPlaces(c, p) /\ OnePlace(c, p) /\ LostWithReceivers(c, p)
Cards == \A c \in Calls : CardSound(c, calls[c].pair)

ChatIInv ==
  /\ ChatTypes /\ Capacities /\ Numbered /\ Waiting /\ Receivers /\ Homes
  /\ Cards

\* What is said of a turn is said on its stream once it has started, the end of it
\* when it is over and behind all its deltas.
Ends ==
  /\ \A t \in finished : turn[t] = "answered"
  /\ \A s \in Streams : \A i \in 1 .. Len(out[s]) :
       /\ out[s][i].kind = "final" => turn[out[s][i].of] = "answered"
       /\ out[s][i].kind \in {"delta", "final"} =>
            turn[out[s][i].of] # "unsent" /\ home[out[s][i].of] = s
  /\ OneEndAfterAllDeltas

-----------------------------------------------------------------------------
(* Types *)

LEMMA NestedUpdate ==
  ASSUME NEW K, NEW P, NEW S, NEW f \in [K -> [P -> S]], NEW k \in K, NEW p \in P, NEW v \in S
  PROVE  /\ [f EXCEPT ![k][p] = v] \in [K -> [P -> S]]
         /\ \A j \in K, q \in P :
              [f EXCEPT ![k][p] = v][j][q] = IF j = k /\ q = p THEN v ELSE f[j][q]
OBVIOUS

LEMMA DropTypes ==
  ASSUME ChatTypes, NEW p \in 0 .. MaxPairs, DropReceivers(p)
  PROVE  /\ alive' \in [Channels -> SUBSET Pairs]
         /\ buffer' \in [Channels -> [Pairs -> Seq(Nat \ {0})]]
         /\ \A k \in Channels : alive'[k] = alive[k] \ {p}
         /\ \A k \in Channels, q \in Pairs : buffer'[k][q] = IF q = p THEN <<>> ELSE buffer[k][q]
         /\ hold' = hold
<1> DEFINE S == Seq(Nat \ {0})
<1>1. \A k \in Channels : buffer[k] \in [Pairs -> S] /\ alive[k] \in SUBSET Pairs
  BY DEF ChatTypes
<1>2. <<>> \in S /\ 0 \notin Pairs
  BY DEF Pairs
<1> HIDE DEF S
<1>3. ASSUME NEW k \in Channels
      PROVE  LET b == IF p = 0 THEN buffer[k] ELSE [buffer[k] EXCEPT ![p] = <<>>]
             IN  b \in [Pairs -> S] /\ \A q \in Pairs : b[q] = IF q = p THEN <<>> ELSE buffer[k][q]
  BY <1>1, <1>2
<1>4. buffer' = [k \in Channels |-> IF p = 0 THEN buffer[k] ELSE [buffer[k] EXCEPT ![p] = <<>>]]
  BY DEF DropReceivers
<1>5. buffer' \in [Channels -> [Pairs -> S]]
  BY <1>3, <1>4
<1>6. \A k \in Channels, q \in Pairs : buffer'[k][q] = IF q = p THEN <<>> ELSE buffer[k][q]
  BY <1>3, <1>4
<1>7. alive' \in [Channels -> SUBSET Pairs] /\ \A k \in Channels : alive'[k] = alive[k] \ {p}
  BY <1>1 DEF DropReceivers
<1> QED BY <1>5, <1>6, <1>7 DEF DropReceivers, S

LEMMA TakeTypes ==
  ASSUME ChatTypes, NEW s \in Streams, TakeReceivers(s)
  PROVE  /\ attached' \in [Pairs -> Streams \cup {NoStream}]
         /\ started' \in [Streams -> BOOLEAN] /\ parked' \in 0 .. MaxPairs
         /\ UNCHANGED <<entry, made, parking>>
         /\ stream[s] = "open"
         /\ \/ UNCHANGED <<attached, parked>>
            \/ /\ parked \in Pairs /\ parked' = 0
               /\ attached' = [attached EXCEPT ![parked] = s]
<1>1. /\ parked \in 0 .. MaxPairs /\ attached \in [Pairs -> Streams \cup {NoStream}]
      /\ started \in [Streams -> BOOLEAN] /\ 0 \in 0 .. MaxPairs
  BY ChatAssumption DEF ChatTypes
<1>2. CASE ~started[s] /\ parked # 0
  <2>1. parked \in Pairs
    BY <1>1, <1>2, ChatAssumption DEF Pairs
  <2>2. /\ attached' = [attached EXCEPT ![parked] = s] /\ started' = [started EXCEPT ![s] = TRUE]
        /\ parked' = 0
    BY <1>2 DEF TakeReceivers
  <2> QED BY <1>1, <2>1, <2>2 DEF TakeReceivers
<1>3. CASE ~(~started[s] /\ parked # 0)
  <2>1. UNCHANGED <<attached, started, parked>>
    BY <1>3 DEF TakeReceivers
  <2> QED BY <1>1, <2>1 DEF TakeReceivers
<1> QED BY <1>2, <1>3

\* What a send does to the outputs.
LEMMA SendTypes ==
  ASSUME ChatTypes, NEW s \in Streams, NEW it \in Items, Send(s, it)
  PROVE  /\ out' \in [Streams -> Seq(Items)]
         /\ \A r \in Streams : r # s => out'[r] = out[r]
         /\ Len(out'[s]) = Len(out[s]) + 1 /\ Len(out[s]) \in Nat
         /\ \A i \in 1 .. Len(out[s]) : out'[s][i] = out[s][i]
         /\ out'[s][Len(out[s]) + 1] = it
         /\ stream[s] = "open" /\ Len(out[s]) < OutCap
<1>1. out \in [Streams -> Seq(Items)]
  BY DEF ChatTypes
<1>2. out' = [out EXCEPT ![s] = Append(out[s], it)]
  BY DEF Send
<1>3. out[s] \in Seq(Items)
  BY <1>1
<1> QED BY <1>1, <1>2, <1>3 DEF Send

LEMMA ItemTypes ==
  /\ Item("error", 0) \in Items
  /\ \A t \in Turns : Item("delta", t) \in Items /\ Item("final", t) \in Items
  /\ \A k \in Channels, c \in Nat \ {0} : Item(k, c) \in Items
  /\ \A it \in Items : it = Item(it.kind, it.of)
  /\ \A k, o : Item(k, o).kind = k /\ Item(k, o).of = o
  /\ \A it \in Items : it.kind \in {"delta", "final"} => it.of \in Turns
  /\ \A it \in Items : it.kind = "card" => it.of \in Nat \ {0}
BY DEF Items, Item, Channels

LEMMA TypesStart == Init => ChatTypes
BY ChatAssumption DEF Init, ChatTypes, Pairs, Channels

LEMMA TypesStep ==
  ASSUME ChatTypes, Waiting, Receivers, Homes, Next
  PROVE  ChatTypes'
<1>1. ASSUME ResumeSession PROVE ChatTypes'
  <2>1. made' \in Pairs
    BY <1>1, ChatAssumption DEF ResumeSession, ChatTypes, Pairs, Channels
  <2>2. entry' \in 0 .. MaxPairs
    BY <1>1, ChatAssumption DEF ResumeSession, ChatTypes, Pairs, Channels
  <2>3. parking' \subseteq Pairs
    BY <1>1, ChatAssumption DEF ResumeSession, ChatTypes, Pairs, Channels
  <2>4. alive' \in [Channels -> SUBSET Pairs]
    <3>1. made + 1 \in Pairs /\ alive \in [Channels -> SUBSET Pairs]
      BY <1>1, ChatAssumption DEF ResumeSession, ChatTypes, Pairs
    <3> QED BY <1>1, <3>1 DEF ResumeSession
  <2>5. UNCHANGED <<parked, attached, buffer, hold, stream, started, loop, out, turn, home, pair, call, events, deltas, calls, finished, closing>>
    BY <1>1 DEF ResumeSession, pairVars, chanVars, streamVars, turnVars, clientVars
  <2> QED BY <2>1, <2>2, <2>3, <2>4, <2>5 DEF ChatTypes
<1>2. ASSUME NEW p \in Pairs, ParkReceivers(p) PROVE ChatTypes'
  <2>1. parking' \subseteq Pairs
    BY <1>2, ChatAssumption DEF ParkReceivers, DropReceivers, ChatTypes, Pairs, Channels
  <2>2. parked' \in 0 .. MaxPairs
    BY <1>2, ChatAssumption DEF ParkReceivers, DropReceivers, ChatTypes, Pairs, Channels
  <2>3. alive' \in [Channels -> SUBSET Pairs]
    BY <1>2, DropTypes DEF ParkReceivers, ChatTypes
  <2>4. buffer' \in [Channels -> [Pairs -> Seq(Nat \ {0})]]
    BY <1>2, DropTypes DEF ParkReceivers, ChatTypes
  <2>5. UNCHANGED <<entry, made, attached, hold, stream, started, loop, out, turn, home, pair, call, events, deltas, calls, finished, closing>>
    BY <1>2 DEF ParkReceivers, DropReceivers, pairVars, chanVars, streamVars, turnVars, clientVars
  <2> QED BY <2>1, <2>2, <2>3, <2>4, <2>5 DEF ChatTypes
<1>3. ASSUME CloseBegin PROVE ChatTypes'
  <2>1. closing' \in {"no", "usage", "remove", "done"}
    BY <1>3, ChatAssumption DEF CloseBegin, DropReceivers, ChatTypes, Pairs, Channels
  <2>2. parked' \in 0 .. MaxPairs
    BY <1>3, ChatAssumption DEF CloseBegin, DropReceivers, ChatTypes, Pairs, Channels
  <2>3. alive' \in [Channels -> SUBSET Pairs]
    BY <1>3, DropTypes DEF CloseBegin, ChatTypes
  <2>4. buffer' \in [Channels -> [Pairs -> Seq(Nat \ {0})]]
    BY <1>3, DropTypes DEF CloseBegin, ChatTypes
  <2>5. UNCHANGED <<entry, made, parking, attached, hold, stream, started, loop, out, turn, home, pair, call, events, deltas, calls, finished>>
    BY <1>3 DEF CloseBegin, DropReceivers, pairVars, chanVars, streamVars, turnVars, clientVars
  <2> QED BY <2>1, <2>2, <2>3, <2>4, <2>5 DEF ChatTypes
<1>4. ASSUME CloseUsage PROVE ChatTypes'
  <2>1. closing' \in {"no", "usage", "remove", "done"}
    BY <1>4, ChatAssumption DEF CloseUsage, ChatTypes, Pairs, Channels
  <2>2. UNCHANGED <<entry, made, parking, parked, attached, alive, buffer, hold, stream, started, loop, out, turn, home, pair, call, events, deltas, calls, finished>>
    BY <1>4 DEF CloseUsage, pairVars, chanVars, streamVars, turnVars, clientVars
  <2> QED BY <2>1, <2>2 DEF ChatTypes
<1>5. ASSUME CloseRemove PROVE ChatTypes'
  <2>1. closing' \in {"no", "usage", "remove", "done"}
    BY <1>5, ChatAssumption DEF CloseRemove, ChatTypes, Pairs, Channels
  <2>2. entry' \in 0 .. MaxPairs
    BY <1>5, ChatAssumption DEF CloseRemove, ChatTypes, Pairs, Channels
  <2>3. UNCHANGED <<made, parking, parked, attached, alive, buffer, hold, stream, started, loop, out, turn, home, pair, call, events, deltas, calls, finished>>
    BY <1>5 DEF CloseRemove, pairVars, chanVars, streamVars, turnVars, clientVars
  <2> QED BY <2>1, <2>2, <2>3 DEF ChatTypes
<1>6. ASSUME NEW s \in Streams, OpenStream(s) PROVE ChatTypes'
  <2>1. stream' \in [Streams -> {"new", "open", "closed"}]
    BY <1>6, ChatAssumption DEF OpenStream, ChatTypes, Pairs, Channels
  <2>2. UNCHANGED <<entry, made, parking, parked, attached, alive, buffer, hold, started, loop, out, turn, home, pair, call, events, deltas, calls, finished, closing>>
    BY <1>6 DEF OpenStream, pairVars, chanVars, streamVars, turnVars, clientVars
  <2> QED BY <2>1, <2>2 DEF ChatTypes
<1>7. ASSUME NEW s \in Streams, CloseStream(s) PROVE ChatTypes'
  <2>1. stream' \in [Streams -> {"new", "open", "closed"}]
    BY <1>7, ChatAssumption DEF CloseStream, ChatTypes, Pairs, Channels
  <2>2. out' \in [Streams -> Seq(Items)]
    BY <1>7, ChatAssumption DEF CloseStream, ChatTypes, Pairs, Channels, Items, Item
  <2>3. UNCHANGED <<entry, made, parking, parked, attached, alive, buffer, hold, started, loop, turn, home, pair, call, events, deltas, calls, finished, closing>>
    BY <1>7 DEF CloseStream, pairVars, chanVars, streamVars, turnVars, clientVars
  <2> QED BY <2>1, <2>2, <2>3 DEF ChatTypes
<1>8. ASSUME NEW s \in Streams, LoopError(s) PROVE ChatTypes'
  <2>1. loop' \in [Streams -> {"reading", "error", "awaiting"}]
    BY <1>8, ChatAssumption DEF LoopError, Send, ChatTypes, Pairs, Channels
  <2>2. out' \in [Streams -> Seq(Items)]
    BY <1>8, SendTypes, ItemTypes DEF LoopError
  <2>3. UNCHANGED <<entry, made, parking, parked, attached, alive, buffer, hold, stream, started, turn, home, pair, call, events, deltas, calls, finished, closing>>
    BY <1>8 DEF LoopError, Send, pairVars, chanVars, streamVars, turnVars, clientVars
  <2> QED BY <2>1, <2>2, <2>3 DEF ChatTypes
<1>9. ASSUME NEW s \in Streams, CancelInput(s) PROVE ChatTypes'
  <2>1. attached' \in [Pairs -> Streams \cup {NoStream}]
    BY <1>9, TakeTypes DEF CancelInput
  <2>2. started' \in [Streams -> BOOLEAN]
    BY <1>9, TakeTypes DEF CancelInput
  <2>3. parked' \in 0 .. MaxPairs
    BY <1>9, TakeTypes DEF CancelInput
  <2>4. UNCHANGED <<entry, made, parking, alive, buffer, hold, stream, loop, out, turn, home, pair, call, events, deltas, calls, finished, closing>>
    BY <1>9 DEF CancelInput, TakeReceivers, pairVars, chanVars, streamVars, turnVars, clientVars
  <2> QED BY <2>1, <2>2, <2>3, <2>4 DEF ChatTypes
<1>10. ASSUME NEW s \in Streams, ClientReads(s) PROVE ChatTypes'
  <2>1. out' \in [Streams -> Seq(Items)]
    BY <1>10, ChatAssumption DEF ClientReads, ChatTypes, Pairs, Channels, Items, Item
  <2>2. finished' \subseteq Turns
    <3>1. out[s] \in Seq(Items) /\ out[s] # <<>> /\ finished \subseteq Turns
      BY <1>10 DEF ClientReads, ChatTypes
    <3>2. Head(out[s]) \in Items
      BY <3>1
    <3>3. Head(out[s]).kind = "final" => Head(out[s]).of \in Turns
      BY <3>2, ItemTypes
    <3> QED BY <1>10, <3>1, <3>3 DEF ClientReads
  <2>3. UNCHANGED <<entry, made, parking, parked, attached, alive, buffer, hold, stream, started, loop, turn, home, pair, call, events, deltas, calls, closing>>
    BY <1>10 DEF ClientReads, pairVars, chanVars, streamVars, turnVars, clientVars
  <2> QED BY <2>1, <2>2, <2>3 DEF ChatTypes
<1>11. ASSUME NEW s \in Streams, NEW t \in Turns, UserMessage(s, t) PROVE ChatTypes'
  <2>1. attached' \in [Pairs -> Streams \cup {NoStream}]
    BY <1>11, TakeTypes DEF UserMessage
  <2>2. started' \in [Streams -> BOOLEAN]
    BY <1>11, TakeTypes DEF UserMessage
  <2>3. parked' \in 0 .. MaxPairs
    BY <1>11, TakeTypes DEF UserMessage
  <2>4. turn' \in [Turns -> {"unsent", "queued", "running", "dispatch", "wait", "expired", "returned", "answered"}]
    BY <1>11, ChatAssumption DEF UserMessage, TakeReceivers, ChatTypes, Pairs, Channels
  <2>5. home' \in [Turns -> Streams \cup {NoStream}]
    BY <1>11, ChatAssumption DEF UserMessage, TakeReceivers, ChatTypes, Pairs, Channels
  <2>6. UNCHANGED <<entry, made, parking, alive, buffer, hold, stream, loop, out, pair, call, events, deltas, calls, finished, closing>>
    BY <1>11 DEF UserMessage, TakeReceivers, pairVars, chanVars, streamVars, turnVars, clientVars
  <2> QED BY <2>1, <2>2, <2>3, <2>4, <2>5, <2>6 DEF ChatTypes
<1>12. ASSUME NEW s \in Streams, NEW c \in 1 .. MaxCalls, ProxyResult(s, c) PROVE ChatTypes'
  <2>1. attached' \in [Pairs -> Streams \cup {NoStream}]
    BY <1>12, TakeTypes DEF ProxyResult
  <2>2. started' \in [Streams -> BOOLEAN]
    BY <1>12, TakeTypes DEF ProxyResult
  <2>3. parked' \in 0 .. MaxPairs
    BY <1>12, TakeTypes DEF ProxyResult
  <2>4. turn' \in [Turns -> {"unsent", "queued", "running", "dispatch", "wait", "expired", "returned", "answered"}]
    BY <1>12, ChatAssumption DEF ProxyResult, TakeReceivers, ChatTypes, Pairs, Channels
  <2>5. call' \in [Turns -> Nat]
    BY <1>12, ChatAssumption DEF ProxyResult, TakeReceivers, ChatTypes, Pairs, Channels
  <2>6. loop' \in [Streams -> {"reading", "error", "awaiting"}]
    BY <1>12, ChatAssumption DEF ProxyResult, TakeReceivers, ChatTypes, Pairs, Channels
  <2>7. UNCHANGED <<entry, made, parking, alive, buffer, hold, stream, out, home, pair, events, deltas, calls, finished, closing>>
    BY <1>12 DEF ProxyResult, TakeReceivers, pairVars, chanVars, streamVars, turnVars, clientVars
  <2> QED BY <2>1, <2>2, <2>3, <2>4, <2>5, <2>6, <2>7 DEF ChatTypes
<1>13. ASSUME NEW k \in Channels, NEW p \in Pairs, ForwarderReceives(k, p) PROVE ChatTypes'
  <2>1. hold' \in [Channels -> [Pairs -> Nat]]
    <3>1. /\ buffer[k][p] \in Seq(Nat \ {0}) /\ buffer[k][p] # <<>>
          /\ hold \in [Channels -> [Pairs -> Nat]]
      BY <1>13 DEF ForwarderReceives, ChatTypes
    <3>2. Head(buffer[k][p]) \in Nat
      BY <3>1
    <3> QED BY <1>13, <3>1, <3>2, NestedUpdate DEF ForwarderReceives
  <2>2. buffer' \in [Channels -> [Pairs -> Seq(Nat \ {0})]]
    <3>1. /\ buffer[k][p] \in Seq(Nat \ {0}) /\ buffer[k][p] # <<>>
          /\ buffer \in [Channels -> [Pairs -> Seq(Nat \ {0})]]
      BY <1>13 DEF ForwarderReceives, ChatTypes
    <3>2. Tail(buffer[k][p]) \in Seq(Nat \ {0})
      BY <3>1
    <3>3. buffer' = [buffer EXCEPT ![k][p] = Tail(buffer[k][p])]
      BY <1>13, <3>1 DEF ForwarderReceives
    <3> QED BY <3>1, <3>2, <3>3, NestedUpdate
  <2>3. UNCHANGED <<entry, made, parking, parked, attached, alive, stream, started, loop, out, turn, home, pair, call, events, deltas, calls, finished, closing>>
    BY <1>13 DEF ForwarderReceives, pairVars, chanVars, streamVars, turnVars, clientVars
  <2> QED BY <2>1, <2>2, <2>3 DEF ChatTypes
<1>14. ASSUME NEW k \in Channels, NEW p \in Pairs, ForwarderSends(k, p) PROVE ChatTypes'
  <2>1. out' \in [Streams -> Seq(Items)]
    <3>1. attached[p] \in Streams /\ hold[k][p] \in Nat \ {0}
      BY <1>14, ChatAssumption DEF ForwarderSends, Receivers, ChatTypes
    <3> QED BY <1>14, <3>1, SendTypes, ItemTypes DEF ForwarderSends
  <2>2. hold' \in [Channels -> [Pairs -> Nat]]
    BY <1>14, ChatAssumption DEF ForwarderSends, Send, ChatTypes, Pairs, Channels
  <2>3. UNCHANGED <<entry, made, parking, parked, attached, alive, buffer, stream, started, loop, turn, home, pair, call, events, deltas, calls, finished, closing>>
    BY <1>14 DEF ForwarderSends, Send, pairVars, chanVars, streamVars, turnVars, clientVars
  <2> QED BY <2>1, <2>2, <2>3 DEF ChatTypes
<1>15. ASSUME NEW k \in Channels, NEW p \in Pairs, ForwarderBreaks(k, p) PROVE ChatTypes'
  <2>1. hold' \in [Channels -> [Pairs -> Nat]]
    BY <1>15, ChatAssumption DEF ForwarderBreaks, ChatTypes, Pairs, Channels
  <2>2. alive' \in [Channels -> SUBSET Pairs]
    BY <1>15, ChatAssumption DEF ForwarderBreaks, ChatTypes, Pairs, Channels
  <2>3. buffer' \in [Channels -> [Pairs -> Seq(Nat \ {0})]]
    BY <1>15, ChatAssumption, SMTT(30) DEF ForwarderBreaks, ChatTypes, Pairs, Channels
  <2>4. UNCHANGED <<entry, made, parking, parked, attached, stream, started, loop, out, turn, home, pair, call, events, deltas, calls, finished, closing>>
    BY <1>15 DEF ForwarderBreaks, pairVars, chanVars, streamVars, turnVars, clientVars
  <2> QED BY <2>1, <2>2, <2>3, <2>4 DEF ChatTypes
<1>16. ASSUME NEW k \in Channels, NEW p \in Pairs, ForwarderEnds(k, p) PROVE ChatTypes'
  <2>1. alive' \in [Channels -> SUBSET Pairs]
    BY <1>16, ChatAssumption DEF ForwarderEnds, ChatTypes, Pairs, Channels
  <2>2. UNCHANGED <<entry, made, parking, parked, attached, buffer, hold, stream, started, loop, out, turn, home, pair, call, events, deltas, calls, finished, closing>>
    BY <1>16 DEF ForwarderEnds, pairVars, chanVars, streamVars, turnVars, clientVars
  <2> QED BY <2>1, <2>2 DEF ChatTypes
<1>17. ASSUME NEW t \in Turns, StartTurn(t) PROVE ChatTypes'
  <2>1. turn' \in [Turns -> {"unsent", "queued", "running", "dispatch", "wait", "expired", "returned", "answered"}]
    BY <1>17, ChatAssumption DEF StartTurn, ChatTypes, Pairs, Channels
  <2>2. pair' \in [Turns -> 0 .. MaxPairs]
    BY <1>17, ChatAssumption DEF StartTurn, ChatTypes, Pairs, Channels
  <2>3. UNCHANGED <<entry, made, parking, parked, attached, alive, buffer, hold, stream, started, loop, out, home, call, events, deltas, calls, finished, closing>>
    BY <1>17 DEF StartTurn, pairVars, chanVars, streamVars, turnVars, clientVars
  <2> QED BY <2>1, <2>2, <2>3 DEF ChatTypes
<1>18. ASSUME NEW t \in Turns, TurnNotFound(t) PROVE ChatTypes'
  <2>1. turn' \in [Turns -> {"unsent", "queued", "running", "dispatch", "wait", "expired", "returned", "answered"}]
    BY <1>18, ChatAssumption DEF TurnNotFound, ChatTypes, Pairs, Channels
  <2>2. UNCHANGED <<entry, made, parking, parked, attached, alive, buffer, hold, stream, started, loop, out, home, pair, call, events, deltas, calls, finished, closing>>
    BY <1>18 DEF TurnNotFound, pairVars, chanVars, streamVars, turnVars, clientVars
  <2> QED BY <2>1, <2>2 DEF ChatTypes
<1>19. ASSUME NEW t \in Turns, Dispatch(t) PROVE ChatTypes'
  <2>1. calls' \in Seq([pair : Pairs, turn : Turns])
    BY <1>19, ChatAssumption DEF Dispatch, ChatTypes, Pairs, Channels
  <2>2. buffer' \in [Channels -> [Pairs -> Seq(Nat \ {0})]]
    <3>1. /\ pair[t] \in Pairs /\ calls \in Seq([pair : Pairs, turn : Turns])
          /\ buffer \in [Channels -> [Pairs -> Seq(Nat \ {0})]] /\ "card" \in Channels
      BY <1>19 DEF Dispatch, ChatTypes, Channels
    <3>2. Len(calls) + 1 \in Nat \ {0} /\ buffer["card"][pair[t]] \in Seq(Nat \ {0})
      BY <3>1
    <3>3. Append(buffer["card"][pair[t]], Len(calls) + 1) \in Seq(Nat \ {0})
      BY <3>2
    <3>4. buffer' = [buffer EXCEPT !["card"][pair[t]] = Append(buffer["card"][pair[t]], Len(calls) + 1)]
      BY <1>19, <3>1 DEF Dispatch
    <3> QED BY <3>1, <3>3, <3>4, NestedUpdate
  <2>3. call' \in [Turns -> Nat]
    <3>1. Len(calls) + 1 \in Nat /\ call \in [Turns -> Nat]
      BY DEF ChatTypes
    <3> QED BY <1>19, <3>1 DEF Dispatch
  <2>4. turn' \in [Turns -> {"unsent", "queued", "running", "dispatch", "wait", "expired", "returned", "answered"}]
    BY <1>19, ChatAssumption DEF Dispatch, ChatTypes, Pairs, Channels
  <2>5. UNCHANGED <<entry, made, parking, parked, attached, alive, hold, stream, started, loop, out, home, pair, events, deltas, finished, closing>>
    BY <1>19 DEF Dispatch, pairVars, chanVars, streamVars, turnVars, clientVars
  <2> QED BY <2>1, <2>2, <2>3, <2>4, <2>5 DEF ChatTypes
<1>20. ASSUME NEW t \in Turns, DispatchFails(t) PROVE ChatTypes'
  <2>1. turn' \in [Turns -> {"unsent", "queued", "running", "dispatch", "wait", "expired", "returned", "answered"}]
    BY <1>20, ChatAssumption DEF DispatchFails, ChatTypes, Pairs, Channels
  <2>2. UNCHANGED <<entry, made, parking, parked, attached, alive, buffer, hold, stream, started, loop, out, home, pair, call, events, deltas, calls, finished, closing>>
    BY <1>20 DEF DispatchFails, pairVars, chanVars, streamVars, turnVars, clientVars
  <2> QED BY <2>1, <2>2 DEF ChatTypes
<1>21. ASSUME NEW t \in Turns, SendExpiry(t) PROVE ChatTypes'
  <2>1. buffer' \in [Channels -> [Pairs -> Seq(Nat \ {0})]]
    <3>1. /\ call[t] \in Nat \ {0} /\ "expiry" \in Channels
          /\ buffer \in [Channels -> [Pairs -> Seq(Nat \ {0})]]
      BY <1>21 DEF SendExpiry, ChatTypes, Waiting, Channels
    <3>2. CASE pair[t] \in alive["expiry"]
      <4>1. pair[t] \in Pairs
        BY <3>1, <3>2 DEF ChatTypes
      <4>2. Append(buffer["expiry"][pair[t]], call[t]) \in Seq(Nat \ {0})
        BY <3>1, <4>1
      <4>3. buffer' = [buffer EXCEPT !["expiry"][pair[t]] = Append(buffer["expiry"][pair[t]], call[t])]
        BY <1>21, <3>1, <3>2, <4>1 DEF SendExpiry
      <4> QED BY <3>1, <4>1, <4>2, <4>3, NestedUpdate
    <3>3. CASE pair[t] \notin alive["expiry"]
      BY <1>21, <3>1, <3>3 DEF SendExpiry
    <3> QED BY <3>2, <3>3
  <2>2. turn' \in [Turns -> {"unsent", "queued", "running", "dispatch", "wait", "expired", "returned", "answered"}]
    BY <1>21, ChatAssumption DEF SendExpiry, ChatTypes, Pairs, Channels
  <2>3. call' \in [Turns -> Nat]
    BY <1>21, ChatAssumption DEF SendExpiry, ChatTypes, Pairs, Channels
  <2>4. UNCHANGED <<entry, made, parking, parked, attached, alive, hold, stream, started, loop, out, home, pair, events, deltas, calls, finished, closing>>
    BY <1>21 DEF SendExpiry, pairVars, chanVars, streamVars, turnVars, clientVars
  <2> QED BY <2>1, <2>2, <2>3, <2>4 DEF ChatTypes
<1>22. ASSUME NEW t \in Turns, TurnReturns(t) PROVE ChatTypes'
  <2>1. turn' \in [Turns -> {"unsent", "queued", "running", "dispatch", "wait", "expired", "returned", "answered"}]
    BY <1>22, ChatAssumption DEF TurnReturns, ChatTypes, Pairs, Channels
  <2>2. UNCHANGED <<entry, made, parking, parked, attached, alive, buffer, hold, stream, started, loop, out, home, pair, call, events, deltas, calls, finished, closing>>
    BY <1>22 DEF TurnReturns, pairVars, chanVars, streamVars, turnVars, clientVars
  <2> QED BY <2>1, <2>2 DEF ChatTypes
<1>23. ASSUME NEW t \in Turns, StreamEvent(t) PROVE ChatTypes'
  <2>1. out' \in [Streams -> Seq(Items)]
    <3>1. home[t] \in Streams
      BY <1>23, ChatAssumption DEF StreamEvent, Homes, ChatTypes
    <3> QED BY <1>23, <3>1, SendTypes, ItemTypes DEF StreamEvent
  <2>2. events' \in [Turns -> 0 .. EventCap]
    <3>1. events \in [Turns -> 0 .. EventCap] /\ events[t] - 1 \in 0 .. EventCap
      BY <1>23, ChatAssumption DEF StreamEvent, ChatTypes
    <3> QED BY <1>23, <3>1 DEF StreamEvent
  <2>3. UNCHANGED <<entry, made, parking, parked, attached, alive, buffer, hold, stream, started, loop, turn, home, pair, call, deltas, calls, finished, closing>>
    BY <1>23 DEF StreamEvent, Send, pairVars, chanVars, streamVars, turnVars, clientVars
  <2> QED BY <2>1, <2>2, <2>3 DEF ChatTypes
<1>24. ASSUME NEW t \in Turns, StreamEventFails(t) PROVE ChatTypes'
  <2>1. events' \in [Turns -> 0 .. EventCap]
    BY <1>24, ChatAssumption DEF StreamEventFails, ChatTypes, Pairs, Channels
  <2>2. UNCHANGED <<entry, made, parking, parked, attached, alive, buffer, hold, stream, started, loop, out, turn, home, pair, call, deltas, calls, finished, closing>>
    BY <1>24 DEF StreamEventFails, pairVars, chanVars, streamVars, turnVars, clientVars
  <2> QED BY <2>1, <2>2 DEF ChatTypes
<1>25. ASSUME NEW t \in Turns, FinalOutput(t) PROVE ChatTypes'
  <2>1. out' \in [Streams -> Seq(Items)]
    <3>1. home[t] \in Streams
      BY <1>25, ChatAssumption DEF FinalOutput, Homes, ChatTypes
    <3> QED BY <1>25, <3>1, SendTypes, ItemTypes DEF FinalOutput, ChatTypes
  <2>2. turn' \in [Turns -> {"unsent", "queued", "running", "dispatch", "wait", "expired", "returned", "answered"}]
    BY <1>25, ChatAssumption DEF FinalOutput, Send, ChatTypes, Pairs, Channels
  <2>3. UNCHANGED <<entry, made, parking, parked, attached, alive, buffer, hold, stream, started, loop, home, pair, call, events, deltas, calls, finished, closing>>
    BY <1>25 DEF FinalOutput, Send, pairVars, chanVars, streamVars, turnVars, clientVars
  <2> QED BY <2>1, <2>2, <2>3 DEF ChatTypes
<1>26. ASSUME NEW t \in Turns, EmitDelta(t) PROVE ChatTypes'
  <2>1. deltas' \in [Turns -> 0 .. MaxDeltas]
    <3>1. deltas \in [Turns -> 0 .. MaxDeltas] /\ deltas[t] + 1 \in 0 .. MaxDeltas
      BY <1>26, ChatAssumption DEF EmitDelta, ChatTypes
    <3> QED BY <1>26, <3>1 DEF EmitDelta
  <2>2. events' \in [Turns -> 0 .. EventCap]
    <3>1. /\ events \in [Turns -> 0 .. EventCap]
          /\ (IF events[t] < EventCap THEN events[t] + 1 ELSE events[t]) \in 0 .. EventCap
      BY ChatAssumption DEF ChatTypes
    <3> QED BY <1>26, <3>1 DEF EmitDelta
  <2>3. UNCHANGED <<entry, made, parking, parked, attached, alive, buffer, hold, stream, started, loop, out, turn, home, pair, call, calls, finished, closing>>
    BY <1>26 DEF EmitDelta, pairVars, chanVars, streamVars, turnVars, clientVars
  <2> QED BY <2>1, <2>2, <2>3 DEF ChatTypes
<1>27. ASSUME NEW t \in Turns, CallProxy(t) PROVE ChatTypes'
  <2>1. turn' \in [Turns -> {"unsent", "queued", "running", "dispatch", "wait", "expired", "returned", "answered"}]
    BY <1>27, ChatAssumption DEF CallProxy, ChatTypes, Pairs, Channels
  <2>2. UNCHANGED <<entry, made, parking, parked, attached, alive, buffer, hold, stream, started, loop, out, home, pair, call, events, deltas, calls, finished, closing>>
    BY <1>27 DEF CallProxy, pairVars, chanVars, streamVars, turnVars, clientVars
  <2> QED BY <2>1, <2>2 DEF ChatTypes
<1>28. ASSUME NEW t \in Turns, WaitCancelled(t) PROVE ChatTypes'
  <2>1. turn' \in [Turns -> {"unsent", "queued", "running", "dispatch", "wait", "expired", "returned", "answered"}]
    BY <1>28, ChatAssumption DEF WaitCancelled, ChatTypes, Pairs, Channels
  <2>2. call' \in [Turns -> Nat]
    BY <1>28, ChatAssumption DEF WaitCancelled, ChatTypes, Pairs, Channels
  <2>3. UNCHANGED <<entry, made, parking, parked, attached, alive, buffer, hold, stream, started, loop, out, home, pair, events, deltas, calls, finished, closing>>
    BY <1>28 DEF WaitCancelled, pairVars, chanVars, streamVars, turnVars, clientVars
  <2> QED BY <2>1, <2>2, <2>3 DEF ChatTypes
<1>29. ASSUME NEW t \in Turns, WaitExpires(t) PROVE ChatTypes'
  <2>1. turn' \in [Turns -> {"unsent", "queued", "running", "dispatch", "wait", "expired", "returned", "answered"}]
    BY <1>29, ChatAssumption DEF WaitExpires, ChatTypes, Pairs, Channels
  <2>2. UNCHANGED <<entry, made, parking, parked, attached, alive, buffer, hold, stream, started, loop, out, home, pair, call, events, deltas, calls, finished, closing>>
    BY <1>29 DEF WaitExpires, pairVars, chanVars, streamVars, turnVars, clientVars
  <2> QED BY <2>1, <2>2 DEF ChatTypes
<1> QED BY Zenon, <1>1, <1>2, <1>3, <1>4, <1>5, <1>6, <1>7, <1>8, <1>9, <1>10, <1>11, <1>12, <1>13, <1>14, <1>15, <1>16, <1>17, <1>18, <1>19, <1>20, <1>21, <1>22, <1>23, <1>24, <1>25, <1>26, <1>27, <1>28, <1>29 DEF Next, SessionStep, ForwarderStep, TurnStep

LEMMA HomesStep ==
  ASSUME ChatTypes, Homes, Next
  PROVE  Homes'
<1>1. ASSUME NEW s \in Streams, NEW t \in Turns, UserMessage(s, t) PROVE Homes'
  BY <1>1, ChatAssumption DEF UserMessage, TakeReceivers, Homes, ChatTypes, Calls, Pairs, Channels, pairVars, chanVars, streamVars, turnVars, clientVars
<1>2. ASSUME NEW s \in Streams, NEW c \in 1 .. MaxCalls, ProxyResult(s, c) PROVE Homes'
  BY <1>2, ChatAssumption DEF ProxyResult, TakeReceivers, Homes, ChatTypes, Calls, Pairs, Channels, pairVars, chanVars, streamVars, turnVars, clientVars
<1>3. ASSUME NEW t \in Turns, StartTurn(t) PROVE Homes'
  BY <1>3, ChatAssumption DEF StartTurn, Homes, ChatTypes, Calls, Pairs, Channels, pairVars, chanVars, streamVars, turnVars, clientVars
<1>4. ASSUME NEW t \in Turns, TurnNotFound(t) PROVE Homes'
  BY <1>4, ChatAssumption DEF TurnNotFound, Homes, ChatTypes, Calls, Pairs, Channels, pairVars, chanVars, streamVars, turnVars, clientVars
<1>5. ASSUME NEW t \in Turns, Dispatch(t) PROVE Homes'
  BY <1>5, ChatAssumption DEF Dispatch, Homes, ChatTypes, Calls, Pairs, Channels, pairVars, chanVars, streamVars, turnVars, clientVars
<1>6. ASSUME NEW t \in Turns, DispatchFails(t) PROVE Homes'
  BY <1>6, ChatAssumption DEF DispatchFails, Homes, ChatTypes, Calls, Pairs, Channels, pairVars, chanVars, streamVars, turnVars, clientVars
<1>7. ASSUME NEW t \in Turns, SendExpiry(t) PROVE Homes'
  BY <1>7, ChatAssumption DEF SendExpiry, Homes, ChatTypes, Calls, Pairs, Channels, pairVars, chanVars, streamVars, turnVars, clientVars
<1>8. ASSUME NEW t \in Turns, TurnReturns(t) PROVE Homes'
  BY <1>8, ChatAssumption DEF TurnReturns, Homes, ChatTypes, Calls, Pairs, Channels, pairVars, chanVars, streamVars, turnVars, clientVars
<1>9. ASSUME NEW t \in Turns, StreamEvent(t) PROVE Homes'
  <2>1. UNCHANGED <<turn, home>> /\ events[t] # 0 /\ events' = [events EXCEPT ![t] = events[t] - 1]
    BY <1>9, ChatAssumption DEF StreamEvent, ChatTypes, turnVars
  <2>2. events \in [Turns -> 0 .. EventCap]
    BY DEF ChatTypes
  <2>3. turn[t] \notin {"unsent", "answered"}
    BY <2>1 DEF Homes
  <2> QED BY <2>1, <2>2, <2>3 DEF Homes
<1>10. ASSUME NEW t \in Turns, StreamEventFails(t) PROVE Homes'
  BY <1>10, ChatAssumption DEF StreamEventFails, Homes, ChatTypes, Calls, Pairs, Channels, pairVars, chanVars, streamVars, turnVars, clientVars
<1>11. ASSUME NEW t \in Turns, FinalOutput(t) PROVE Homes'
  BY <1>11, ChatAssumption DEF FinalOutput, Send, Homes, ChatTypes, Calls, Pairs, Channels, pairVars, chanVars, streamVars, turnVars, clientVars
<1>12. ASSUME NEW t \in Turns, EmitDelta(t) PROVE Homes'
  BY <1>12, ChatAssumption DEF EmitDelta, Homes, ChatTypes, Calls, Pairs, Channels, pairVars, chanVars, streamVars, turnVars, clientVars
<1>13. ASSUME NEW t \in Turns, CallProxy(t) PROVE Homes'
  BY <1>13, ChatAssumption DEF CallProxy, Homes, ChatTypes, Calls, Pairs, Channels, pairVars, chanVars, streamVars, turnVars, clientVars
<1>14. ASSUME NEW t \in Turns, WaitCancelled(t) PROVE Homes'
  BY <1>14, ChatAssumption DEF WaitCancelled, Homes, ChatTypes, Calls, Pairs, Channels, pairVars, chanVars, streamVars, turnVars, clientVars
<1>15. ASSUME NEW t \in Turns, WaitExpires(t) PROVE Homes'
  BY <1>15, ChatAssumption DEF WaitExpires, Homes, ChatTypes, Calls, Pairs, Channels, pairVars, chanVars, streamVars, turnVars, clientVars
<1>16. ASSUME UNCHANGED <<turn, home, events>> PROVE Homes'
  BY <1>16 DEF Homes
<1>17. ASSUME ResumeSession \/ CloseBegin \/ CloseUsage \/ CloseRemove
      PROVE  Homes'
  BY <1>17, <1>16 DEF ResumeSession, CloseBegin, CloseUsage, CloseRemove, DropReceivers, pairVars, chanVars, streamVars, turnVars, clientVars
<1>18. ASSUME NEW p \in Pairs,
              ParkReceivers(p)
      PROVE  Homes'
  BY <1>18, <1>16 DEF ParkReceivers, DropReceivers, pairVars, chanVars, streamVars, turnVars, clientVars
<1>19. ASSUME NEW s \in Streams,
              OpenStream(s) \/ CloseStream(s) \/ LoopError(s) \/ CancelInput(s) \/ ClientReads(s)
      PROVE  Homes'
  BY <1>19, <1>16 DEF OpenStream, CloseStream, LoopError, CancelInput, ClientReads, Send, TakeReceivers, pairVars, chanVars, streamVars, turnVars, clientVars
<1>20. ASSUME NEW k \in Channels, NEW p \in Pairs,
              ForwarderReceives(k, p) \/ ForwarderSends(k, p) \/ ForwarderBreaks(k, p) \/ ForwarderEnds(k, p)
      PROVE  Homes'
  BY <1>20, <1>16 DEF ForwarderReceives, ForwarderSends, ForwarderBreaks, ForwarderEnds, Send, pairVars, chanVars, streamVars, turnVars, clientVars
<1> QED BY Zenon, <1>1, <1>2, <1>3, <1>4, <1>5, <1>6, <1>7, <1>8, <1>9, <1>10, <1>11, <1>12, <1>13, <1>14, <1>15, <1>17, <1>18, <1>19, <1>20 DEF Next, SessionStep, ForwarderStep, TurnStep

-----------------------------------------------------------------------------
(* The steps that move cards or receivers *)

\* A step of the session, of a stream, of a forwarder, of a turn, as far as the
\* channels and the outputs are concerned.
Taken(s) ==
  TakeReceivers(s) /\ UNCHANGED <<alive, buffer, hold, stream, out, calls, shown>>

Said(s, it) ==
  /\ it.kind \in {"delta", "final", "error"} /\ Send(s, it)
  /\ UNCHANGED <<entry, made, parking, parked, attached, alive, buffer, hold, stream, calls, shown>>

Flow == <<entry, made, parking, parked, attached, alive, buffer, hold, stream, out, calls, shown>>

LEMMA FlowSteps ==
  ASSUME ChatTypes, Homes, Next
  PROVE  \/ UNCHANGED Flow
         \/ ResumeSession \/ CloseBegin \/ CloseRemove
         \/ \E p \in Pairs : ParkReceivers(p)
         \/ \E s \in Streams : OpenStream(s) \/ CloseStream(s) \/ Taken(s) \/ ClientReads(s)
         \/ \E s \in Streams, it \in Items : Said(s, it)
         \/ \E k \in Channels, p \in Pairs : ForwarderStep(k, p)
         \/ \E t \in Turns : Dispatch(t) \/ SendExpiry(t)
<1>1. ASSUME CloseUsage PROVE UNCHANGED Flow
  BY <1>1 DEF CloseUsage, Flow, pairVars, chanVars, streamVars, turnVars, clientVars
<1>2. ASSUME NEW s \in Streams, LoopError(s) PROVE Said(s, Item("error", 0))
  BY <1>2, ItemTypes DEF LoopError, Said, pairVars, chanVars, streamVars, turnVars, clientVars
<1>3. ASSUME NEW s \in Streams, CancelInput(s) PROVE Taken(s)
  BY <1>3 DEF CancelInput, Taken, chanVars, streamVars, turnVars, clientVars
<1>4. ASSUME NEW s \in Streams, NEW t \in Turns, UserMessage(s, t) PROVE Taken(s)
  BY <1>4 DEF UserMessage, Taken, chanVars, streamVars, turnVars, clientVars
<1>5. ASSUME NEW s \in Streams, NEW c \in 1 .. MaxCalls, ProxyResult(s, c) PROVE Taken(s)
  BY <1>5 DEF ProxyResult, Taken, chanVars, streamVars, turnVars, clientVars
<1>6. ASSUME NEW t \in Turns,
              \/ StartTurn(t) \/ TurnNotFound(t) \/ DispatchFails(t) \/ TurnReturns(t)
              \/ StreamEventFails(t) \/ EmitDelta(t) \/ CallProxy(t) \/ WaitCancelled(t)
              \/ WaitExpires(t)
      PROVE  UNCHANGED Flow
  BY <1>6 DEF StartTurn, TurnNotFound, DispatchFails, TurnReturns, StreamEventFails, EmitDelta,
              CallProxy, WaitCancelled, WaitExpires,
              Flow, pairVars, chanVars, streamVars, turnVars, clientVars
<1>7. ASSUME NEW t \in Turns, StreamEvent(t)
      PROVE  \E s \in Streams, it \in Items : Said(s, it)
  <2>1. home[t] \in Streams
    BY <1>7, ChatAssumption DEF StreamEvent, Homes, ChatTypes
  <2>2. Said(home[t], Item("delta", t))
    BY <1>7, ItemTypes DEF StreamEvent, Said, pairVars, chanVars, streamVars, turnVars, clientVars
  <2> QED BY <2>1, <2>2, ItemTypes
<1>8. ASSUME NEW t \in Turns, FinalOutput(t)
      PROVE  UNCHANGED Flow \/ \E s \in Streams, it \in Items : Said(s, it)
  <2>1. home[t] \in Streams
    BY <1>8 DEF FinalOutput, Homes
  <2>2. CASE stream[home[t]] = "closed"
    BY <1>8, <2>2 DEF FinalOutput, Flow, pairVars, chanVars, streamVars, turnVars, clientVars
  <2>3. CASE stream[home[t]] # "closed"
    <3>1. Said(home[t], Item("final", t))
      BY <1>8, <2>3, ItemTypes DEF FinalOutput, Said, pairVars, chanVars, streamVars, turnVars, clientVars
    <3> QED BY <2>1, <3>1, ItemTypes
  <2> QED BY <2>2, <2>3
<1>9. Item("error", 0) \in Items
  BY ItemTypes
<1> QED BY Zenon, <1>1, <1>2, <1>3, <1>4, <1>5, <1>6, <1>7, <1>8, <1>9 DEF Next, SessionStep, TurnStep

-----------------------------------------------------------------------------
(* Receivers *)

LEMMA ReceiversStart == Init => Receivers
BY ChatAssumption DEF Init, Receivers, Pairs, Channels

\* Receivers that are dropped were parked, and are nowhere afterwards.
LEMMA DropsParked ==
  ASSUME ChatTypes, Receivers, DropReceivers(parked), UNCHANGED <<entry, made, attached, stream>>,
         parking' \subseteq parking, parked' \in (parking \ parking') \cup {0}
  PROVE  Receivers'
<1>1. /\ \A k \in Channels : alive'[k] = alive[k] \ {parked}
      /\ hold' = hold
  BY DropTypes DEF ChatTypes
<1>2. \A p \in parking' \cup ({parked'} \ {0}) : p \in parking /\ p # parked
  BY DEF Receivers
<1>3. parked' <= made /\ parked' \notin parking'
  BY <1>2, ChatAssumption DEF Receivers, ChatTypes, Pairs
<1>4. \A p \in parking' \cup ({parked'} \ {0}) :
        attached[p] = NoStream /\ \A k \in Channels : p \in alive'[k]
  BY <1>1, <1>2 DEF Receivers
<1>5. /\ \A p \in parking' : p <= made
      /\ \A k \in Channels : \A p \in alive'[k] : p <= made
  BY <1>1 DEF Receivers
<1> QED BY <1>1, <1>3, <1>4, <1>5 DEF Receivers

LEMMA ReceiversStep ==
  ASSUME ChatTypes, Receivers, Homes, Next
  PROVE  Receivers'
<1>1. ASSUME UNCHANGED <<entry, made, parking, parked, attached, alive, hold, stream>>
      PROVE  Receivers'
  BY <1>1 DEF Receivers
<1>2. ASSUME ResumeSession PROVE Receivers'
  <2>1. /\ made \in Nat /\ made' = made + 1 /\ made + 1 \in Pairs /\ entry' \in {entry, made + 1}
        /\ parking' = parking \cup {made + 1} /\ parking \subseteq Nat /\ parked \in Nat /\ entry \in Nat
        /\ \A k \in Channels : alive'[k] = alive[k] \cup {made + 1}
        /\ \A k \in Channels : alive[k] \subseteq Nat
        /\ UNCHANGED <<parked, attached, hold, stream>>
    BY <1>2, ChatAssumption DEF ResumeSession, ChatTypes, Pairs, chanVars, streamVars
  <2>2. attached[made + 1] = NoStream
    BY <2>1 DEF Receivers
  <2>3. entry' <= made' /\ parked' <= made' /\ parked' \notin parking' /\ \A p \in parking' : p <= made'
    BY <2>1 DEF Receivers
  <2>4. \A p \in parking' \cup ({parked'} \ {0}) :
          attached'[p] = NoStream /\ \A k \in Channels : p \in alive'[k]
    <3>1. ASSUME NEW p \in parking' \cup ({parked'} \ {0})
          PROVE  p = made + 1 \/ p \in parking \cup ({parked} \ {0})
      BY <2>1
    <3>2. \A p \in parking \cup ({parked} \ {0}) :
            attached[p] = NoStream /\ \A k \in Channels : p \in alive[k]
      BY DEF Receivers
    <3> QED BY <2>1, <2>2, <3>1, <3>2
  <2>5. \A k \in Channels : \A p \in alive'[k] : p <= made'
    BY <2>1 DEF Receivers
  <2>6. \A p \in Pairs : attached'[p] # NoStream =>
          p <= made' /\ stream'[attached'[p]] \in {"open", "closed"}
    BY <2>1 DEF Receivers, Pairs
  <2>7. \A k \in Channels, p \in Pairs : hold'[k][p] # 0 => attached'[p] # NoStream
    BY <2>1 DEF Receivers
  <2> QED BY <2>3, <2>4, <2>5, <2>6, <2>7 DEF Receivers
<1>3. ASSUME CloseBegin PROVE Receivers'
  BY <1>3, DropsParked DEF CloseBegin, streamVars
<1>4. ASSUME CloseRemove PROVE Receivers'
  BY <1>4, ChatAssumption DEF CloseRemove, Receivers, ChatTypes, Pairs, chanVars, streamVars
<1>5. ASSUME NEW p \in Pairs, ParkReceivers(p) PROVE Receivers'
  BY <1>5, DropsParked DEF ParkReceivers, streamVars
<1>6. ASSUME NEW s \in Streams, OpenStream(s) PROVE Receivers'
  <2>1. /\ stream \in [Streams -> {"new", "open", "closed"}] /\ attached \in [Pairs -> Streams \cup {NoStream}]
        /\ stream' = [stream EXCEPT ![s] = "open"] /\ UNCHANGED <<entry, made, parking, parked, attached, alive, hold>>
    BY <1>6 DEF OpenStream, ChatTypes, pairVars, chanVars
  <2> QED BY <2>1 DEF Receivers
<1>7. ASSUME NEW s \in Streams, CloseStream(s) PROVE Receivers'
  <2>1. /\ stream \in [Streams -> {"new", "open", "closed"}] /\ attached \in [Pairs -> Streams \cup {NoStream}]
        /\ stream' = [stream EXCEPT ![s] = "closed"] /\ UNCHANGED <<entry, made, parking, parked, attached, alive, hold>>
    BY <1>7 DEF CloseStream, ChatTypes, pairVars, chanVars
  <2> QED BY <2>1 DEF Receivers
<1>8. ASSUME NEW s \in Streams, Taken(s) PROVE Receivers'
  <2>1. CASE UNCHANGED <<attached, parked>>
    BY <1>8, <2>1, TakeTypes, <1>1 DEF Taken
  <2>2. CASE ~ UNCHANGED <<attached, parked>>
    <3>1. /\ parked \in Pairs /\ parked' = 0 /\ attached' = [attached EXCEPT ![parked] = s]
          /\ stream[s] = "open" /\ UNCHANGED <<entry, made, parking, alive, hold, stream>>
      BY <1>8, <2>2, TakeTypes DEF Taken
    <3>2. /\ attached \in [Pairs -> Streams \cup {NoStream}] /\ parking \subseteq Pairs
          /\ made \in Nat /\ 0 \notin Pairs
      BY DEF ChatTypes, Pairs
    <3>3. /\ \A p \in Pairs : attached'[p] = IF p = parked THEN s ELSE attached[p]
          /\ s # NoStream
      BY <3>1, <3>2, ChatAssumption
    <3>4. 0 <= made /\ parked' \notin parking
      BY <3>1, <3>2
    <3>5. \A p \in parking' \cup ({parked'} \ {0}) :
            attached'[p] = NoStream /\ \A k \in Channels : p \in alive[k]
      BY <3>1, <3>2, <3>3 DEF Receivers
    <3>6. \A p \in Pairs : attached'[p] # NoStream =>
            p <= made /\ stream[attached'[p]] \in {"open", "closed"}
      BY <3>1, <3>3 DEF Receivers
    <3>7. \A k \in Channels, p \in Pairs : hold[k][p] # 0 => attached'[p] # NoStream
      BY <3>3 DEF Receivers
    <3> QED BY <3>1, <3>4, <3>5, <3>6, <3>7 DEF Receivers
  <2> QED BY <2>1, <2>2
<1>9. ASSUME NEW k \in Channels, NEW p \in Pairs, ForwarderStep(k, p) PROVE Receivers'
  <2>1. /\ attached[p] # NoStream
        /\ UNCHANGED <<entry, made, parking, parked, attached, stream>>
    BY <1>9, ChatAssumption DEF ForwarderStep, ForwarderReceives, ForwarderSends, ForwarderBreaks,
         ForwarderEnds, Receivers, ChatTypes, pairVars, streamVars
  <2>2. alive' = alive \/ alive' = [alive EXCEPT ![k] = @ \ {p}]
    BY <1>9 DEF ForwarderStep, ForwarderReceives, ForwarderSends, ForwarderBreaks, ForwarderEnds
  <2>3. hold' = hold \/ \E v \in Nat : hold' = [hold EXCEPT ![k][p] = v]
    <3>1. CASE ForwarderReceives(k, p)
      <4>1. buffer[k][p] \in Seq(Nat \ {0}) /\ buffer[k][p] # <<>>
        BY <3>1 DEF ForwarderReceives, ChatTypes
      <4>2. Head(buffer[k][p]) \in Nat
        BY <4>1
      <4> QED BY <3>1, <4>2 DEF ForwarderReceives
    <3>2. CASE ~ ForwarderReceives(k, p)
      BY <1>9, <3>2 DEF ForwarderStep, ForwarderSends, ForwarderBreaks, ForwarderEnds
    <3> QED BY <3>1, <3>2
  <2>4. \A j \in Channels, q \in Pairs : hold'[j][q] # hold[j][q] => q = p
    <3>1. hold \in [Channels -> [Pairs -> Nat]]
      BY DEF ChatTypes
    <3>2. ASSUME NEW v \in Nat, NEW j \in Channels, NEW q \in Pairs, q # p
          PROVE  [hold EXCEPT ![k][p] = v][j][q] = hold[j][q]
      BY <3>1, <3>2, NestedUpdate
    <3>3. ASSUME NEW j \in Channels, NEW q \in Pairs, q # p
          PROVE  hold'[j][q] = hold[j][q]
      <4>1. CASE hold' = hold
        BY <4>1
      <4>2. CASE \E v \in Nat : hold' = [hold EXCEPT ![k][p] = v]
        <5>1. PICK v \in Nat : hold' = [hold EXCEPT ![k][p] = v]
          BY <4>2
        <5>2. [hold EXCEPT ![k][p] = v][j][q] = hold[j][q]
          BY <3>2, <3>3
        <5> QED BY <5>1, <5>2
      <4> QED BY <2>3, <4>1, <4>2
    <3> QED BY <3>3
  <2>5. \A j \in Channels : /\ alive'[j] \subseteq alive[j]
                            /\ \A q \in alive[j] : q # p => q \in alive'[j]
    BY <2>2 DEF ChatTypes
  <2>6. \A q \in parking \cup ({parked} \ {0}) : \A j \in Channels : q \in alive'[j]
    BY <2>1, <2>5 DEF Receivers
  <2>7. \A j \in Channels : \A q \in alive'[j] : q <= made
    BY <2>5 DEF Receivers
  <2>8. \A j \in Channels, q \in Pairs : hold'[j][q] # 0 => attached[q] # NoStream
    BY <2>1, <2>4 DEF Receivers
  <2> QED BY <2>1, <2>6, <2>7, <2>8 DEF Receivers
<1>10. ASSUME \/ UNCHANGED Flow
              \/ \E s \in Streams : ClientReads(s)
              \/ \E s \in Streams, it \in Items : Said(s, it)
              \/ \E t \in Turns : Dispatch(t) \/ SendExpiry(t)
       PROVE  Receivers'
  <2>1. UNCHANGED <<entry, made, parking, parked, attached, alive, hold, stream>>
    BY <1>10 DEF Flow, ClientReads, Said, Dispatch, SendExpiry, pairVars, chanVars, streamVars
  <2> QED BY <1>1, <2>1
<1> QED BY FlowSteps, <1>2, <1>3, <1>4, <1>5, <1>6, <1>7, <1>8, <1>9, <1>10

-----------------------------------------------------------------------------
(* What the steps do to the channels, place by place *)

LEMMA ReceiveEffect ==
  ASSUME ChatTypes, NEW k \in Channels, NEW p \in Pairs, ForwarderReceives(k, p)
  PROVE  /\ Len(buffer[k][p]) \in Nat \ {0} /\ Len(buffer'[k][p]) = Len(buffer[k][p]) - 1
         /\ hold[k][p] = 0 /\ hold'[k][p] = buffer[k][p][1]
         /\ \A i \in 1 .. Len(buffer[k][p]) - 1 : buffer'[k][p][i] = buffer[k][p][i + 1]
         /\ \A j \in Channels, q \in Pairs : j # k \/ q # p =>
              buffer'[j][q] = buffer[j][q] /\ hold'[j][q] = hold[j][q]
         /\ attached[p] # NoStream /\ p \in alive[k]
         /\ UNCHANGED <<made, attached, alive, stream, out, calls, shown>>
<1>1. /\ buffer[k][p] \in Seq(Nat \ {0}) /\ buffer[k][p] # <<>> /\ hold[k][p] = 0
      /\ hold \in [Channels -> [Pairs -> Nat]]
      /\ buffer \in [Channels -> [Pairs -> Seq(Nat \ {0})]]
      /\ buffer' = [buffer EXCEPT ![k][p] = Tail(buffer[k][p])]
      /\ hold' = [hold EXCEPT ![k][p] = Head(buffer[k][p])]
  BY DEF ForwarderReceives, ChatTypes
<1>2. /\ Tail(buffer[k][p]) \in Seq(Nat \ {0}) /\ Head(buffer[k][p]) \in Nat
      /\ Head(buffer[k][p]) = buffer[k][p][1]
      /\ Len(buffer[k][p]) \in Nat \ {0} /\ Len(Tail(buffer[k][p])) = Len(buffer[k][p]) - 1
      /\ \A i \in 1 .. Len(buffer[k][p]) - 1 : Tail(buffer[k][p])[i] = buffer[k][p][i + 1]
  BY <1>1
<1>3. /\ buffer'[k][p] = Tail(buffer[k][p])
      /\ \A j \in Channels, q \in Pairs : j # k \/ q # p => buffer'[j][q] = buffer[j][q]
  BY <1>1, <1>2, NestedUpdate
<1>4. /\ hold'[k][p] = Head(buffer[k][p])
      /\ \A j \in Channels, q \in Pairs : j # k \/ q # p => hold'[j][q] = hold[j][q]
  BY <1>1, <1>2, NestedUpdate
<1>5. /\ attached[p] # NoStream /\ p \in alive[k]
      /\ UNCHANGED <<made, attached, alive, stream, out, calls, shown>>
  BY DEF ForwarderReceives, pairVars, streamVars, clientVars
<1> QED BY <1>1, <1>2, <1>3, <1>4, <1>5

\* A hand that is emptied.
LEMMA HandEmptied ==
  ASSUME ChatTypes, NEW k \in Channels, NEW p \in Pairs, hold' = [hold EXCEPT ![k][p] = 0]
  PROVE  /\ hold'[k][p] = 0
         /\ \A j \in Channels, q \in Pairs : j # k \/ q # p => hold'[j][q] = hold[j][q]
<1>1. hold \in [Channels -> [Pairs -> Nat]] /\ 0 \in Nat
  BY DEF ChatTypes
<1> QED BY <1>1, NestedUpdate

LEMMA BreakEffect ==
  ASSUME ChatTypes, NEW k \in Channels, NEW p \in Pairs, ForwarderBreaks(k, p)
  PROVE  /\ hold'[k][p] = 0 /\ hold[k][p] # 0 /\ Len(buffer'[k][p]) = 0
         /\ \A j \in Channels, q \in Pairs : j # k \/ q # p =>
              buffer'[j][q] = buffer[j][q] /\ hold'[j][q] = hold[j][q]
         /\ stream[attached[p]] = "closed"
         /\ \A j \in Channels, q \in Pairs : q \in alive'[j] => q \in alive[j]
         /\ UNCHANGED <<made, attached, stream, out, calls, shown>>
<1>1. /\ buffer \in [Channels -> [Pairs -> Seq(Nat \ {0})]] /\ <<>> \in Seq(Nat \ {0})
      /\ buffer' = [buffer EXCEPT ![k][p] = <<>>]
  BY DEF ForwarderBreaks, ChatTypes
<1>2. /\ buffer'[k][p] = <<>>
      /\ \A j \in Channels, q \in Pairs : j # k \/ q # p => buffer'[j][q] = buffer[j][q]
  BY <1>1, NestedUpdate
<1>3. alive \in [Channels -> SUBSET Pairs] /\ alive' = [alive EXCEPT ![k] = alive[k] \ {p}]
  BY DEF ForwarderBreaks, ChatTypes
<1>4. \A j \in Channels, q \in Pairs : q \in alive'[j] => q \in alive[j]
  BY <1>3
<1>5. /\ hold[k][p] # 0 /\ hold' = [hold EXCEPT ![k][p] = 0] /\ stream[attached[p]] = "closed"
      /\ UNCHANGED <<made, attached, stream, out, calls, shown>>
  BY DEF ForwarderBreaks, pairVars, streamVars, clientVars
<1>6. Len(buffer'[k][p]) = 0
  BY <1>2
<1>7. /\ hold'[k][p] = 0
      /\ \A j \in Channels, q \in Pairs : j # k \/ q # p => hold'[j][q] = hold[j][q]
  BY <1>5, HandEmptied
<1> QED BY <1>2, <1>4, <1>5, <1>6, <1>7

LEMMA SendEffect ==
  ASSUME ChatTypes, Receivers, NEW k \in Channels, NEW p \in Pairs, ForwarderSends(k, p)
  PROVE  /\ hold'[k][p] = 0 /\ hold[k][p] \in Nat \ {0}
         /\ \A j \in Channels, q \in Pairs : j # k \/ q # p => hold'[j][q] = hold[j][q]
         /\ attached[p] \in Streams /\ Item(k, hold[k][p]) \in Items
         /\ Send(attached[p], Item(k, hold[k][p]))
         /\ UNCHANGED <<made, attached, alive, buffer, stream, calls, shown>>
<1>1. /\ hold[k][p] # 0 /\ hold' = [hold EXCEPT ![k][p] = 0]
      /\ Send(attached[p], Item(k, hold[k][p]))
      /\ UNCHANGED <<made, attached, alive, buffer, stream, calls, shown>>
  BY DEF ForwarderSends, pairVars, streamVars, clientVars
<1>2. hold[k][p] \in Nat \ {0} /\ attached[p] \in Streams
  <2>1. attached[p] # NoStream
    BY <1>1 DEF Receivers
  <2>2. hold[k][p] \in Nat /\ attached[p] \in Streams \cup {NoStream}
    BY DEF ChatTypes
  <2> QED BY <1>1, <2>1, <2>2
<1>3. Item(k, hold[k][p]) \in Items
  BY <1>2, ItemTypes
<1> QED BY <1>1, <1>2, <1>3, HandEmptied

\* An announcement put into a channel.
Announced(k, p, c) == buffer' = [buffer EXCEPT ![k][p] = Append(@, c)]

LEMMA Buffered ==
  ASSUME ChatTypes, NEW k \in Channels, NEW p \in Pairs, NEW c \in Nat \ {0},
         Announced(k, p, c)
  PROVE  /\ Len(buffer[k][p]) \in Nat /\ Len(buffer'[k][p]) = Len(buffer[k][p]) + 1
         /\ \A i \in 1 .. Len(buffer[k][p]) : buffer'[k][p][i] = buffer[k][p][i]
         /\ buffer'[k][p][Len(buffer[k][p]) + 1] = c
         /\ \A j \in Channels, q \in Pairs : j # k \/ q # p => buffer'[j][q] = buffer[j][q]
<1>1. /\ buffer \in [Channels -> [Pairs -> Seq(Nat \ {0})]] /\ buffer[k][p] \in Seq(Nat \ {0})
      /\ buffer' = [buffer EXCEPT ![k][p] = Append(buffer[k][p], c)]
  BY DEF ChatTypes, Announced
<1>2. /\ Append(buffer[k][p], c) \in Seq(Nat \ {0})
      /\ Len(buffer[k][p]) \in Nat /\ Len(Append(buffer[k][p], c)) = Len(buffer[k][p]) + 1
      /\ \A i \in 1 .. Len(buffer[k][p]) : Append(buffer[k][p], c)[i] = buffer[k][p][i]
      /\ Append(buffer[k][p], c)[Len(buffer[k][p]) + 1] = c
  BY <1>1
<1>3. /\ buffer'[k][p] = Append(buffer[k][p], c)
      /\ \A j \in Channels, q \in Pairs : j # k \/ q # p => buffer'[j][q] = buffer[j][q]
  BY <1>1, <1>2, NestedUpdate
<1> QED BY <1>2, <1>3

LEMMA DispatchEffect ==
  ASSUME ChatTypes, NEW t \in Turns, Dispatch(t)
  PROVE  /\ pair[t] \in Pairs /\ pair[t] \in alive["card"]
         /\ Len(calls) \in Nat /\ Len(calls) < MaxCalls /\ Len(calls') = Len(calls) + 1
         /\ \A c \in 1 .. Len(calls) : calls'[c] = calls[c]
         /\ calls'[Len(calls) + 1] = [pair |-> pair[t], turn |-> t]
         /\ Len(buffer["card"][pair[t]]) < InstrCap
         /\ Announced("card", pair[t], Len(calls) + 1)
         /\ UNCHANGED <<made, attached, alive, hold, stream, out, shown>>
<1>1. calls \in Seq([pair : Pairs, turn : Turns]) /\ alive["card"] \subseteq Pairs
  BY DEF ChatTypes, Channels
<1>2. /\ Len(calls) < MaxCalls /\ pair[t] \in alive["card"]
      /\ calls' = Append(calls, [pair |-> pair[t], turn |-> t])
      /\ Len(buffer["card"][pair[t]]) < InstrCap
      /\ Announced("card", pair[t], Len(calls) + 1)
      /\ UNCHANGED <<made, attached, alive, hold, stream, out, shown>>
  BY DEF Dispatch, Announced, pairVars, streamVars, clientVars
<1> QED BY <1>1, <1>2

LEMMA ExpiryEffect ==
  ASSUME ChatTypes, Waiting, NEW t \in Turns, SendExpiry(t)
  PROVE  /\ call[t] \in Calls
         /\ \/ UNCHANGED buffer
            \/ /\ pair[t] \in Pairs /\ Len(buffer["expiry"][pair[t]]) < InstrCap
               /\ Announced("expiry", pair[t], call[t])
         /\ \A p \in Pairs : buffer'["card"][p] = buffer["card"][p]
         /\ UNCHANGED <<made, attached, alive, hold, stream, out, calls, shown>>
<1>1. call[t] \in Calls /\ call[t] \in Nat \ {0}
  BY DEF SendExpiry, Waiting, ChatTypes, Calls
<1>2. \/ UNCHANGED buffer
      \/ /\ pair[t] \in Pairs /\ Len(buffer["expiry"][pair[t]]) < InstrCap
         /\ Announced("expiry", pair[t], call[t])
  BY DEF SendExpiry, Announced, ChatTypes, Channels
<1>3. \A p \in Pairs : buffer'["card"][p] = buffer["card"][p]
  BY <1>1, <1>2, Buffered DEF Channels
<1>4. UNCHANGED <<made, attached, alive, hold, stream, out, calls, shown>>
  BY DEF SendExpiry, pairVars, streamVars, clientVars
<1> QED BY <1>1, <1>2, <1>3, <1>4

\* The client takes the head of an output.
LEMMA ReadEffect ==
  ASSUME ChatTypes, NEW s \in Streams, ClientReads(s)
  PROVE  /\ Len(out[s]) \in Nat \ {0} /\ Len(out'[s]) = Len(out[s]) - 1
         /\ \A i \in 1 .. Len(out[s]) - 1 : out'[s][i] = out[s][i + 1]
         /\ \A r \in Streams : r # s => out'[r] = out[r]
         /\ out[s][1] \in Items
         /\ shown' = IF out[s][1].kind = "card" THEN shown \cup {out[s][1].of} ELSE shown
         /\ finished' = IF out[s][1].kind = "final" THEN finished \cup {out[s][1].of} ELSE finished
         /\ UNCHANGED <<made, attached, alive, buffer, hold, stream, calls, turn, home>>
<1>1. /\ out \in [Streams -> Seq(Items)] /\ out[s] \in Seq(Items) /\ out[s] # <<>>
      /\ out' = [out EXCEPT ![s] = Tail(out[s])]
  BY DEF ClientReads, ChatTypes
<1>2. /\ Len(out[s]) \in Nat \ {0} /\ Len(Tail(out[s])) = Len(out[s]) - 1
      /\ \A i \in 1 .. Len(out[s]) - 1 : Tail(out[s])[i] = out[s][i + 1]
      /\ out[s][1] \in Items /\ Head(out[s]) = out[s][1]
  BY <1>1
<1>3. /\ shown' = IF out[s][1].kind = "card" THEN shown \cup {out[s][1].of} ELSE shown
      /\ finished' = IF out[s][1].kind = "final" THEN finished \cup {out[s][1].of} ELSE finished
      /\ UNCHANGED <<made, attached, alive, buffer, hold, stream, calls, turn, home>>
  BY <1>2 DEF ClientReads, pairVars, chanVars, streamVars, turnVars
<1> QED BY <1>1, <1>2, <1>3

-----------------------------------------------------------------------------
(* Capacities, and the calls that are anywhere *)

LEMMA CallNumbers ==
  ASSUME ChatTypes
  PROVE  Len(calls) \in Nat /\ Calls \subseteq Nat \ {0}
<1>1. Len(calls) \in Nat
  BY DEF ChatTypes
<1> QED BY <1>1 DEF Calls

LEMMA CapacitiesStart == Init => Capacities
BY ChatAssumption DEF Init, Capacities, Channels, Pairs

LEMMA CapacitiesStep ==
  ASSUME ChatTypes, Waiting, Receivers, Homes, Capacities, Next
  PROVE  Capacities'
<1> USE DEF Capacities
<1>1. ASSUME UNCHANGED <<buffer, out, calls>> PROVE Capacities'
  BY <1>1
<1>2. ASSUME NEW p \in 0 .. MaxPairs, DropReceivers(p), UNCHANGED <<out, calls>> PROVE Capacities'
  <2>1. \A k \in Channels, q \in Pairs : buffer'[k][q] = IF q = p THEN <<>> ELSE buffer[k][q]
    BY <1>2, DropTypes
  <2>2. Len(<<>>) = 0
    OBVIOUS
  <2> QED BY <1>2, <2>1, <2>2, ChatAssumption
<1>3. ASSUME CloseBegin \/ \E p \in Pairs : ParkReceivers(p) PROVE Capacities'
  <2>1. DropReceivers(parked) /\ UNCHANGED <<out, calls>> /\ parked \in 0 .. MaxPairs
    BY <1>3 DEF CloseBegin, ParkReceivers, ChatTypes
  <2> QED BY <2>1, <1>2
<1>4. ASSUME NEW s \in Streams, CloseStream(s) PROVE Capacities'
  <2>1. out' = [out EXCEPT ![s] = <<>>] /\ UNCHANGED <<buffer, calls>> /\ Len(<<>>) = 0
    BY <1>4 DEF CloseStream, chanVars
  <2>2. \A r \in Streams : Len(out'[r]) <= OutCap
    BY <2>1, ChatAssumption DEF ChatTypes
  <2> QED BY <2>1, <2>2
<1>5. ASSUME NEW s \in Streams, NEW it \in Items, Send(s, it), UNCHANGED <<buffer, calls>>
      PROVE  Capacities'
  <2>1. \A r \in Streams : Len(out'[r]) <= OutCap
    BY <1>5, SendTypes, ChatAssumption, SMTT(30)
  <2> QED BY <1>5, <2>1
<1>6. ASSUME NEW s \in Streams, ClientReads(s) PROVE Capacities'
  <2>1. \A r \in Streams : Len(out'[r]) <= OutCap
    BY <1>6, ReadEffect, ChatAssumption
  <2> QED BY <1>6, <2>1, ReadEffect
<1>7. ASSUME NEW k \in Channels, NEW p \in Pairs, ForwarderReceives(k, p) PROVE Capacities'
  <2>1. \A j \in Channels, q \in Pairs : Len(buffer'[j][q]) <= InstrCap
    BY <1>7, ReceiveEffect, ChatAssumption, SMTT(30)
  <2> QED BY <1>7, <2>1, ReceiveEffect
<1>8. ASSUME NEW k \in Channels, NEW p \in Pairs, ForwarderBreaks(k, p) PROVE Capacities'
  <2>1. \A j \in Channels, q \in Pairs : Len(buffer'[j][q]) <= InstrCap
    BY <1>8, BreakEffect, ChatAssumption
  <2> QED BY <1>8, <2>1, BreakEffect
<1>9. ASSUME NEW k \in Channels, NEW p \in Pairs, ForwarderSends(k, p) PROVE Capacities'
  BY <1>9, SendEffect, <1>5
<1>10. ASSUME NEW k \in Channels, NEW p \in Pairs, NEW c \in Nat \ {0},
              Announced(k, p, c), Len(buffer[k][p]) < InstrCap
       PROVE  \A j \in Channels, q \in Pairs : Len(buffer'[j][q]) <= InstrCap
  <2>1. /\ Len(buffer[k][p]) \in Nat /\ Len(buffer'[k][p]) = Len(buffer[k][p]) + 1
        /\ \A j \in Channels, q \in Pairs : j # k \/ q # p => buffer'[j][q] = buffer[j][q]
    BY <1>10, Buffered
  <2> QED BY <1>10, <2>1, ChatAssumption
<1>11. ASSUME NEW t \in Turns, Dispatch(t) PROVE Capacities'
  <2>0. Len(calls) \in Nat /\ Len(calls) < MaxCalls /\ Len(calls') = Len(calls) + 1
    BY <1>11, DispatchEffect
  <2>1. /\ pair[t] \in Pairs /\ Len(buffer["card"][pair[t]]) < InstrCap
        /\ Announced("card", pair[t], Len(calls) + 1)
        /\ UNCHANGED out
    BY <1>11, DispatchEffect
  <2>2. "card" \in Channels
    BY DEF Channels
  <2>3. \A j \in Channels, q \in Pairs : Len(buffer'[j][q]) <= InstrCap
    <3>1. Len(calls) + 1 \in Nat \ {0}
      BY <2>0
    <3> QED BY <2>1, <2>2, <3>1, <1>10
  <2>4. Len(calls') <= MaxCalls
    BY <2>0, ChatAssumption
  <2> QED BY <2>1, <2>3, <2>4
<1>12. ASSUME NEW t \in Turns, SendExpiry(t) PROVE Capacities'
  <2>1. "expiry" \in Channels /\ Calls \subseteq Nat \ {0}
    BY CallNumbers DEF Channels
  <2>2. \A j \in Channels, q \in Pairs : Len(buffer'[j][q]) <= InstrCap
    BY <1>12, <2>1, ExpiryEffect, <1>10
  <2> QED BY <1>12, <2>2, ExpiryEffect
<1>13. ASSUME \/ UNCHANGED Flow \/ ResumeSession \/ CloseRemove
              \/ \E s \in Streams : OpenStream(s) \/ Taken(s)
              \/ \E k \in Channels, p \in Pairs : ForwarderEnds(k, p)
       PROVE  Capacities'
  <2>1. UNCHANGED <<buffer, out, calls>>
    BY <1>13 DEF Flow, ResumeSession, CloseRemove, OpenStream, Taken, ForwarderEnds, chanVars
  <2> QED BY <1>1, <2>1
<1>14. ASSUME NEW s \in Streams, NEW it \in Items, Said(s, it) PROVE Capacities'
  BY <1>5, <1>14 DEF Said
<1> HIDE DEF Capacities
<1> QED BY FlowSteps, <1>3, <1>4, <1>6, <1>7, <1>8, <1>9, <1>11, <1>12, <1>13, <1>14 DEF ForwarderStep

LEMMA WaitingStep ==
  ASSUME ChatTypes, Waiting, Next
  PROVE  Waiting'
<1>1. ASSUME NEW s \in Streams, NEW t \in Turns, UserMessage(s, t) PROVE Waiting'
  BY <1>1, ChatAssumption DEF UserMessage, TakeReceivers, Waiting, ChatTypes, Calls, Pairs, Channels, pairVars, chanVars, streamVars, turnVars, clientVars
<1>2. ASSUME NEW s \in Streams, NEW c \in 1 .. MaxCalls, ProxyResult(s, c) PROVE Waiting'
  BY <1>2, ChatAssumption DEF ProxyResult, TakeReceivers, Waiting, ChatTypes, Calls, Pairs, Channels, pairVars, chanVars, streamVars, turnVars, clientVars
<1>3. ASSUME NEW t \in Turns, StartTurn(t) PROVE Waiting'
  BY <1>3, ChatAssumption DEF StartTurn, Waiting, ChatTypes, Calls, Pairs, Channels, pairVars, chanVars, streamVars, turnVars, clientVars
<1>4. ASSUME NEW t \in Turns, TurnNotFound(t) PROVE Waiting'
  BY <1>4, ChatAssumption DEF TurnNotFound, Waiting, ChatTypes, Calls, Pairs, Channels, pairVars, chanVars, streamVars, turnVars, clientVars
<1>5. ASSUME NEW t \in Turns, Dispatch(t) PROVE Waiting'
  <2>1. Len(calls) \in Nat /\ Len(calls') = Len(calls) + 1
    BY <1>5, DispatchEffect
  <2>2. /\ call \in [Turns -> Nat] /\ call' = [call EXCEPT ![t] = Len(calls) + 1]
        /\ turn' = [turn EXCEPT ![t] = "wait"] /\ DOMAIN turn = Turns
    BY <1>5 DEF Dispatch, ChatTypes
  <2> QED BY <2>1, <2>2 DEF Waiting, Calls
<1>6. ASSUME NEW t \in Turns, DispatchFails(t) PROVE Waiting'
  BY <1>6, ChatAssumption DEF DispatchFails, Waiting, ChatTypes, Calls, Pairs, Channels, pairVars, chanVars, streamVars, turnVars, clientVars
<1>7. ASSUME NEW t \in Turns, SendExpiry(t) PROVE Waiting'
  BY <1>7, ChatAssumption DEF SendExpiry, Waiting, ChatTypes, Calls, Pairs, Channels, pairVars, chanVars, streamVars, turnVars, clientVars
<1>8. ASSUME NEW t \in Turns, TurnReturns(t) PROVE Waiting'
  BY <1>8, ChatAssumption DEF TurnReturns, Waiting, ChatTypes, Calls, Pairs, Channels, pairVars, chanVars, streamVars, turnVars, clientVars
<1>9. ASSUME NEW t \in Turns, FinalOutput(t) PROVE Waiting'
  BY <1>9, ChatAssumption DEF FinalOutput, Send, Waiting, ChatTypes, Calls, Pairs, Channels, pairVars, chanVars, streamVars, turnVars, clientVars
<1>10. ASSUME NEW t \in Turns, CallProxy(t) PROVE Waiting'
  BY <1>10, ChatAssumption DEF CallProxy, Waiting, ChatTypes, Calls, Pairs, Channels, pairVars, chanVars, streamVars, turnVars, clientVars
<1>11. ASSUME NEW t \in Turns, WaitCancelled(t) PROVE Waiting'
  BY <1>11, ChatAssumption DEF WaitCancelled, Waiting, ChatTypes, Calls, Pairs, Channels, pairVars, chanVars, streamVars, turnVars, clientVars
<1>12. ASSUME NEW t \in Turns, WaitExpires(t) PROVE Waiting'
  BY <1>12, ChatAssumption DEF WaitExpires, Waiting, ChatTypes, Calls, Pairs, Channels, pairVars, chanVars, streamVars, turnVars, clientVars
<1>13. ASSUME UNCHANGED <<turn, call, calls>> PROVE Waiting'
  BY <1>13 DEF Waiting, Calls
<1>14. ASSUME ResumeSession \/ CloseBegin \/ CloseUsage \/ CloseRemove
      PROVE  Waiting'
  BY <1>14, <1>13 DEF ResumeSession, CloseBegin, CloseUsage, CloseRemove, DropReceivers, pairVars, chanVars, streamVars, turnVars, clientVars
<1>15. ASSUME NEW p \in Pairs, 
              ParkReceivers(p)
      PROVE  Waiting'
  BY <1>15, <1>13 DEF ParkReceivers, DropReceivers, pairVars, chanVars, streamVars, turnVars, clientVars
<1>16. ASSUME NEW s \in Streams, 
              OpenStream(s) \/ CloseStream(s) \/ LoopError(s) \/ CancelInput(s) \/ ClientReads(s)
      PROVE  Waiting'
  BY <1>16, <1>13 DEF OpenStream, CloseStream, LoopError, CancelInput, ClientReads, Send, TakeReceivers, pairVars, chanVars, streamVars, turnVars, clientVars
<1>17. ASSUME NEW k \in Channels, NEW p \in Pairs, 
              ForwarderReceives(k, p) \/ ForwarderSends(k, p) \/ ForwarderBreaks(k, p) \/ ForwarderEnds(k, p)
      PROVE  Waiting'
  BY <1>17, <1>13 DEF ForwarderReceives, ForwarderSends, ForwarderBreaks, ForwarderEnds, Send, pairVars, chanVars, streamVars, turnVars, clientVars
<1>18. ASSUME NEW t \in Turns, 
              StreamEvent(t) \/ StreamEventFails(t) \/ EmitDelta(t)
      PROVE  Waiting'
  BY <1>18, <1>13 DEF StreamEvent, StreamEventFails, EmitDelta, Send, pairVars, chanVars, streamVars, turnVars, clientVars
<1> QED BY Zenon, <1>1, <1>2, <1>3, <1>4, <1>5, <1>6, <1>7, <1>8, <1>9, <1>10, <1>11, <1>12, <1>14, <1>15, <1>16, <1>17, <1>18 DEF Next, SessionStep, ForwarderStep, TurnStep

LEMMA CallPairs ==
  ASSUME ChatTypes
  PROVE  \A c \in Calls : calls[c].pair \in Pairs /\ calls[c].turn \in Turns
<1> DEFINE R == [pair : Pairs, turn : Turns]
<1>1. calls \in Seq(R)
  BY DEF ChatTypes
<1> HIDE DEF R
<1>2. \A c \in 1 .. Len(calls) : calls[c] \in R
  BY <1>1
<1> QED BY <1>2 DEF Calls, R

LEMMA NumberedStart == Init => Numbered
<1>1. ASSUME Init PROVE Numbered
  <2>1. Len(<<>>) = 0
    OBVIOUS
  <2> QED BY <1>1, <2>1 DEF Init, Numbered, Calls, Channels
<1> QED BY <1>1

LEMMA NumberedStep ==
  ASSUME ChatTypes, Waiting, Receivers, Homes, Numbered, Next
  PROVE  Numbered'
<1> DEFINE Held(k, p) == /\ \A i \in 1 .. Len(buffer[k][p]) : buffer[k][p][i] \in Calls
                         /\ hold[k][p] \in {0} \cup Calls
           Printed(s) == \A i \in 1 .. Len(out[s]) :
                           out[s][i].kind = "card" => out[s][i].of \in Calls
           Made == \A c \in Calls : calls[c].pair <= made
<1>0. /\ \A k \in Channels, p \in Pairs : Held(k, p)
      /\ \A s \in Streams : Printed(s)
      /\ shown \subseteq Calls /\ Made
  BY DEF Numbered
<1>a. ASSUME \A k \in Channels, p \in Pairs : Held(k, p)', \A s \in Streams : Printed(s)',
             (shown \subseteq Calls)', Made'
      PROVE  Numbered'
  BY <1>a DEF Numbered
<1>b. Len(calls) \in Nat /\ made \in Nat
  BY CallNumbers DEF ChatTypes, Pairs
<1>1. ASSUME UNCHANGED <<out, shown, calls, hold>>, made' \in {made, made + 1},
             \A k \in Channels, p \in Pairs : buffer'[k][p] = buffer[k][p] \/ Len(buffer'[k][p]) = 0
      PROVE  Numbered'
  <2>1. \A k \in Channels, p \in Pairs : Held(k, p)'
    BY <1>0, <1>1 DEF Calls
  <2>2. \A s \in Streams : Printed(s)'
    BY <1>0, <1>1 DEF Calls
  <2>3. (shown \subseteq Calls)'
    BY <1>0, <1>1 DEF Calls
  <2>4. Made'
    <3>1. ASSUME NEW c \in Calls PROVE calls[c].pair <= made'
      <4>1. calls[c].pair \in Nat /\ calls[c].pair <= made
        BY <1>0, CallPairs DEF Pairs
      <4> QED BY <4>1, <1>1, <1>b
    <3> QED BY <3>1, <1>1 DEF Calls
  <2> QED BY <1>a, <2>1, <2>2, <2>3, <2>4
<1>2. ASSUME CloseBegin \/ \E p \in Pairs : ParkReceivers(p) PROVE Numbered'
  <2>1. /\ DropReceivers(parked) /\ UNCHANGED <<out, calls, shown, made>> /\ parked \in 0 .. MaxPairs
        /\ hold' = hold
    BY <1>2 DEF CloseBegin, ParkReceivers, DropReceivers, ChatTypes, clientVars
  <2>2. \A k \in Channels, q \in Pairs : buffer'[k][q] = buffer[k][q] \/ buffer'[k][q] = <<>>
    BY <2>1, DropTypes
  <2>3. Len(<<>>) = 0
    OBVIOUS
  <2> QED BY <1>1, <2>1, <2>2, <2>3
<1>3. ASSUME \/ ResumeSession \/ CloseRemove
             \/ \E s \in Streams : OpenStream(s) \/ Taken(s)
             \/ \E k \in Channels, p \in Pairs : ForwarderEnds(k, p)
             \/ UNCHANGED Flow
      PROVE  Numbered'
  <2>1. UNCHANGED <<out, shown, calls, hold, buffer>> /\ made' \in {made, made + 1}
    BY <1>3 DEF Flow, ResumeSession, CloseRemove, OpenStream, Taken, TakeReceivers, ForwarderEnds,
         chanVars, pairVars, clientVars
  <2> QED BY <1>1, <2>1
<1>4. ASSUME NEW s \in Streams, CloseStream(s) PROVE Numbered'
  <2>1. /\ UNCHANGED <<buffer, hold, shown, calls, made>>
        /\ out' = [out EXCEPT ![s] = <<>>] /\ DOMAIN out = Streams
    BY <1>4 DEF CloseStream, ChatTypes, pairVars, chanVars, clientVars
  <2>2. \A r \in Streams : out'[r] = out[r] \/ out'[r] = <<>>
    BY <2>1
  <2>3. \A r \in Streams : Printed(r)'
    <3>1. Len(<<>>) = 0
      OBVIOUS
    <3> QED BY <1>0, <2>1, <2>2, <3>1 DEF Calls
  <2> QED BY <1>0, <1>a, <2>1, <2>3 DEF Calls
<1>5. ASSUME NEW s \in Streams, NEW it \in Items, Send(s, it), it.kind = "card" => it.of \in Calls,
             UNCHANGED <<buffer, shown, calls, made>>,
             \A k \in Channels, p \in Pairs : hold'[k][p] \in {0, hold[k][p]}
      PROVE  Numbered'
  <2>1. \A k \in Channels, p \in Pairs : Held(k, p)'
    BY <1>0, <1>5 DEF Calls
  <2>2. \A r \in Streams : Printed(r)'
    <3>1. \A r \in Streams : r # s => Printed(r)'
      BY <1>0, <1>5, SendTypes DEF Calls
    <3>2. Printed(s)'
      <4>1. ASSUME NEW i \in 1 .. Len(out'[s]) PROVE i \in 1 .. Len(out[s]) \/ i = Len(out[s]) + 1
        BY <1>5, SendTypes
      <4> QED BY <1>0, <1>5, <4>1, SendTypes DEF Calls
    <3> QED BY <3>1, <3>2
  <2>3. (shown \subseteq Calls)' /\ Made'
    BY <1>0, <1>5 DEF Calls
  <2> QED BY <1>a, <2>1, <2>2, <2>3
<1>6. ASSUME NEW s \in Streams, NEW it \in Items, Said(s, it) PROVE Numbered'
  BY <1>5, <1>6 DEF Said
<1>7. ASSUME NEW k \in Channels, NEW p \in Pairs, ForwarderSends(k, p) PROVE Numbered'
  <2>1. hold[k][p] \in Calls
    BY <1>0, <1>7, SendEffect
  <2>2. \A j \in Channels, q \in Pairs : hold'[j][q] \in {0, hold[j][q]}
    BY <1>7, SendEffect
  <2>3. Item(k, hold[k][p]).of = hold[k][p]
    BY ItemTypes
  <2> QED BY <1>5, <1>7, <2>1, <2>2, <2>3, SendEffect
<1>8. ASSUME NEW s \in Streams, ClientReads(s) PROVE Numbered'
  <2>1. UNCHANGED <<buffer, hold, calls, made>>
    BY <1>8, ReadEffect
  <2>2. \A r \in Streams : Printed(r)'
    <3>1. \A r \in Streams : r # s => Printed(r)'
      BY <1>0, <1>8, <2>1, ReadEffect DEF Calls
    <3>2. Printed(s)'
      <4>1. ASSUME NEW i \in 1 .. Len(out'[s])
            PROVE  i + 1 \in 1 .. Len(out[s]) /\ out'[s][i] = out[s][i + 1]
        BY <1>8, ReadEffect
      <4> QED BY <1>0, <2>1, <4>1 DEF Calls
    <3> QED BY <3>1, <3>2
  <2>3. (shown \subseteq Calls)'
    <3>1. 1 \in 1 .. Len(out[s]) /\ (out[s][1].kind = "card" => out[s][1].of \in Calls)
      BY <1>0, <1>8, ReadEffect
    <3>2. shown' = shown \/ (out[s][1].kind = "card" /\ shown' = shown \cup {out[s][1].of})
      BY <1>8, ReadEffect
    <3> QED BY <1>0, <2>1, <3>1, <3>2 DEF Calls
  <2> QED BY <1>0, <1>a, <2>1, <2>2, <2>3 DEF Calls
<1>9. ASSUME NEW k \in Channels, NEW p \in Pairs, ForwarderReceives(k, p) PROVE Numbered'
  <2>1. UNCHANGED <<out, shown, calls, made>>
    BY <1>9, ReceiveEffect
  <2>2. \A j \in Channels, q \in Pairs : j # k \/ q # p => Held(j, q)'
    BY <1>0, <1>9, <2>1, ReceiveEffect DEF Calls
  <2>3. Held(k, p)'
    <3>1. ASSUME NEW i \in 1 .. Len(buffer'[k][p])
          PROVE  i + 1 \in 1 .. Len(buffer[k][p]) /\ buffer'[k][p][i] = buffer[k][p][i + 1]
      BY <1>9, ReceiveEffect
    <3>2. 1 \in 1 .. Len(buffer[k][p]) /\ hold'[k][p] = buffer[k][p][1]
      BY <1>9, ReceiveEffect
    <3> QED BY <1>0, <2>1, <3>1, <3>2 DEF Calls
  <2> QED BY <1>0, <1>a, <2>1, <2>2, <2>3 DEF Calls
<1>10. ASSUME NEW k \in Channels, NEW p \in Pairs, ForwarderBreaks(k, p) PROVE Numbered'
  <2>1. UNCHANGED <<out, shown, calls, made>>
    BY <1>10, BreakEffect
  <2>2. \A j \in Channels, q \in Pairs : j # k \/ q # p => Held(j, q)'
    BY <1>0, <1>10, <2>1, BreakEffect DEF Calls
  <2>3. Held(k, p)'
    BY <1>10, BreakEffect
  <2> QED BY <1>0, <1>a, <2>1, <2>2, <2>3 DEF Calls
<1>11. ASSUME NEW k \in Channels, NEW p \in Pairs, NEW c \in Nat \ {0},
              Announced(k, p, c), UNCHANGED hold,
              c \in Calls', Calls \subseteq Calls'
       PROVE  \A j \in Channels, q \in Pairs : Held(j, q)'
  <2>0. /\ Len(buffer[k][p]) \in Nat /\ Len(buffer'[k][p]) = Len(buffer[k][p]) + 1
        /\ \A i \in 1 .. Len(buffer[k][p]) : buffer'[k][p][i] = buffer[k][p][i]
        /\ buffer'[k][p][Len(buffer[k][p]) + 1] = c
        /\ \A j \in Channels, q \in Pairs : j # k \/ q # p => buffer'[j][q] = buffer[j][q]
    BY <1>11, Buffered
  <2>1. \A j \in Channels, q \in Pairs : j # k \/ q # p => Held(j, q)'
    <3>1. ASSUME NEW j \in Channels, NEW q \in Pairs, j # k \/ q # p PROVE Held(j, q)'
      <4>1. buffer'[j][q] = buffer[j][q] /\ hold'[j][q] = hold[j][q]
        BY <1>11, <2>0, <3>1
      <4>2. Held(j, q)
        BY <1>0
      <4> QED BY <1>11, <4>1, <4>2
    <3> QED BY <3>1
  <2>2. Held(k, p)'
    <3>2. ASSUME NEW i \in 1 .. Len(buffer'[k][p])
          PROVE  i \in 1 .. Len(buffer[k][p]) \/ i = Len(buffer[k][p]) + 1
      BY <2>0
    <3> QED BY <1>0, <1>11, <2>0, <3>2
  <2> QED BY <2>1, <2>2
<1>12. ASSUME NEW t \in Turns, Dispatch(t) PROVE Numbered'
  <2>1. /\ Len(calls') = Len(calls) + 1 /\ \A c \in 1 .. Len(calls) : calls'[c] = calls[c]
        /\ UNCHANGED <<out, shown, hold, made, alive>> /\ pair[t] \in Pairs /\ pair[t] \in alive["card"]
        /\ calls'[Len(calls) + 1] = [pair |-> pair[t], turn |-> t]
    BY <1>12, DispatchEffect
  <2>2. Announced("card", pair[t], Len(calls) + 1)
    BY <1>12, DispatchEffect
  <2>3. Calls' = Calls \cup {Len(calls) + 1}
    BY <1>b, <2>1 DEF Calls
  <2>4. "card" \in Channels /\ Len(calls) + 1 \in Nat \ {0}
    BY <1>b DEF Channels
  <2>5. \A k \in Channels, p \in Pairs : Held(k, p)'
    <3>1. Len(calls) + 1 \in Calls' /\ Calls \subseteq Calls' /\ UNCHANGED hold
      BY <2>1, <2>3
    <3> HIDE DEF Held
    <3> QED BY <1>11, <2>1, <2>2, <2>4, <3>1
  <2>6. \A s \in Streams : Printed(s)'
    BY <1>0, <2>1, <2>3
  <2>7. Made'
    <3>1. pair[t] <= made
      BY <2>1, <2>4 DEF Receivers
    <3>2. \A c \in Calls : calls'[c] = calls[c]
      BY <2>1 DEF Calls
    <3>3. calls'[Len(calls) + 1].pair = pair[t]
      BY <2>1
    <3> QED BY <1>0, <2>1, <2>3, <3>1, <3>2, <3>3
  <2> QED BY <1>0, <1>a, <2>1, <2>3, <2>5, <2>6, <2>7
<1>13. ASSUME NEW t \in Turns, SendExpiry(t) PROVE Numbered'
  <2>1. call[t] \in Calls /\ call[t] \in Nat \ {0} /\ UNCHANGED <<out, shown, calls, hold, made>>
    BY <1>13, ExpiryEffect, CallNumbers
  <2>2. CASE UNCHANGED buffer
    BY <1>1, <2>1, <2>2
  <2>3. CASE /\ pair[t] \in Pairs
             /\ Announced("expiry", pair[t], call[t])
    <3>1. "expiry" \in Channels /\ Calls' = Calls
      BY <2>1 DEF Channels, Calls
    <3>2. \A k \in Channels, p \in Pairs : Held(k, p)'
      <4> HIDE DEF Held
      <4> QED BY <1>11, <2>1, <2>3, <3>1
    <3> QED BY <1>0, <1>a, <2>1, <3>2 DEF Calls
  <2> QED BY <1>13, <2>2, <2>3, ExpiryEffect
<1> QED BY FlowSteps, <1>2, <1>3, <1>4, <1>6, <1>7, <1>8, <1>9, <1>10, <1>12, <1>13 DEF ForwarderStep

-----------------------------------------------------------------------------
(* Cards: one place each, or gone with their receivers *)

\* A sequence with one more element, and one with its head gone.
Grown(a, b, v) ==
  /\ Len(a) \in Nat /\ Len(b) = Len(a) + 1
  /\ \A i \in 1 .. Len(a) : b[i] = a[i]
  /\ b[Len(a) + 1] = v

Beheaded(a, b) ==
  /\ Len(a) \in Nat \ {0} /\ Len(b) = Len(a) - 1
  /\ \A i \in 1 .. Len(a) - 1 : b[i] = a[i + 1]

LEMMA GrownMembers ==
  ASSUME NEW a, NEW b, NEW v, Grown(a, b, v)
  PROVE  /\ \A w : In(w, b) <=> In(w, a) \/ w = v
         /\ \A w : Once(w, a) /\ (w = v => ~In(w, a)) => Once(w, b)
<1>1. /\ Len(a) \in Nat /\ Len(b) = Len(a) + 1
      /\ \A i \in 1 .. Len(a) : b[i] = a[i] /\ i \in 1 .. Len(b)
      /\ b[Len(a) + 1] = v /\ Len(a) + 1 \in 1 .. Len(b)
  BY DEF Grown
<1>2. \A i \in 1 .. Len(b) : i \in 1 .. Len(a) \/ i = Len(a) + 1
  BY <1>1
<1>3. ASSUME NEW w, In(w, b) PROVE In(w, a) \/ w = v
  <2>1. PICK i \in 1 .. Len(b) : b[i] = w
    BY <1>3 DEF In
  <2>2. CASE i \in 1 .. Len(a)
    BY <2>1, <2>2, <1>1 DEF In
  <2>3. CASE i = Len(a) + 1
    BY <2>1, <2>3, <1>1
  <2> QED BY <2>2, <2>3, <1>2
<1>4. ASSUME NEW w, In(w, a) \/ w = v PROVE In(w, b)
  BY <1>1, <1>4 DEF In
<1>5. ASSUME NEW w, Once(w, a), w = v => ~In(w, a) PROVE Once(w, b)
  <2>1. ASSUME NEW i \in 1 .. Len(b), NEW j \in 1 .. Len(b), b[i] = w, b[j] = w PROVE i = j
    <3>1. CASE i \in 1 .. Len(a) /\ j \in 1 .. Len(a)
      <4>1. a[i] = w /\ a[j] = w
        BY <1>1, <2>1, <3>1
      <4> QED BY <4>1, <1>5, <3>1 DEF Once
    <3>2. CASE i = Len(a) + 1 /\ j \in 1 .. Len(a)
      BY <1>1, <1>5, <2>1, <3>2 DEF In
    <3>3. CASE j = Len(a) + 1 /\ i \in 1 .. Len(a)
      BY <1>1, <1>5, <2>1, <3>3 DEF In
    <3> QED BY <1>2, <3>1, <3>2, <3>3
  <2> QED BY <2>1 DEF Once
<1> QED BY <1>3, <1>4, <1>5

LEMMA BeheadedMembers ==
  ASSUME NEW a, NEW b, Beheaded(a, b)
  PROVE  /\ \A w : In(w, b) => In(w, a)
         /\ In(a[1], a)
         /\ \A w : In(w, a) => w = a[1] \/ In(w, b)
         /\ \A w : Once(w, a) => Once(w, b) /\ (w = a[1] => ~In(w, b))
<1>1. /\ Len(a) \in Nat \ {0} /\ Len(b) = Len(a) - 1
      /\ \A i \in 1 .. Len(b) : b[i] = a[i + 1] /\ i + 1 \in 1 .. Len(a)
      /\ 1 \in 1 .. Len(a)
  BY DEF Beheaded
<1>2. \A i \in 1 .. Len(a) : i = 1 \/ (i - 1 \in 1 .. Len(b) /\ a[i] = b[i - 1])
  <2>1. ASSUME NEW i \in 1 .. Len(a), i # 1 PROVE i - 1 \in 1 .. Len(b) /\ (i - 1) + 1 = i
    BY <1>1, <2>1
  <2>2. ASSUME NEW i \in 1 .. Len(a), i # 1 PROVE a[i] = b[i - 1]
    BY <1>1, <2>1, <2>2
  <2> QED BY <2>1, <2>2
<1>3. ASSUME NEW w, In(w, b) PROVE In(w, a)
  BY <1>1, <1>3 DEF In
<1>4. ASSUME NEW w, In(w, a) PROVE w = a[1] \/ In(w, b)
  BY <1>2, <1>4 DEF In
<1>5. ASSUME NEW w, Once(w, a) PROVE Once(w, b)
  <2>1. ASSUME NEW i \in 1 .. Len(b), NEW j \in 1 .. Len(b), b[i] = w, b[j] = w PROVE i = j
    <3>1. i + 1 = j + 1
      BY <1>1, <1>5, <2>1 DEF Once
    <3> QED BY <3>1
  <2> QED BY <2>1 DEF Once
<1>6. ASSUME Once(a[1], a) PROVE ~In(a[1], b)
  <2>1. ASSUME NEW i \in 1 .. Len(b), b[i] = a[1] PROVE FALSE
    <3>1. i + 1 = 1
      BY <1>1, <1>6, <2>1 DEF Once
    <3> QED BY <3>1, <1>1
  <2> QED BY <2>1 DEF In
<1>7. In(a[1], a)
  BY <1>1 DEF In
<1> QED BY <1>3, <1>4, <1>5, <1>6, <1>7

LEMMA EmptyMembers ==
  ASSUME NEW a, Len(a) = 0
  PROVE  \A w : ~In(w, a) /\ Once(w, a)
BY DEF In, Once

\* A card is as it was if its places are.
LEMMA CardKept ==
  ASSUME NEW c, NEW p \in Pairs, CardSound(c, p),
         \A q \in Pairs : buffer'["card"][q] = buffer["card"][q],
         \A q \in Pairs : hold'["card"][q] = hold["card"][q],
         \A s \in Streams : InOutput(c, s)' <=> InOutput(c, s),
         \A s \in Streams : Once(Item("card", c), out'[s]),
         shown' = shown,
         attached[p] # NoStream => attached'[p] = attached[p],
         Gone(p) => Gone(p)'
  PROVE  CardSound(c, p)'
<1>1. \A q \in Pairs : InBuffer(c, q)' <=> InBuffer(c, q)
  BY DEF InBuffer
<1>2. OwnPlaces(c, p)'
  <2>1. \A q \in Pairs : InBuffer(c, q)' \/ hold'["card"][q] = c => q = p
    BY <1>1 DEF CardSound, OwnPlaces
  <2>2. \A s \in Streams : InOutput(c, s)' => attached'[p] = s
    BY ChatAssumption DEF CardSound, OwnPlaces
  <2>3. Once(c, buffer'["card"][p])
    BY DEF CardSound, OwnPlaces
  <2> QED BY <2>1, <2>2, <2>3 DEF OwnPlaces
<1>3. OnePlace(c, p)'
  BY <1>1 DEF CardSound, OnePlace
<1>4. LostWithReceivers(c, p)'
  BY <1>1 DEF CardSound, LostWithReceivers
<1> QED BY <1>2, <1>3, <1>4 DEF CardSound

\* What was parked is dropped with its buffer.
LEMMA CardDropped ==
  ASSUME ChatTypes, Receivers, NEW c \in Nat \ {0}, NEW p \in Pairs, CardSound(c, p),
         DropReceivers(parked), UNCHANGED <<out, shown, attached, stream>>
  PROVE  CardSound(c, p)'
<1>1. /\ \A q \in Pairs : buffer'["card"][q] = IF q = parked THEN <<>> ELSE buffer["card"][q]
      /\ alive'["card"] = alive["card"] \ {parked} /\ hold' = hold
  BY DropTypes DEF ChatTypes, Channels
<1>2. p = parked => attached[p] = NoStream
  BY DEF Receivers, Pairs
<1>3. /\ \A q \in Pairs : InBuffer(c, q)' <=> InBuffer(c, q) /\ q # parked
      /\ \A q \in Pairs : Once(c, buffer["card"][q]) => Once(c, buffer'["card"][q])
  <2>1. Len(<<>>) = 0
    OBVIOUS
  <2> QED BY <1>1, <2>1, EmptyMembers DEF InBuffer
<1>4. \A s \in Streams : InOutput(c, s)' <=> InOutput(c, s)
  BY DEF InOutput
<1>5. OwnPlaces(c, p)'
  BY <1>1, <1>3, <1>4 DEF CardSound, OwnPlaces
<1>6. OnePlace(c, p)'
  BY <1>1, <1>3, <1>4 DEF CardSound, OnePlace
<1>7. LostWithReceivers(c, p)'
  BY <1>1, <1>2, <1>3, <1>4 DEF CardSound, LostWithReceivers, Gone
<1> QED BY <1>5, <1>6, <1>7 DEF CardSound

\* A stream closes with what it had not delivered.
LEMMA CardCutOff ==
  ASSUME ChatTypes, NEW c, NEW p \in Pairs, CardSound(c, p), NEW s \in Streams, CloseStream(s)
  PROVE  CardSound(c, p)'
<1>1. /\ out' = [out EXCEPT ![s] = <<>>] /\ stream' = [stream EXCEPT ![s] = "closed"]
      /\ DOMAIN out = Streams /\ DOMAIN stream = Streams
      /\ UNCHANGED <<buffer, hold, alive, shown, attached>>
      /\ attached[p] \in Streams \cup {NoStream}
  BY DEF CloseStream, ChatTypes, pairVars, chanVars, clientVars
<1>2. /\ \A r \in Streams : InOutput(c, r)' <=> InOutput(c, r) /\ r # s
      /\ \A r \in Streams : Once(Item("card", c), out[r]) => Once(Item("card", c), out'[r])
  <2>1. Len(<<>>) = 0
    OBVIOUS
  <2>2. out'[s] = <<>> /\ \A r \in Streams : r # s => out'[r] = out[r]
    BY <1>1
  <2> QED BY <2>1, <2>2, EmptyMembers DEF InOutput
<1>3. \A q \in Pairs : InBuffer(c, q)' <=> InBuffer(c, q)
  BY <1>1 DEF InBuffer
<1>4. stream'[s] = "closed" /\ (Gone(p) => Gone(p)')
  BY <1>1 DEF Gone
<1>5. OwnPlaces(c, p)'
  BY <1>1, <1>2, <1>3 DEF CardSound, OwnPlaces
<1>6. OnePlace(c, p)'
  BY <1>1, <1>2, <1>3 DEF CardSound, OnePlace
<1>7. LostWithReceivers(c, p)'
  <2>1. (\E r \in Streams : InOutput(c, r)) => Gone(p)' \/ \E r \in Streams : InOutput(c, r)'
    <3>1. ASSUME InOutput(c, s) PROVE Gone(p)'
      <4>1. attached[p] = s
        BY <3>1 DEF CardSound, OwnPlaces
      <4> QED BY <1>1, <1>4, <4>1, ChatAssumption DEF Gone
    <3> QED BY <1>2, <3>1
  <2> QED BY <1>1, <1>3, <1>4, <2>1 DEF CardSound, LostWithReceivers
<1> QED BY <1>5, <1>6, <1>7 DEF CardSound

\* The client takes the head of an output: that card, if it is one, is now shown.
LEMMA CardRead ==
  ASSUME ChatTypes, NEW c \in Nat \ {0}, NEW p \in Pairs, CardSound(c, p),
         NEW s \in Streams, ClientReads(s)
  PROVE  CardSound(c, p)'
<1> DEFINE card == Item("card", c)
<1>1. /\ Beheaded(out[s], out'[s]) /\ \A r \in Streams : r # s => out'[r] = out[r]
      /\ out[s][1] \in Items
      /\ shown' = IF out[s][1].kind = "card" THEN shown \cup {out[s][1].of} ELSE shown
      /\ UNCHANGED <<attached, alive, buffer, hold, stream>>
  BY ReadEffect DEF Beheaded
<1>2. c \in shown' <=> c \in shown \/ out[s][1] = card
  BY <1>1, ItemTypes
<1>3. \A q \in Pairs : InBuffer(c, q)' <=> InBuffer(c, q)
  BY <1>1 DEF InBuffer
<1>4. /\ In(card, out'[s]) => In(card, out[s])
      /\ In(card, out[s]) => out[s][1] = card \/ In(card, out'[s])
      /\ out[s][1] = card => In(card, out[s])
      /\ Once(card, out[s]) => Once(card, out'[s]) /\ (out[s][1] = card => ~In(card, out'[s]))
  BY <1>1, BeheadedMembers
<1>5. /\ \A r \in Streams : InOutput(c, r)' => InOutput(c, r)
      /\ \A r \in Streams : InOutput(c, r) => InOutput(c, r)' \/ out[s][1] = card
      /\ out[s][1] = card => InOutput(c, s)
      /\ Once(card, out[s]) /\ out[s][1] = card => ~InOutput(c, s)'
  BY <1>1, <1>4 DEF InOutput
<1>6. \A r \in Streams : Once(card, out[r]) => Once(card, out'[r])
  BY <1>1, <1>4
<1> HIDE DEF card
<1>7. OwnPlaces(c, p)'
  BY <1>1, <1>3, <1>5, <1>6 DEF CardSound, OwnPlaces, card
<1>8. OnePlace(c, p)'
  <2>1. CASE out[s][1] = card
    <3>1. InOutput(c, s) /\ attached[p] = s /\ \A r \in Streams : InOutput(c, r) => r = s
      BY <1>5, <2>1 DEF CardSound, OwnPlaces
    <3>2. Once(card, out[s])
      BY DEF CardSound, OwnPlaces, card
    <3>3. \A r \in Streams : ~InOutput(c, r)'
      BY <1>5, <2>1, <3>1, <3>2
    <3> QED BY <1>1, <1>3, <3>1, <3>3 DEF CardSound, OnePlace
  <2>2. CASE out[s][1] # card
    BY <1>1, <1>2, <1>3, <1>5, <2>2 DEF CardSound, OnePlace
  <2> QED BY <2>1, <2>2
<1>9. LostWithReceivers(c, p)'
  <2>1. Gone(p) => Gone(p)'
    BY <1>1 DEF Gone
  <2> QED BY <1>1, <1>2, <1>3, <1>5, <2>1 DEF CardSound, LostWithReceivers
<1> QED BY <1>7, <1>8, <1>9 DEF CardSound

\* A forwarder takes the head of its channel into its hand.
LEMMA CardReceived ==
  ASSUME ChatTypes, NEW c \in Nat \ {0}, NEW p \in Pairs, CardSound(c, p),
         NEW q \in Pairs, ForwarderReceives("card", q)
  PROVE  CardSound(c, p)'
<1>0. "card" \in Channels
  BY DEF Channels
<1> DEFINE b == buffer["card"]
<1>1. /\ Beheaded(b[q], b'[q]) /\ hold["card"][q] = 0 /\ hold'["card"][q] = b[q][1]
      /\ \A r \in Pairs : r # q => b'[r] = b[r] /\ hold'["card"][r] = hold["card"][r]
      /\ UNCHANGED <<attached, alive, stream, out, shown>>
  BY <1>0, ReceiveEffect DEF Beheaded
<1>2. /\ In(c, b'[q]) => In(c, b[q])
      /\ In(c, b[q]) => b[q][1] = c \/ In(c, b'[q])
      /\ b[q][1] = c => In(c, b[q])
      /\ Once(c, b[q]) => Once(c, b'[q]) /\ (b[q][1] = c => ~In(c, b'[q]))
  BY <1>1, BeheadedMembers
<1>3. /\ \A r \in Pairs : InBuffer(c, r)' => InBuffer(c, r)
      /\ \A r \in Pairs : r # q => (InBuffer(c, r)' <=> InBuffer(c, r))
      /\ InBuffer(c, q) => hold'["card"][q] = c \/ InBuffer(c, q)'
      /\ hold'["card"][q] = c => InBuffer(c, q)
      /\ Once(c, b[q]) /\ hold'["card"][q] = c => ~InBuffer(c, q)'
      /\ Once(c, b[p]) => Once(c, b'[p])
  BY <1>1, <1>2 DEF InBuffer
<1>4. \A s \in Streams : InOutput(c, s)' <=> InOutput(c, s)
  BY <1>1 DEF InOutput
<1>5. Once(c, b[p])
  BY DEF CardSound, OwnPlaces
<1> HIDE DEF b
<1>6. OwnPlaces(c, p)'
  <2>1. \A r \in Pairs : InBuffer(c, r)' \/ hold'["card"][r] = c => r = p
    BY <1>1, <1>3 DEF CardSound, OwnPlaces
  <2> QED BY <1>1, <1>3, <1>4, <1>5, <2>1 DEF CardSound, OwnPlaces, b
<1>7. OnePlace(c, p)'
  <2>1. CASE p = q
    BY <1>1, <1>3, <1>4, <1>5, <2>1 DEF CardSound, OnePlace
  <2>2. CASE p # q
    BY <1>1, <1>3, <1>4, <2>2 DEF CardSound, OnePlace
  <2> QED BY <2>1, <2>2
<1>8. LostWithReceivers(c, p)'
  <2>1. Gone(p) => Gone(p)'
    BY <1>1 DEF Gone
  <2> QED BY <1>1, <1>3, <1>4, <2>1 DEF CardSound, LostWithReceivers
<1> QED BY <1>6, <1>7, <1>8 DEF CardSound

\* A forwarder finds its stream closed and drops what it holds and its channel.
LEMMA CardBroken ==
  ASSUME ChatTypes, Receivers, NEW c \in Nat \ {0}, NEW p \in Pairs, CardSound(c, p),
         NEW q \in Pairs, ForwarderBreaks("card", q)
  PROVE  CardSound(c, p)'
<1>0. "card" \in Channels
  BY DEF Channels
<1>1. /\ hold'["card"][q] = 0 /\ hold["card"][q] # 0 /\ Len(buffer'["card"][q]) = 0
      /\ \A r \in Pairs : r # q =>
           buffer'["card"][r] = buffer["card"][r] /\ hold'["card"][r] = hold["card"][r]
      /\ stream[attached[q]] = "closed" /\ UNCHANGED <<attached, stream, out, shown>>
  BY <1>0, BreakEffect
<1>2. attached[q] # NoStream
  BY <1>0, <1>1 DEF Receivers
<1>3. /\ \A r \in Pairs : InBuffer(c, r)' <=> InBuffer(c, r) /\ r # q
      /\ \A r \in Pairs : Once(c, buffer["card"][r]) => Once(c, buffer'["card"][r])
  BY <1>1, EmptyMembers DEF InBuffer
<1>4. \A s \in Streams : InOutput(c, s)' <=> InOutput(c, s)
  BY <1>1 DEF InOutput
<1>5. OwnPlaces(c, p)'
  BY <1>1, <1>3, <1>4 DEF CardSound, OwnPlaces
<1>6. OnePlace(c, p)'
  BY <1>1, <1>3, <1>4 DEF CardSound, OnePlace
<1>7. LostWithReceivers(c, p)'
  <2>1. Gone(q)'
    BY <1>1, <1>2 DEF Gone
  <2>2. CASE p = q
    BY <2>1, <2>2 DEF LostWithReceivers
  <2>3. CASE p # q
    <3>1. \A j \in Channels, r \in Pairs : r \in alive'[j] => r \in alive[j]
      BY <1>0, BreakEffect
    <3>2. Gone(p) => Gone(p)'
      BY <1>0, <1>1, <3>1 DEF Gone
    <3> QED BY <1>1, <1>3, <1>4, <2>3, <3>2 DEF CardSound, LostWithReceivers
  <2> QED BY <2>2, <2>3
<1> QED BY <1>5, <1>6, <1>7 DEF CardSound

\* A forwarder sends what it holds.
LEMMA CardSent ==
  ASSUME ChatTypes, Receivers, NEW c \in Nat \ {0}, NEW p \in Pairs, CardSound(c, p),
         NEW q \in Pairs, ForwarderSends("card", q), hold["card"][q] = c => q = p
  PROVE  CardSound(c, p)'
<1>0. "card" \in Channels
  BY DEF Channels
<1> DEFINE card == Item("card", c)
           sent == Item("card", hold["card"][q])
           s == attached[q]
<1>1. /\ hold'["card"][q] = 0 /\ s \in Streams /\ sent \in Items /\ Send(s, sent)
      /\ \A r \in Pairs : r # q => hold'["card"][r] = hold["card"][r]
      /\ UNCHANGED <<attached, alive, buffer, stream, shown>>
  BY <1>0, SendEffect
<1>2. Grown(out[s], out'[s], sent) /\ \A r \in Streams : r # s => out'[r] = out[r]
  BY <1>1, SendTypes DEF Grown
<1>3. sent = card <=> hold["card"][q] = c
  BY ItemTypes
<1>4. /\ In(card, out'[s]) <=> In(card, out[s]) \/ card = sent
      /\ Once(card, out[s]) /\ (card = sent => ~In(card, out[s])) => Once(card, out'[s])
  BY <1>2, GrownMembers
<1>5. /\ InOutput(c, s)' <=> InOutput(c, s) \/ hold["card"][q] = c
      /\ \A r \in Streams : r # s => (InOutput(c, r)' <=> InOutput(c, r))
  BY <1>1, <1>2, <1>3, <1>4 DEF InOutput
<1>6. \A r \in Pairs : InBuffer(c, r)' <=> InBuffer(c, r)
  BY <1>1 DEF InBuffer
<1>7. hold["card"][q] = c => q = p /\ ~InOutput(c, s) /\ ~InBuffer(c, p) /\ c \notin shown
  BY <1>1 DEF CardSound, OnePlace
<1>8. Once(c, buffer["card"][p]) /\ \A r \in Streams : Once(card, out[r])
  BY DEF CardSound, OwnPlaces
<1>9. \A r \in Streams : Once(card, out'[r])
  BY <1>1, <1>2, <1>3, <1>4, <1>7, <1>8 DEF InOutput
<1> HIDE DEF card, sent
<1>10. OwnPlaces(c, p)'
  <2>1. \A r \in Pairs : InBuffer(c, r)' \/ hold'["card"][r] = c => r = p
    BY <1>1, <1>6 DEF CardSound, OwnPlaces
  <2>2. \A r \in Streams : InOutput(c, r)' => attached'[p] = r
    BY <1>1, <1>5, <1>7 DEF CardSound, OwnPlaces
  <2> QED BY <1>1, <1>8, <1>9, <2>1, <2>2 DEF OwnPlaces, card
<1>11. OnePlace(c, p)'
  <2>1. CASE hold["card"][q] = c
    <3>1. q = p /\ ~InBuffer(c, p)' /\ c \notin shown' /\ hold'["card"][p] # c
      BY <1>1, <1>6, <1>7, <2>1
    <3> QED BY <3>1 DEF OnePlace
  <2>2. CASE hold["card"][q] # c
    BY <1>1, <1>5, <1>6, <2>2 DEF CardSound, OnePlace
  <2> QED BY <2>1, <2>2
<1>12. LostWithReceivers(c, p)'
  <2>1. Gone(p) => Gone(p)'
    BY <1>1 DEF Gone
  <2> QED BY <1>1, <1>5, <1>6, <2>1 DEF CardSound, LostWithReceivers
<1> QED BY <1>10, <1>11, <1>12 DEF CardSound

\* Other output leaves the cards where they are.
LEMMA OtherOutput ==
  ASSUME ChatTypes, NEW c \in Nat \ {0}, NEW p \in Pairs, CardSound(c, p),
         NEW s \in Streams, NEW it \in Items, Send(s, it), it.kind # "card"
  PROVE  \A r \in Streams : /\ InOutput(c, r)' <=> InOutput(c, r)
                            /\ Once(Item("card", c), out'[r])
<1>1. Grown(out[s], out'[s], it) /\ \A r \in Streams : r # s => out'[r] = out[r]
  BY SendTypes DEF Grown
<1>2. it # Item("card", c)
  BY ItemTypes
<1>3. \A r \in Streams : Once(Item("card", c), out[r])
  BY DEF CardSound, OwnPlaces
<1>4. /\ In(Item("card", c), out'[s]) <=> In(Item("card", c), out[s])
      /\ Once(Item("card", c), out'[s])
  BY <1>1, <1>2, <1>3, GrownMembers
<1> QED BY <1>1, <1>3, <1>4 DEF InOutput

\* A card dispatched by another turn, or this one's own.
LEMMA CardDispatched ==
  ASSUME ChatTypes, NEW c \in Nat \ {0}, NEW p \in Pairs, CardSound(c, p),
         NEW t \in Turns, Dispatch(t), c \in Calls
  PROVE  CardSound(c, p)'
<1> DEFINE n == Len(calls) + 1
           q == pair[t]
<1>1. /\ q \in Pairs /\ n \in Nat \ {0} /\ Len(calls) \in Nat /\ Announced("card", q, n)
      /\ "card" \in Channels
      /\ UNCHANGED <<attached, alive, hold, stream, out, shown>>
  <2>1. /\ q \in Pairs /\ Len(calls) \in Nat /\ Announced("card", q, n)
        /\ UNCHANGED <<attached, alive, hold, stream, out, shown>>
    BY DispatchEffect
  <2> QED BY <2>1 DEF Channels
<1>2. c # n
  BY <1>1 DEF Calls
<1>3. /\ Grown(buffer["card"][q], buffer'["card"][q], n)
      /\ \A r \in Pairs : r # q => buffer'["card"][r] = buffer["card"][r]
  <2> HIDE DEF q, n
  <2>1. /\ Len(buffer["card"][q]) \in Nat /\ Len(buffer'["card"][q]) = Len(buffer["card"][q]) + 1
        /\ \A i \in 1 .. Len(buffer["card"][q]) : buffer'["card"][q][i] = buffer["card"][q][i]
        /\ buffer'["card"][q][Len(buffer["card"][q]) + 1] = n
        /\ \A j \in Channels, r \in Pairs : j # "card" \/ r # q => buffer'[j][r] = buffer[j][r]
    BY <1>1, Buffered
  <2> QED BY <1>1, <2>1 DEF Grown
<1>4. /\ In(c, buffer'["card"][q]) <=> In(c, buffer["card"][q])
      /\ Once(c, buffer["card"][q]) => Once(c, buffer'["card"][q])
  <2> HIDE DEF q, n
  <2> QED BY <1>2, <1>3, GrownMembers
<1> HIDE DEF q, n
<1>5. \A r \in Pairs : InBuffer(c, r)' <=> InBuffer(c, r)
  BY <1>3, <1>4 DEF InBuffer
<1>6. \A s \in Streams : InOutput(c, s)' <=> InOutput(c, s)
  BY <1>1 DEF InOutput
<1>7. OwnPlaces(c, p)'
  BY <1>1, <1>3, <1>4, <1>5, <1>6 DEF CardSound, OwnPlaces
<1>8. OnePlace(c, p)'
  BY <1>1, <1>5, <1>6 DEF CardSound, OnePlace
<1>9. LostWithReceivers(c, p)'
  <2>1. Gone(p) => Gone(p)'
    BY <1>1 DEF Gone
  <2> QED BY <1>1, <1>5, <1>6, <2>1 DEF CardSound, LostWithReceivers
<1> QED BY <1>7, <1>8, <1>9 DEF CardSound

LEMMA NewCard ==
  ASSUME ChatTypes, Numbered, NEW t \in Turns, Dispatch(t),
         NEW n, n = Len(calls) + 1, NEW q, q = pair[t]
  PROVE  CardSound(n, q)'
<1>1. /\ q \in Pairs /\ n \in Nat \ {0} /\ Len(calls) \in Nat /\ Announced("card", q, n)
      /\ "card" \in Channels
      /\ UNCHANGED <<attached, alive, hold, stream, out, shown>>
  <2>1. /\ q \in Pairs /\ Len(calls) \in Nat /\ Announced("card", q, n)
        /\ UNCHANGED <<attached, alive, hold, stream, out, shown>>
    BY DispatchEffect
  <2> QED BY <2>1 DEF Channels
<1>2. n \notin Calls /\ n # 0
  BY <1>1 DEF Calls
<1>3. /\ \A r \in Pairs : ~In(n, buffer["card"][r]) /\ hold["card"][r] # n
      /\ n \notin shown
  BY <1>1, <1>2 DEF Numbered, In
<1>4. \A s \in Streams : ~InOutput(n, s)
  <2>1. Item("card", n).kind = "card" /\ Item("card", n).of = n
    BY ItemTypes
  <2> QED BY <1>2, <2>1 DEF Numbered, InOutput, In
<1>5. /\ Grown(buffer["card"][q], buffer'["card"][q], n)
      /\ \A r \in Pairs : r # q => buffer'["card"][r] = buffer["card"][r]
  <2>1. /\ Len(buffer["card"][q]) \in Nat /\ Len(buffer'["card"][q]) = Len(buffer["card"][q]) + 1
        /\ \A i \in 1 .. Len(buffer["card"][q]) : buffer'["card"][q][i] = buffer["card"][q][i]
        /\ buffer'["card"][q][Len(buffer["card"][q]) + 1] = n
        /\ \A j \in Channels, r \in Pairs : j # "card" \/ r # q => buffer'[j][r] = buffer[j][r]
    BY ONLY ChatTypes, <1>1, Buffered
  <2> QED BY <1>1, <2>1 DEF Grown
<1>6. \A a : ~In(n, a) => Once(n, a)
  BY DEF In, Once
<1>7. In(n, buffer'["card"][q]) /\ Once(n, buffer'["card"][q])
  BY <1>1, <1>3, <1>5, <1>6, GrownMembers
<1>8. \A r \in Pairs : ((InBuffer(n, r) <=> r = q)') /\ hold'["card"][r] # n
  BY <1>1, <1>3, <1>5, <1>7 DEF InBuffer
<1>9. \A s \in Streams : ~(InOutput(n, s)') /\ Once(Item("card", n), out'[s])
  <2>1. \A a, v : ~In(v, a) => Once(v, a)
    BY DEF In, Once
  <2> QED BY <1>1, <1>4, <2>1 DEF InOutput
<1>10. CardSound(n, q)'
  BY <1>1, <1>3, <1>7, <1>8, <1>9 DEF CardSound, OwnPlaces, OnePlace, LostWithReceivers
<1> QED BY <1>10

LEMMA CardsStart == Init => Cards
<1>1. ASSUME Init PROVE Calls = {}
  <2>1. Len(<<>>) = 0
    OBVIOUS
  <2> QED BY <1>1, <2>1 DEF Init, Calls
<1> QED BY <1>1 DEF Cards

LEMMA CardsStep ==
  ASSUME ChatTypes, Numbered, Waiting, Receivers, Homes, Cards, Next
  PROVE  Cards'
<1>0. /\ \A c \in Calls : /\ c \in Nat \ {0} /\ calls[c].pair \in Pairs
                          /\ CardSound(c, calls[c].pair)
      /\ "card" \in Channels
  BY CallNumbers, CallPairs DEF Cards, Channels
<1>1. ASSUME UNCHANGED calls,
             \A c \in Calls, p \in Pairs : CardSound(c, p) /\ p = calls[c].pair => CardSound(c, p)'
      PROVE  Cards'
  <2>1. Calls' = Calls
    BY <1>1 DEF Calls
  <2>2. ASSUME NEW c \in Calls PROVE CardSound(c, calls[c].pair)'
    <3>1. PICK p \in Pairs : p = calls[c].pair
      BY <1>0
    <3>2. CardSound(c, p)'
      BY <1>0, <1>1, <3>1
    <3>3. p = calls'[c].pair
      BY <1>1, <3>1
    <3> QED BY <3>2, <3>3
  <2> QED BY <2>1, <2>2 DEF Cards
\* The steps that leave every card where it is.
<1>2. ASSUME UNCHANGED <<calls, shown>>,
             \A q \in Pairs : buffer'["card"][q] = buffer["card"][q] /\ hold'["card"][q] = hold["card"][q],
             \A c \in Calls, p \in Pairs, s \in Streams : CardSound(c, p) =>
               (InOutput(c, s)' <=> InOutput(c, s)) /\ Once(Item("card", c), out'[s]),
             \A p \in Pairs : attached[p] # NoStream => attached'[p] = attached[p],
             \A c \in Calls : Gone(calls[c].pair) => Gone(calls[c].pair)'
      PROVE  Cards'
  <2>1. ASSUME NEW c \in Calls, NEW p \in Pairs, CardSound(c, p), p = calls[c].pair
        PROVE  CardSound(c, p)'
    <3>1. Gone(p) => Gone(p)'
      BY <1>2, <2>1
    <3>2. /\ \A s \in Streams : InOutput(c, s)' <=> InOutput(c, s)
          /\ \A s \in Streams : Once(Item("card", c), out'[s])
      BY <1>2, <2>1
    <3> QED BY <1>2, <2>1, <3>1, <3>2, CardKept
  <2> QED BY <1>1, <1>2, <2>1
<1>3. ASSUME UNCHANGED out
      PROVE  \A c \in Calls, p \in Pairs, s \in Streams : CardSound(c, p) =>
               (InOutput(c, s)' <=> InOutput(c, s)) /\ Once(Item("card", c), out'[s])
  BY <1>3 DEF InOutput, CardSound, OwnPlaces
<1>4. ASSUME UNCHANGED <<calls, shown, out, buffer, hold, stream>>,
             \A p \in Pairs : attached[p] # NoStream => attached'[p] = attached[p],
             \A p \in Pairs : attached[p] = NoStream /\ p \notin alive["card"] =>
               attached'[p] = NoStream,
             \A c \in Calls : calls[c].pair \notin alive["card"] => calls[c].pair \notin alive'["card"]
      PROVE  Cards'
  <2>1. \A c \in Calls : Gone(calls[c].pair) => Gone(calls[c].pair)'
    BY <1>0, <1>4 DEF Gone
  <2> QED BY <1>2, <1>3, <1>4, <2>1
<1>5. CASE UNCHANGED Flow \/ CloseRemove \/ \E k \in Channels, p \in Pairs : ForwarderEnds(k, p)
  <2>1. UNCHANGED <<calls, shown, out, buffer, hold, stream, attached>>
    BY <1>5 DEF Flow, CloseRemove, ForwarderEnds, pairVars, chanVars, streamVars, clientVars
  <2>2. \A p : p \notin alive["card"] => p \notin alive'["card"]
    BY <1>5 DEF Flow, CloseRemove, ForwarderEnds, chanVars, ChatTypes, Channels
  <2> QED BY <1>4, <2>1, <2>2
<1>6. CASE ResumeSession
  <2>1. /\ UNCHANGED <<calls, shown, out, buffer, hold, stream, attached>>
        /\ alive'["card"] = alive["card"] \cup {made + 1} /\ made \in Nat
    BY <1>6, <1>0 DEF ResumeSession, ChatTypes, Pairs, streamVars, clientVars
  <2>2. \A c \in Calls : calls[c].pair # made + 1
    BY <1>0, <2>1 DEF Numbered, Pairs
  <2> QED BY <1>4, <2>1, <2>2
<1>7. ASSUME NEW s \in Streams, OpenStream(s) PROVE Cards'
  <2>1. UNCHANGED <<calls, shown, out, buffer, hold, alive, attached>>
    BY <1>7 DEF OpenStream, pairVars, chanVars, clientVars
  <2>2. ASSUME NEW c \in Calls, Gone(calls[c].pair) PROVE Gone(calls[c].pair)'
    <3>1. \A r \in Streams : stream[r] = "closed" => stream'[r] = "closed"
      BY <1>7 DEF OpenStream, ChatTypes
    <3>2. PICK p \in Pairs : p = calls[c].pair
      BY <1>0
    <3>3. Gone(p)'
      <4>1. attached[p] \in Streams \cup {NoStream} /\ attached'[p] = attached[p]
        BY <2>1 DEF ChatTypes
      <4>2. Gone(p)
        BY <2>2, <3>2
      <4>3. CASE attached[p] = NoStream
        BY <2>1, <4>1, <4>2, <4>3 DEF Gone
      <4>4. CASE attached[p] # NoStream
        BY <3>1, <4>1, <4>2, <4>4 DEF Gone
      <4> QED
        BY <4>3, <4>4
    <3> QED BY <2>1, <3>2, <3>3
  <2> QED BY <1>2, <1>3, <2>1, <2>2
<1>8. ASSUME NEW s \in Streams, Taken(s) PROVE Cards'
  <2>1. UNCHANGED <<alive, buffer, hold, stream, out, calls, shown>> /\ TakeReceivers(s)
    BY <1>8 DEF Taken
  <2>2. CASE UNCHANGED attached
    BY <1>4, <2>1, <2>2
  <2>3. CASE ~ UNCHANGED attached
    <3>1. parked \in Pairs /\ attached' = [attached EXCEPT ![parked] = s]
      BY <2>1, <2>3, TakeTypes
    <3>2. attached[parked] = NoStream /\ parked \in alive["card"]
      BY <1>0, <3>1 DEF Receivers, Pairs
    <3>3. \A p \in Pairs : p # parked => attached'[p] = attached[p]
      BY <3>1 DEF ChatTypes
    <3> QED BY <1>4, <2>1, <3>2, <3>3
  <2> QED BY <2>2, <2>3
<1>9. ASSUME NEW s \in Streams, NEW it \in Items, Send(s, it), it.kind # "card",
             UNCHANGED <<calls, shown, attached, alive, stream>>,
             \A q \in Pairs : buffer'["card"][q] = buffer["card"][q] /\ hold'["card"][q] = hold["card"][q]
      PROVE  Cards'
  <2>1. \A c \in Calls, p \in Pairs, r \in Streams : CardSound(c, p) =>
          (InOutput(c, r)' <=> InOutput(c, r)) /\ Once(Item("card", c), out'[r])
    BY <1>0, <1>9, OtherOutput
  <2>2. \A c \in Calls : Gone(calls[c].pair) => Gone(calls[c].pair)'
    BY <1>9 DEF Gone
  <2> QED BY <1>2, <1>9, <2>1, <2>2
<1>10. ASSUME NEW s \in Streams, NEW it \in Items, Said(s, it) PROVE Cards'
  BY <1>9, <1>10 DEF Said
<1>11. CASE CloseBegin \/ \E p \in Pairs : ParkReceivers(p)
  <2>1. DropReceivers(parked) /\ UNCHANGED <<calls, out, shown, attached, stream>>
    BY <1>11 DEF CloseBegin, ParkReceivers, streamVars, clientVars
  <2> QED BY <1>0, <1>1, <2>1, CardDropped
<1>12. ASSUME NEW s \in Streams, CloseStream(s) PROVE Cards'
  <2>1. UNCHANGED calls
    BY <1>12 DEF CloseStream
  <2> QED BY <1>1, <1>12, <2>1, CardCutOff
<1>13. ASSUME NEW s \in Streams, ClientReads(s) PROVE Cards'
  <2>1. UNCHANGED calls
    BY <1>13 DEF ClientReads
  <2> QED BY <1>0, <1>1, <1>13, <2>1, CardRead
<1>14. ASSUME NEW q \in Pairs, ForwarderStep("card", q) PROVE Cards'
  <2>1. CASE ForwarderReceives("card", q)
    <3>1. UNCHANGED calls
      BY <2>1 DEF ForwarderReceives
    <3> QED BY <1>0, <1>1, <2>1, <3>1, CardReceived
  <2>2. CASE ForwarderBreaks("card", q)
    <3>1. UNCHANGED calls
      BY <2>2 DEF ForwarderBreaks
    <3> QED BY <1>0, <1>1, <2>2, <3>1, CardBroken
  <2>3. CASE ForwarderSends("card", q)
    <3>1. UNCHANGED calls
      BY <2>3 DEF ForwarderSends
    <3>2. ASSUME NEW c \in Calls, NEW p \in Pairs, CardSound(c, p) PROVE hold["card"][q] = c => q = p
      BY <3>2 DEF CardSound, OwnPlaces
    <3>3. ASSUME NEW c \in Calls, NEW p \in Pairs, CardSound(c, p) PROVE CardSound(c, p)'
      BY <1>0, <2>3, <3>2, <3>3, CardSent
    <3> QED BY <1>1, <3>1, <3>3
  <2> QED BY <1>0, <1>5, <1>14, <2>1, <2>2, <2>3 DEF ForwarderStep
<1>15. ASSUME NEW p \in Pairs, ForwarderStep("expiry", p) PROVE Cards'
  <2>0. "expiry" \in Channels
    BY DEF Channels
  <2>1. CASE ForwarderSends("expiry", p)
    <3>1. /\ attached[p] \in Streams /\ Item("expiry", hold["expiry"][p]) \in Items
          /\ Send(attached[p], Item("expiry", hold["expiry"][p]))
          /\ UNCHANGED <<calls, shown, attached, alive, stream, buffer>>
          /\ \A q \in Pairs : hold'["card"][q] = hold["card"][q]
      BY <1>0, <2>0, <2>1, SendEffect
    <3>2. Item("expiry", hold["expiry"][p]).kind = "expiry"
      BY ItemTypes
    <3> QED BY <1>9, <3>1, <3>2
  <2>2. CASE ForwarderReceives("expiry", p)
    <3>1. /\ UNCHANGED <<calls, shown, attached, alive, stream, out>>
          /\ \A q \in Pairs : buffer'["card"][q] = buffer["card"][q] /\ hold'["card"][q] = hold["card"][q]
      BY <1>0, <2>0, <2>2, ReceiveEffect
    <3>2. \A c \in Calls : Gone(calls[c].pair) => Gone(calls[c].pair)'
      BY <3>1 DEF Gone
    <3> QED BY <1>2, <1>3, <3>1, <3>2
  <2>3. CASE ForwarderBreaks("expiry", p)
    <3>1. /\ UNCHANGED <<calls, shown, attached, stream, out>>
          /\ \A q \in Pairs : buffer'["card"][q] = buffer["card"][q] /\ hold'["card"][q] = hold["card"][q]
          /\ \A q \in Pairs : q \in alive'["card"] => q \in alive["card"]
      BY <1>0, <2>0, <2>3, BreakEffect
    <3>2. \A c \in Calls : Gone(calls[c].pair) => Gone(calls[c].pair)'
      BY <1>0, <3>1 DEF Gone
    <3> QED BY <1>2, <1>3, <3>1, <3>2
  <2> QED BY <1>5, <1>15, <2>0, <2>1, <2>2, <2>3 DEF ForwarderStep
<1>16. ASSUME NEW t \in Turns, SendExpiry(t) PROVE Cards'
  <2>1. /\ UNCHANGED <<calls, shown, attached, stream, out, hold, alive>>
        /\ \A q \in Pairs : buffer'["card"][q] = buffer["card"][q]
    BY <1>16, ExpiryEffect
  <2>2. \A c \in Calls : Gone(calls[c].pair) => Gone(calls[c].pair)'
    BY <2>1 DEF Gone
  <2> QED BY <1>2, <1>3, <2>1, <2>2
<1>17. ASSUME NEW t \in Turns, Dispatch(t) PROVE Cards'
  <2>1. /\ Len(calls) \in Nat /\ Len(calls') = Len(calls) + 1 /\ pair[t] \in Pairs
        /\ \A c \in Calls : calls'[c] = calls[c]
        /\ calls'[Len(calls) + 1] = [pair |-> pair[t], turn |-> t]
    BY <1>17, DispatchEffect DEF Calls
  <2>2. PICK n \in Nat, q \in Pairs : n = Len(calls) + 1 /\ q = pair[t]
    BY <2>1
  <2>3. Calls' = Calls \cup {n}
    BY <2>1, <2>2 DEF Calls
  <2>4. CardSound(n, q)' /\ calls'[n].pair = q
    BY <1>17, <2>1, <2>2, NewCard
  <2>5. ASSUME NEW c \in Calls PROVE CardSound(c, calls[c].pair)'
    <3>1. PICK p \in Pairs : p = calls[c].pair
      BY <1>0
    <3>2. CardSound(c, p)'
      BY <1>0, <1>17, <3>1, CardDispatched
    <3>3. p = calls'[c].pair
      BY <2>1, <3>1
    <3> QED BY <3>2, <3>3
  <2>6. CardSound(n, calls[n].pair)'
    BY <2>4
  <2> QED BY <2>3, <2>5, <2>6 DEF Cards
<1>18. \A k \in Channels : k = "card" \/ k = "expiry"
  BY DEF Channels
<1>19. ASSUME NEW k \in Channels, NEW p \in Pairs, ForwarderStep(k, p) PROVE Cards'
  BY <1>14, <1>15, <1>18, <1>19
<1> QED BY FlowSteps, <1>5, <1>6, <1>7, <1>8, <1>10, <1>11, <1>12, <1>13, <1>16, <1>17, <1>19

-----------------------------------------------------------------------------
(* The inductive invariant, and the count of the places of a card *)

LEMMA ChatIInvStart == Init => ChatIInv
<1>1. ASSUME Init PROVE Waiting /\ Homes
  BY <1>1 DEF Init, Waiting, Homes
<1> QED BY <1>1, TypesStart, CapacitiesStart, NumberedStart, ReceiversStart, CardsStart DEF ChatIInv

LEMMA ChatIInvStep == ChatIInv /\ [Next]_vars => ChatIInv'
<1>1. ASSUME ChatIInv, Next PROVE ChatIInv'
  <2>1. /\ ChatTypes /\ Capacities /\ Numbered /\ Waiting /\ Receivers /\ Homes /\ Cards
    BY <1>1 DEF ChatIInv
  <2> QED BY <1>1, <2>1, TypesStep, CapacitiesStep, NumberedStep, WaitingStep, ReceiversStep,
             HomesStep, CardsStep DEF ChatIInv
<1>2. ASSUME ChatIInv, UNCHANGED vars PROVE ChatIInv'
  <2> USE <1>2 DEF vars, pairVars, chanVars, streamVars, turnVars, clientVars
  <2>1. ChatTypes'
    BY DEF ChatIInv, ChatTypes
  <2>2. Capacities'
    BY DEF ChatIInv, Capacities
  <2>3. Numbered'
    BY DEF ChatIInv, Numbered, Calls
  <2>4. Waiting'
    BY DEF ChatIInv, Waiting, Calls
  <2>5. Receivers' /\ Homes'
    BY DEF ChatIInv, Receivers, Homes
  <2>6. Cards'
    BY DEF ChatIInv, Cards, Calls, CardSound, OwnPlaces, OnePlace, LostWithReceivers, Gone,
           InBuffer, InOutput, In, Once
  <2> QED BY <2>1, <2>2, <2>3, <2>4, <2>5, <2>6 DEF ChatIInv
<1> QED BY <1>1, <1>2

LEMMA AtMostOne ==
  ASSUME NEW A, \A x, y \in A : x = y
  PROVE  Cardinality(A) = IF A = {} THEN 0 ELSE 1
<1>1. CASE A = {}
  BY <1>1, FS_EmptySet
<1>2. CASE A # {}
  <2>1. PICK x : x \in A
    BY <1>2
  <2>2. A = {x}
    BY <2>1
  <2> QED BY <1>2, <2>2, FS_Singleton
<1> QED BY <1>1, <1>2

LEMMA CardCount ==
  ASSUME ChatIInv, NEW c \in Calls
  PROVE  LET p == calls[c].pair
         IN  /\ Holders(c) <= 1
             /\ Lost(c) => IF attached[p] = NoStream THEN p \notin alive["card"]
                                                     ELSE stream[attached[p]] = "closed"
<1> DEFINE p == calls[c].pair
           A == {i \in 1 .. Len(buffer["card"][p]) : buffer["card"][p][i] = c}
           B == {at \in Streams \X (1 .. OutCap) :
                   at[2] <= Len(out[at[1]]) /\ out[at[1]][at[2]] = Item("card", c)}
<1>1. /\ p \in Pairs /\ CardSound(c, p) /\ ChatTypes /\ Capacities
  BY CallPairs DEF ChatIInv, Cards
<1>2. Cardinality(A) = IF InBuffer(c, p) THEN 1 ELSE 0
  <2>1. \A i, j \in A : i = j
    BY <1>1 DEF CardSound, OwnPlaces, Once
  <2>2. A = {} <=> ~InBuffer(c, p)
    BY DEF InBuffer, In
  <2> HIDE DEF A
  <2> QED BY <2>1, <2>2, AtMostOne
<1>3. Cardinality(B) = IF \E s \in Streams : InOutput(c, s) THEN 1 ELSE 0
  <2>1. \A at \in B : /\ at = <<at[1], at[2]>> /\ at[1] \in Streams /\ at[2] \in 1 .. OutCap
                      /\ at[2] \in 1 .. Len(out[at[1]]) /\ out[at[1]][at[2]] = Item("card", c)
    <3>1. \A s \in Streams : Len(out[s]) \in Nat
      BY <1>1 DEF ChatTypes
    <3> QED BY <3>1, ChatAssumption
  <2>2. ASSUME NEW x \in B, NEW y \in B PROVE x = y
    <3>1. InOutput(c, x[1]) /\ InOutput(c, y[1])
      BY <2>1, <2>2 DEF InOutput, In
    <3>2. x[1] = y[1]
      BY <1>1, <2>1, <2>2, <3>1 DEF CardSound, OwnPlaces
    <3>3. x[2] = y[2]
      BY <1>1, <2>1, <2>2, <3>2 DEF CardSound, OwnPlaces, Once
    <3> QED BY <2>1, <2>2, <3>2, <3>3
  <2>3. ASSUME NEW s \in Streams, InOutput(c, s) PROVE B # {}
    <3>1. PICK i \in 1 .. Len(out[s]) : out[s][i] = Item("card", c)
      BY <2>3 DEF InOutput, In
    <3>2. Len(out[s]) \in Nat /\ Len(out[s]) <= OutCap
      BY <1>1 DEF ChatTypes, Capacities
    <3>3. <<s, i>> \in B
      BY <3>1, <3>2, ChatAssumption
    <3> QED BY <3>3
  <2>4. ASSUME NEW x \in B PROVE \E s \in Streams : InOutput(c, s)
    BY <2>1, <2>4 DEF InOutput, In
  <2>5. B = {} <=> ~ \E s \in Streams : InOutput(c, s)
    BY <2>3, <2>4
  <2> HIDE DEF B
  <2> QED BY <2>2, <2>5, AtMostOne
<1>4. Holders(c) = Cardinality(A) + (IF hold["card"][p] = c THEN 1 ELSE 0) + Cardinality(B)
                     + (IF c \in shown THEN 1 ELSE 0)
  BY DEF Holders
<1> HIDE DEF A, B
<1>5. Holders(c) <= 1
  BY <1>1, <1>2, <1>3, <1>4 DEF CardSound, OnePlace
<1>6. Lost(c) => Gone(p)
  BY <1>1, <1>2, <1>3, <1>4 DEF Lost, CardSound, LostWithReceivers
<1> QED BY <1>5, <1>6 DEF Gone

LEMMA SoundState == ChatIInv => ChatCardsSound
<1> SUFFICES ASSUME ChatIInv PROVE ChatCardsSound
  OBVIOUS
<1>1. TypeOK
  <2>1. /\ ChatTypes /\ Capacities /\ Numbered /\ Waiting
    BY DEF ChatIInv
  <2>2. /\ \A k \in Channels, p \in Pairs :
             /\ Len(buffer[k][p]) <= InstrCap
             /\ \A i \in 1 .. Len(buffer[k][p]) : buffer[k][p][i] \in Calls
             /\ hold[k][p] \in {0} \cup Calls
        /\ \A s \in Streams : Len(out[s]) <= OutCap
        /\ Len(calls) <= MaxCalls /\ shown \subseteq Calls
    BY <2>1 DEF Capacities, Numbered
  <2>3. call \in [Turns -> {0} \cup Calls]
    BY <2>1 DEF ChatTypes, Waiting
  <2> QED BY <2>1, <2>2, <2>3 DEF ChatTypes, TypeOK
<1>2. CardsConserved
  BY CardCount DEF CardsConserved
<1> QED BY <1>1, <1>2 DEF ChatCardsSound

(* No card of a session is ever in two places between the turn that made it and
   the client, and one that is in none went with its receivers: the stream that
   had taken them has closed, or they were dropped before a stream took them
   (service.rs spawn_forwarders, pending_proxy_receivers). *)
THEOREM CardsSurvive == Spec => []ChatCardsSound
<1>1. Init => ChatIInv
  BY ChatIInvStart
<1>2. ChatIInv /\ [Next]_vars => ChatIInv'
  BY ChatIInvStep
<1>3. ChatIInv => ChatCardsSound
  BY SoundState
<1> QED BY <1>1, <1>2, <1>3, PTL DEF Spec

-----------------------------------------------------------------------------
(* The deltas of a turn, then its one end *)

LEMMA EndsStart == Init => Ends
<1>1. ASSUME Init PROVE Ends
  <2>1. Len(<<>>) = 0
    OBVIOUS
  <2> QED BY <1>1, <2>1 DEF Init, Ends, OneEndAfterAllDeltas
<1> QED BY <1>1

\* A turn that is over stays over, one that has started does not start again and
\* keeps its stream.
TurnsAdvance ==
  \A t \in Turns :
    /\ turn[t] = "answered" => turn'[t] = "answered"
    /\ turn[t] # "unsent" => turn'[t] # "unsent" /\ home'[t] = home[t]

LEMMA TurnsStep ==
  ASSUME ChatTypes, Next
  PROVE  TurnsAdvance
<1>0. turn \in [Turns -> {"unsent", "queued", "running", "dispatch", "wait", "expired",
                          "returned", "answered"}] /\ home \in [Turns -> Streams \cup {NoStream}]
  BY DEF ChatTypes
<1>1. ASSUME NEW t \in Turns, TurnStep(t) \/ EmitDelta(t) \/ CallProxy(t) \/ WaitCancelled(t) \/ WaitExpires(t)
      PROVE  TurnsAdvance
  <2>1. /\ UNCHANGED home
        /\ turn' = turn \/ \E v \in {"running", "dispatch", "wait", "expired", "returned", "answered"} :
                             turn' = [turn EXCEPT ![t] = v] /\ turn[t] # "answered"
    BY <1>1 DEF TurnStep, StartTurn, TurnNotFound, Dispatch, DispatchFails, SendExpiry, TurnReturns,
         StreamEvent, StreamEventFails, FinalOutput, EmitDelta, CallProxy, WaitCancelled, WaitExpires,
         turnVars
  <2> QED BY <1>0, <2>1 DEF TurnsAdvance
<1>2. ASSUME NEW s \in Streams, NEW t \in Turns, UserMessage(s, t) PROVE TurnsAdvance
  BY <1>0, <1>2 DEF UserMessage, TurnsAdvance
<1>3. ASSUME NEW s \in Streams, NEW c \in 1 .. MaxCalls, ProxyResult(s, c) PROVE TurnsAdvance
  <2>1. /\ UNCHANGED home
        /\ \A t \in Turns : turn'[t] = turn[t] \/ (turn[t] = "wait" /\ turn'[t] = "running")
    BY <1>3 DEF ProxyResult
  <2> QED BY <2>1 DEF TurnsAdvance
<1>4. ASSUME UNCHANGED <<turn, home>> PROVE TurnsAdvance
  BY <1>4 DEF TurnsAdvance
<1>5. CASE SessionStep \/ \E k \in Channels, p \in Pairs : ForwarderStep(k, p)
  BY <1>4, <1>5 DEF SessionStep, ResumeSession, ParkReceivers, CloseBegin, CloseUsage, CloseRemove,
       ForwarderStep, ForwarderReceives, ForwarderSends, ForwarderBreaks, ForwarderEnds, turnVars
<1>6. ASSUME NEW s \in Streams,
             OpenStream(s) \/ CloseStream(s) \/ LoopError(s) \/ CancelInput(s) \/ ClientReads(s)
      PROVE  TurnsAdvance
  BY <1>4, <1>6 DEF OpenStream, CloseStream, LoopError, CancelInput, ClientReads, turnVars
<1> QED BY <1>1, <1>2, <1>3, <1>5, <1>6 DEF Next

\* An output that a stream is sent, or loses, keeps the ends in order.
LEMMA EndsKept ==
  ASSUME ChatTypes, Ends, TurnsAdvance, UNCHANGED finished,
         \A s \in Streams : out'[s] = out[s] \/ Len(out'[s]) = 0
  PROVE  Ends'
<1>0. /\ \A t \in finished : t \in Turns /\ turn[t] = "answered"
      /\ \A s \in Streams : \A i \in 1 .. Len(out[s]) : out[s][i] \in Items
  BY DEF ChatTypes, Ends
<1>1. ASSUME NEW s \in Streams, NEW i \in 1 .. Len(out'[s])
      PROVE  /\ i \in 1 .. Len(out[s]) /\ out'[s] = out[s] /\ out[s][i] \in Items
             /\ out[s][i].kind = "final" => turn[out[s][i].of] = "answered"
             /\ out[s][i].kind \in {"delta", "final"} =>
                  /\ out[s][i].of \in Turns
                  /\ turn[out[s][i].of] # "unsent" /\ home[out[s][i].of] = s
  BY <1>0, ItemTypes DEF Ends
<1>2. \A t \in finished : turn'[t] = "answered"
  BY <1>0 DEF TurnsAdvance
<1>3. \A s \in Streams : \A i \in 1 .. Len(out'[s]) :
        /\ out'[s][i].kind = "final" => turn'[out'[s][i].of] = "answered"
        /\ out'[s][i].kind \in {"delta", "final"} =>
             turn'[out'[s][i].of] # "unsent" /\ home'[out'[s][i].of] = s
  BY <1>1 DEF TurnsAdvance
<1>4. OneEndAfterAllDeltas'
  BY <1>1 DEF Ends, OneEndAfterAllDeltas
<1> QED BY <1>2, <1>3, <1>4 DEF Ends

\* What is sent is said of a turn that runs, or is its end.
LEMMA EndsSent ==
  ASSUME ChatTypes, Ends, TurnsAdvance, UNCHANGED finished,
         NEW s \in Streams, NEW it \in Items, Send(s, it),
         it.kind = "delta" => /\ turn[it.of] \notin {"unsent", "answered"} /\ home[it.of] = s,
         it.kind = "final" => /\ turn[it.of] \notin {"unsent", "answered"} /\ home[it.of] = s
                              /\ turn'[it.of] = "answered"
  PROVE  Ends'
<1> DEFINE n == Len(out[s])
<1>0. /\ \A r \in Streams : r # s => out'[r] = out[r]
      /\ Len(out'[s]) = n + 1 /\ n \in Nat
      /\ \A i \in 1 .. n : out'[s][i] = out[s][i]
      /\ out'[s][n + 1] = it
  BY SendTypes
<1>1. ASSUME NEW r \in Streams, NEW i \in 1 .. Len(out'[r])
      PROVE  \/ i \in 1 .. Len(out[r]) /\ out'[r][i] = out[r][i]
             \/ r = s /\ i = n + 1 /\ out'[r][i] = it
  BY <1>0
<1>2. /\ \A t \in finished : t \in Turns /\ turn[t] = "answered"
      /\ \A r \in Streams : \A i \in 1 .. Len(out[r]) : out[r][i] \in Items
  BY DEF ChatTypes, Ends
<1>3. \A r \in Streams : \A i \in 1 .. Len(out[r]) :
        /\ out[r][i].kind = "final" => turn[out[r][i].of] = "answered"
        /\ out[r][i].kind \in {"delta", "final"} =>
             out[r][i].of \in Turns /\ turn[out[r][i].of] # "unsent" /\ home[out[r][i].of] = r
  BY <1>2, ItemTypes DEF Ends
<1>4. it.kind \in {"delta", "final"} => it.of \in Turns
  BY ItemTypes
<1> HIDE DEF n
<1>5. \A t \in finished : turn'[t] = "answered"
  BY <1>2 DEF TurnsAdvance
<1>6. \A r \in Streams : \A i \in 1 .. Len(out'[r]) :
        /\ out'[r][i].kind = "final" => turn'[out'[r][i].of] = "answered"
        /\ out'[r][i].kind \in {"delta", "final"} =>
             turn'[out'[r][i].of] # "unsent" /\ home'[out'[r][i].of] = r
  BY <1>1, <1>3, <1>4 DEF TurnsAdvance
<1>7. OneEndAfterAllDeltas'
  <2>1. ASSUME NEW t \in Turns, NEW r \in Streams, NEW i \in 1 .. Len(out'[r]),
               out'[r][i] \in {Item("delta", t), Item("final", t)}
        PROVE  t \notin finished /\ \A j \in 1 .. i - 1 : out'[r][j] # Item("final", t)
    <3>1. CASE i \in 1 .. Len(out[r]) /\ out'[r][i] = out[r][i]
      <4>1. t \notin finished /\ \A j \in 1 .. i - 1 : out[r][j] # Item("final", t)
        BY <2>1, <3>1 DEF Ends, OneEndAfterAllDeltas
      <4>2. \A j \in 1 .. i - 1 : j \in 1 .. Len(out'[r]) /\ out'[r][j] = out[r][j]
        BY <1>0, <1>1, <3>1
      <4> QED BY <4>1, <4>2
    <3>2. CASE r = s /\ i = n + 1 /\ out'[r][i] = it
      <4>1. it \in {Item("delta", t), Item("final", t)} /\ turn[t] # "answered"
        BY <2>1, <3>2, ItemTypes
      <4>2. ASSUME NEW j \in 1 .. i - 1, out'[s][j] = Item("final", t) PROVE FALSE
        <5>1. j \in 1 .. n /\ out'[s][j] = out[s][j]
          BY <1>0, <3>2
        <5> QED BY <1>3, <4>1, <4>2, <5>1, ItemTypes DEF n
      <4> QED BY <1>2, <3>2, <4>1, <4>2
    <3> QED BY <1>1, <3>1, <3>2
  <2> QED BY <2>1 DEF OneEndAfterAllDeltas
<1> QED BY <1>5, <1>6, <1>7 DEF Ends

LEMMA EndsRead ==
  ASSUME ChatTypes, Ends, NEW s \in Streams, ClientReads(s)
  PROVE  Ends'
<1>0. /\ \A r \in Streams : r # s => out'[r] = out[r]
      /\ Len(out'[s]) = Len(out[s]) - 1 /\ Len(out[s]) \in Nat \ {0}
      /\ \A i \in 1 .. Len(out[s]) - 1 : out'[s][i] = out[s][i + 1]
      /\ finished' = IF out[s][1].kind = "final" THEN finished \cup {out[s][1].of} ELSE finished
      /\ out[s][1] \in Items
      /\ UNCHANGED <<turn, home>>
  BY ReadEffect
<1>1. ASSUME NEW r \in Streams, NEW i \in 1 .. Len(out'[r])
      PROVE  \E d \in {0, 1} :
               /\ i + d \in 1 .. Len(out[r]) /\ out'[r][i] = out[r][i + d]
               /\ r = s => d = 1
               /\ \A j \in 1 .. i : j \in 1 .. Len(out'[r]) /\ out'[r][j] = out[r][j + d]
  <2>1. CASE r = s
    <3>1. /\ i + 1 \in 1 .. Len(out[r]) /\ out'[r][i] = out[r][i + 1]
          /\ \A j \in 1 .. i : j \in 1 .. Len(out'[r]) /\ out'[r][j] = out[r][j + 1]
      BY <1>0, <2>1
    <3> QED BY <2>1, <3>1
  <2>2. CASE r # s
    <3>1. i \in Nat /\ out'[r] = out[r] /\ Len(out[r]) \in Nat
      BY <1>0, <2>2 DEF ChatTypes
    <3>2. i + 0 = i /\ \A j \in 1 .. i : j + 0 = j /\ j \in 1 .. Len(out[r])
      BY <3>1
    <3> QED BY <2>2, <3>1, <3>2
  <2> QED BY <2>1, <2>2
<1>2. \A r \in Streams : \A i \in 1 .. Len(out[r]) :
        /\ out[r][i].kind = "final" => turn[out[r][i].of] = "answered"
        /\ out[r][i].kind \in {"delta", "final"} =>
             turn[out[r][i].of] # "unsent" /\ home[out[r][i].of] = r
  BY DEF Ends
<1>3. \A t \in finished' : turn'[t] = "answered"
  BY <1>0, <1>2 DEF Ends
<1>4. \A r \in Streams : \A i \in 1 .. Len(out'[r]) :
        /\ out'[r][i].kind = "final" => turn'[out'[r][i].of] = "answered"
        /\ out'[r][i].kind \in {"delta", "final"} =>
             turn'[out'[r][i].of] # "unsent" /\ home'[out'[r][i].of] = r
  <2>1. ASSUME NEW r \in Streams, NEW i \in 1 .. Len(out'[r])
        PROVE  \E l \in 1 .. Len(out[r]) : out'[r][i] = out[r][l]
    BY <1>1
  <2> QED BY <1>0, <1>2, <2>1
<1>5. OneEndAfterAllDeltas'
  <2>1. ASSUME NEW t \in Turns, NEW r \in Streams, NEW i \in 1 .. Len(out'[r]),
               out'[r][i] \in {Item("delta", t), Item("final", t)}
        PROVE  t \notin finished' /\ \A j \in 1 .. i - 1 : out'[r][j] # Item("final", t)
    <3>1. PICK d \in {0, 1} : /\ i + d \in 1 .. Len(out[r]) /\ out'[r][i] = out[r][i + d]
                              /\ r = s => d = 1
                              /\ \A j \in 1 .. i : out'[r][j] = out[r][j + d]
      BY <1>1
    <3>2. t \notin finished /\ \A j \in 1 .. i + d - 1 : out[r][j] # Item("final", t)
      BY <2>1, <3>1 DEF Ends, OneEndAfterAllDeltas
    <3>3. \A j \in 1 .. i - 1 : out'[r][j] # Item("final", t)
      <4>1. \A j \in 1 .. i - 1 : j \in 1 .. i /\ j + d \in 1 .. i + d - 1
        OBVIOUS
      <4> QED BY <3>1, <3>2, <4>1
    <3>4. ASSUME out[s][1].kind = "final", out[s][1].of = t PROVE FALSE
      <4>1. home[t] = s /\ out[s][1] = Item("final", t)
        BY <1>0, <1>2, <3>4, ItemTypes
      <4>2. home[t] = r
        <5>1. out[r][i + d] \in {Item("delta", t), Item("final", t)}
          BY <2>1, <3>1
        <5>2. out[r][i + d].kind \in {"delta", "final"} /\ out[r][i + d].of = t
          BY <5>1, ItemTypes
        <5> QED BY <1>2, <3>1, <5>2
      <4>3. 1 \in 1 .. i + d - 1
        BY <3>1, <4>1, <4>2
      <4> QED BY <3>2, <4>1, <4>2, <4>3
    <3> QED BY <1>0, <3>2, <3>3, <3>4
  <2> QED BY <2>1 DEF OneEndAfterAllDeltas
<1> QED BY <1>3, <1>4, <1>5 DEF Ends

LEMMA EndsStep ==
  ASSUME ChatTypes, Receivers, Homes, Ends, Next
  PROVE  Ends'
<1>0. TurnsAdvance
  BY TurnsStep
<1>1. ASSUME UNCHANGED <<out, finished>> PROVE Ends'
  BY <1>0, <1>1, EndsKept
<1>2. ASSUME NEW s \in Streams, CloseStream(s) PROVE Ends'
  <2>1. out' = [out EXCEPT ![s] = <<>>] /\ DOMAIN out = Streams /\ UNCHANGED finished
    BY <1>2 DEF CloseStream, ChatTypes, clientVars
  <2>2. Len(<<>>) = 0
    OBVIOUS
  <2>3. \A r \in Streams : out'[r] = out[r] \/ Len(out'[r]) = 0
    BY <2>1, <2>2
  <2> QED BY <1>0, <2>1, <2>3, EndsKept
<1>3. ASSUME NEW s \in Streams, LoopError(s) PROVE Ends'
  <2>1. PICK it \in Items : it = Item("error", 0)
    BY ItemTypes
  <2>2. Send(s, it) /\ UNCHANGED finished /\ it.kind = "error"
    BY <1>3, <2>1, ItemTypes DEF LoopError, clientVars
  <2> QED BY <1>0, <2>2, EndsSent
<1>4. ASSUME NEW k \in Channels, NEW p \in Pairs, ForwarderSends(k, p) PROVE Ends'
  <2>1. /\ attached[p] \in Streams /\ Item(k, hold[k][p]) \in Items
        /\ Send(attached[p], Item(k, hold[k][p]))
    BY <1>4, SendEffect
  <2>2. UNCHANGED finished
    BY <1>4 DEF ForwarderSends, clientVars
  <2>3. Item(k, hold[k][p]).kind \in {"card", "expiry"}
    BY ItemTypes DEF Channels
  <2> QED BY <1>0, <2>1, <2>2, <2>3, EndsSent
<1>5. ASSUME NEW t \in Turns, StreamEvent(t) PROVE Ends'
  <2>1. home[t] \in Streams /\ turn[t] \notin {"unsent", "answered"}
    BY <1>5, ChatAssumption DEF StreamEvent, Homes, ChatTypes
  <2>2. /\ Send(home[t], Item("delta", t)) /\ UNCHANGED finished
    BY <1>5 DEF StreamEvent, clientVars
  <2>3. Item("delta", t) \in Items /\ Item("delta", t).kind = "delta" /\ Item("delta", t).of = t
    BY ItemTypes
  <2> QED BY <1>0, <2>1, <2>2, <2>3, EndsSent
<1>6. ASSUME NEW t \in Turns, FinalOutput(t) PROVE Ends'
  <2>1. /\ home[t] \in Streams /\ turn[t] = "returned" /\ turn'[t] = "answered"
        /\ UNCHANGED finished
    BY <1>6 DEF FinalOutput, Homes, ChatTypes, clientVars
  <2>2. CASE UNCHANGED out
    BY <1>1, <2>1, <2>2
  <2>3. CASE Send(home[t], Item("final", t))
    <3>1. Item("final", t) \in Items /\ Item("final", t).kind = "final" /\ Item("final", t).of = t
      BY ItemTypes
    <3> QED BY <1>0, <2>1, <2>3, <3>1, EndsSent
  <2> QED BY <1>6, <2>2, <2>3 DEF FinalOutput
<1>7. ASSUME NEW s \in Streams, ClientReads(s) PROVE Ends'
  BY <1>7, EndsRead
<1>8. CASE SessionStep
  BY <1>1, <1>8 DEF SessionStep, ResumeSession, ParkReceivers, CloseBegin, CloseUsage, CloseRemove,
       clientVars
<1>9. ASSUME NEW k \in Channels, NEW p \in Pairs,
             ForwarderReceives(k, p) \/ ForwarderBreaks(k, p) \/ ForwarderEnds(k, p)
      PROVE  Ends'
  BY <1>1, <1>9 DEF ForwarderReceives, ForwarderBreaks, ForwarderEnds, clientVars
<1>10. ASSUME NEW s \in Streams, OpenStream(s) \/ CancelInput(s) PROVE Ends'
  BY <1>1, <1>10 DEF OpenStream, CancelInput, clientVars
<1>11. ASSUME NEW s \in Streams, NEW t \in Turns, UserMessage(s, t) PROVE Ends'
  BY <1>1, <1>11 DEF UserMessage, clientVars
<1>12. ASSUME NEW s \in Streams, NEW c \in 1 .. MaxCalls, ProxyResult(s, c) PROVE Ends'
  BY <1>1, <1>12 DEF ProxyResult, clientVars
<1>13. ASSUME NEW t \in Turns,
              \/ StartTurn(t) \/ TurnNotFound(t) \/ Dispatch(t) \/ DispatchFails(t) \/ SendExpiry(t)
              \/ TurnReturns(t) \/ StreamEventFails(t) \/ EmitDelta(t) \/ CallProxy(t)
              \/ WaitCancelled(t) \/ WaitExpires(t)
       PROVE  Ends'
  BY <1>1, <1>13 DEF StartTurn, TurnNotFound, Dispatch, DispatchFails, SendExpiry, TurnReturns,
       StreamEventFails, EmitDelta, CallProxy, WaitCancelled, WaitExpires, clientVars
<1> QED BY Zenon, <1>2, <1>3, <1>4, <1>5, <1>6, <1>7, <1>8, <1>9, <1>10, <1>11, <1>12, <1>13
          DEF Next, ForwarderStep, TurnStep

(* A client that has read the turn_complete or the error of a turn has read all its
   deltas and will read no second end of it: none is in the output of any stream,
   and none is behind an end there (service.rs handle_user_message). *)
THEOREM DeltasThenOneEnd == Spec => []OneEndAfterAllDeltas
<1>1. Init => ChatIInv /\ Ends
  BY ChatIInvStart, EndsStart
<1>2. ChatIInv /\ Ends /\ [Next]_vars => (ChatIInv /\ Ends)'
  <2>1. ASSUME ChatIInv, Ends, Next PROVE Ends'
    BY <2>1, EndsStep DEF ChatIInv
  <2>2. ASSUME Ends, UNCHANGED vars PROVE Ends'
    BY <2>2 DEF Ends, OneEndAfterAllDeltas, vars, turnVars, clientVars
  <2> QED BY <2>1, <2>2, ChatIInvStep
<1>3. Ends => OneEndAfterAllDeltas
  BY DEF Ends
<1> QED BY <1>1, <1>2, <1>3, PTL DEF Spec
=============================================================================
