----------------------------- MODULE ChatService -----------------------------
(***************************************************************************)
(* The Chat streams of agent-grpc-server (service.rs) for one session id:   *)
(* which stream the cards of a session go to, what happens to them when the *)
(* stream ends or ResumeSession is called, and the order in which a turn's  *)
(* output reaches the client.                                               *)
(*                                                                         *)
(* Every CreateSession and ResumeSession makes a pair of channels, one for  *)
(* cards and one for expiry notices.  Their senders belong to the session   *)
(* entry (and to the workers that hold it), their receivers are parked in   *)
(* pending_proxy_receivers until a stream takes them.  What ends a proxy    *)
(* wait is the subject of ProxyExecutor, how turns and commands interleave  *)
(* that of SessionManager; here both are reduced to their effect on the     *)
(* channels.                                                                *)
(***************************************************************************)
EXTENDS Integers, Sequences, FiniteSets, TLC

CONSTANTS
  Streams,     \* Chat streams
  Turns,       \* user messages, one turn each
  MaxPairs,    \* bound on the pairs of channels made in a behaviour
  MaxCalls,    \* bound on the proxy calls
  MayClose,    \* whether the session may be closed
  MaxDeltas,   \* bound on the assistant events of a turn
  OutCap,      \* capacity of a stream's output channel (64)
  InstrCap,    \* capacity of the instruction and timeout channels (32 and 8)
  EventCap     \* capacity of a turn's event channel (256)

NoStream == "no stream"

ASSUME ChatAssumption ==
  /\ NoStream \notin Streams
  /\ MaxPairs \in Nat \ {0} /\ OutCap \in Nat \ {0}
  /\ InstrCap \in Nat \ {0} /\ EventCap \in Nat \ {0}
  /\ MaxCalls \in Nat /\ MaxDeltas \in Nat /\ MayClose \in BOOLEAN

VARIABLES
  entry,     \* the pair whose senders the live session entry holds, 0 if not live
  made,      \* pairs made so far
  parking,   \* pairs whose handler has yet to put them into the map
  parked,    \* pending_proxy_receivers: the pair parked for the session, 0 if none
  attached,  \* per pair: the stream whose forwarders have its receivers
  alive,     \* per channel: the pairs whose receiver has not been dropped
  buffer,    \* per channel and pair: calls announced and not yet received
  hold,      \* per channel and pair: the call its forwarder is sending, 0 if none
  stream,    \* state of each stream: "new", "open", "closed"
  started,   \* per stream: forwarders_started holds the session
  loop,      \* per stream: what its inbound loop is doing
  out,       \* per stream: the output channel
  turn,      \* stage of each turn
  home,      \* per turn: the stream its user message came on
  pair,      \* per turn: the pair of the entry it runs on
  call,      \* per turn: the proxy call it is making, 0 if none
  events,    \* per turn: the event channel
  deltas,    \* per turn: assistant events it has made
  calls,     \* calls dispatched so far, each with its pair and its turn
  shown,     \* cards the client has received
  finished,  \* turns whose last output the client has received
  closing    \* stage of CloseSession

pairVars   == <<entry, made, parking, parked, attached>>
chanVars   == <<alive, buffer, hold>>
streamVars == <<stream, started, loop>>
turnVars   == <<turn, home, pair, call, events, deltas>>
clientVars == <<shown, finished>>
vars == <<pairVars, chanVars, streamVars, out, turnVars, calls, clientVars, closing>>

Pairs    == 1 .. MaxPairs
Channels == {"card", "expiry"}

Item(kind, of) == [kind |-> kind, of |-> of]

\* Just after create_session: the entry is live and its receivers are parked.
Init ==
  /\ entry = 1 /\ made = 1 /\ parking = {} /\ parked = 1
  /\ attached = [p \in Pairs |-> NoStream]
  /\ alive = [k \in Channels |-> {1}]
  /\ buffer = [k \in Channels |-> [p \in Pairs |-> <<>>]]
  /\ hold = [k \in Channels |-> [p \in Pairs |-> 0]]
  /\ stream = [s \in Streams |-> "new"]
  /\ started = [s \in Streams |-> FALSE]
  /\ loop = [s \in Streams |-> "reading"]
  /\ out = [s \in Streams |-> <<>>]
  /\ turn = [t \in Turns |-> "unsent"]
  /\ home = [t \in Turns |-> NoStream]
  /\ pair = [t \in Turns |-> 0]
  /\ call = [t \in Turns |-> 0]
  /\ events = [t \in Turns |-> 0]
  /\ deltas = [t \in Turns |-> 0]
  /\ calls = <<>>
  /\ shown = {} /\ finished = {}
  /\ closing = "no"

-----------------------------------------------------------------------------
(* Sessions: pairs of channels and where their receivers are *)

\* A receiver is dropped with everything buffered in its channel.
DropReceivers(p) ==
  /\ alive' = [k \in Channels |-> alive[k] \ {p}]
  /\ buffer' = [k \in Channels |-> IF p = 0 THEN buffer[k] ELSE [buffer[k] EXCEPT ![p] = <<>>]]
  /\ UNCHANGED hold

\* resume_session up to the answer of the manager: for a session that is not
\* live the new senders go into its entry, for a live one they are dropped.
ResumeSession ==
  /\ made < MaxPairs
  /\ made' = made + 1
  /\ entry' = IF entry = 0 THEN made + 1 ELSE entry
  /\ parking' = parking \cup {made + 1}
  /\ alive' = [k \in Channels |-> alive[k] \cup {made + 1}]
  /\ UNCHANGED <<parked, attached, buffer, hold, streamVars, out, turnVars, calls, clientVars, closing>>

\* ... and its end: the new receivers replace the parked ones, live or not.
ParkReceivers(p) ==
  /\ p \in parking
  /\ parking' = parking \ {p}
  /\ parked' = p
  /\ DropReceivers(parked)
  /\ UNCHANGED <<entry, made, attached, streamVars, out, turnVars, calls, clientVars, closing>>

\* The turns that hold the lock of the entry of pair p.
Busy(p) == {t \in Turns : pair[t] = p /\ turn[t] \in {"running", "dispatch", "wait", "expired"}}

\* close_session drops what is parked and cancels,
CloseBegin ==
  /\ MayClose /\ closing = "no"
  /\ closing' = "usage"
  /\ parked' = 0
  /\ DropReceivers(parked)
  /\ UNCHANGED <<entry, made, parking, attached, streamVars, out, turnVars, calls, clientVars>>

\* get_usage waits for the lock of the entry,
CloseUsage ==
  /\ closing = "usage"
  /\ Busy(entry) = {}
  /\ closing' = "remove"
  /\ UNCHANGED <<pairVars, chanVars, streamVars, out, turnVars, calls, clientVars>>

\* and remove_session takes the entry out of the map.
CloseRemove ==
  /\ closing = "remove"
  /\ closing' = "done"
  /\ entry' = 0
  /\ UNCHANGED <<made, parking, parked, attached, chanVars, streamVars, out, turnVars, calls, clientVars>>

-----------------------------------------------------------------------------
(* A stream: its inbound loop, its forwarders, its end *)

OpenStream(s) ==
  /\ stream[s] = "new"
  /\ stream' = [stream EXCEPT ![s] = "open"]
  /\ UNCHANGED <<pairVars, chanVars, started, loop, out, turnVars, calls, clientVars, closing>>

\* The client goes away: the output receiver is dropped and the loop ends.
\* Spawned tasks keep their sender and notice when they use it.
CloseStream(s) ==
  /\ stream[s] = "open"
  /\ stream' = [stream EXCEPT ![s] = "closed"]
  /\ out' = [out EXCEPT ![s] = <<>>]
  /\ UNCHANGED <<pairVars, chanVars, started, loop, turnVars, calls, clientVars, closing>>

\* Any input of a stream that has no forwarders yet takes what is parked.
TakeReceivers(s) ==
  /\ stream[s] = "open" /\ loop[s] = "reading"
  /\ IF ~started[s] /\ parked # 0
       THEN /\ attached' = [attached EXCEPT ![parked] = s]
            /\ started' = [started EXCEPT ![s] = TRUE]
            /\ parked' = 0
       ELSE UNCHANGED <<attached, started, parked>>
  /\ UNCHANGED <<entry, made, parking>>

\* mutant: the loop awaits the turn instead of spawning it
UserMessageAwaited(s, t) ==
  /\ turn[t] = "unsent"
  /\ TakeReceivers(s)
  /\ turn' = [turn EXCEPT ![t] = "queued"]
  /\ home' = [home EXCEPT ![t] = s]
  /\ loop' = [loop EXCEPT ![s] = "awaiting"]
  /\ UNCHANGED <<chanVars, stream, out, pair, call, events, deltas, calls, clientVars, closing>>

\* A user message: the turn is spawned and the loop goes on reading.
UserMessage(s, t) ==
  /\ turn[t] = "unsent"
  /\ TakeReceivers(s)
  /\ turn' = [turn EXCEPT ![t] = "queued"]
  /\ home' = [home EXCEPT ![t] = s]
  /\ UNCHANGED <<chanVars, stream, loop, out, pair, call, events, deltas, calls, clientVars, closing>>

\* A proxy result for the card of call c: delivered to the turn that waits for
\* it, else answered with an error on the same stream.
ProxyResult(s, c) ==
  /\ c \in shown
  /\ TakeReceivers(s)
  /\ LET waiting == {t \in Turns : turn[t] = "wait" /\ call[t] = c /\ pair[t] = entry}
     IN /\ turn' = [t \in Turns |-> IF t \in waiting THEN "running" ELSE turn[t]]
        /\ call' = [t \in Turns |-> IF t \in waiting THEN 0 ELSE call[t]]
        /\ loop' = [loop EXCEPT ![s] = IF waiting = {} THEN "error" ELSE "reading"]
  /\ UNCHANGED <<chanVars, stream, out, home, pair, events, deltas, calls, clientVars, closing>>

\* A send on the output of stream s.
Send(s, item) ==
  /\ stream[s] = "open" /\ Len(out[s]) < OutCap
  /\ out' = [out EXCEPT ![s] = Append(@, item)]

\* The loop sends the error before it reads on.
LoopError(s) ==
  /\ loop[s] = "error"
  /\ loop' = [loop EXCEPT ![s] = "reading"]
  /\ Send(s, Item("error", 0))
  /\ UNCHANGED <<pairVars, chanVars, stream, started, turnVars, calls, clientVars, closing>>

\* A cancel: cancel_turn does not touch the channels.
CancelInput(s) ==
  /\ TakeReceivers(s)
  /\ UNCHANGED <<chanVars, stream, loop, out, turnVars, calls, clientVars, closing>>

\* A forwarder of pair p takes an event from its channel,
ForwarderReceives(k, p) ==
  /\ attached[p] # NoStream /\ p \in alive[k]
  /\ hold[k][p] = 0 /\ buffer[k][p] # <<>>
  /\ hold' = [hold EXCEPT ![k][p] = Head(buffer[k][p])]
  /\ buffer' = [buffer EXCEPT ![k][p] = Tail(@)]
  /\ UNCHANGED <<pairVars, alive, streamVars, out, turnVars, calls, clientVars, closing>>

\* mutant: the event is thrown away when the output is full
ForwarderSendsOrDrops(k, p) ==
  /\ hold[k][p] # 0
  /\ stream[attached[p]] = "open"
  /\ out' = IF Len(out[attached[p]]) < OutCap
              THEN [out EXCEPT ![attached[p]] = Append(@, Item(k, hold[k][p]))]
              ELSE out
  /\ hold' = [hold EXCEPT ![k][p] = 0]
  /\ UNCHANGED <<pairVars, alive, buffer, streamVars, turnVars, calls, clientVars, closing>>

\* sends it to its stream, waiting for room,
ForwarderSends(k, p) ==
  /\ hold[k][p] # 0
  /\ Send(attached[p], Item(k, hold[k][p]))
  /\ hold' = [hold EXCEPT ![k][p] = 0]
  /\ UNCHANGED <<pairVars, alive, buffer, streamVars, turnVars, calls, clientVars, closing>>

\* or finds the stream closed and ends, dropping the receiver.
ForwarderBreaks(k, p) ==
  /\ hold[k][p] # 0
  /\ stream[attached[p]] = "closed"
  /\ hold' = [hold EXCEPT ![k][p] = 0]
  /\ alive' = [alive EXCEPT ![k] = @ \ {p}]
  /\ buffer' = [buffer EXCEPT ![k][p] = <<>>]
  /\ UNCHANGED <<pairVars, streamVars, out, turnVars, calls, clientVars, closing>>

\* A forwarder also ends when its channel is empty and has no sender left.
ForwarderEnds(k, p) ==
  /\ attached[p] # NoStream /\ p \in alive[k]
  /\ hold[k][p] = 0 /\ buffer[k][p] = <<>>
  /\ entry # p /\ Busy(p) = {}
  /\ alive' = [alive EXCEPT ![k] = @ \ {p}]
  /\ UNCHANGED <<pairVars, buffer, hold, streamVars, out, turnVars, calls, clientVars, closing>>

\* The client reads its next output.
ClientReads(s) ==
  /\ stream[s] = "open" /\ out[s] # <<>>
  /\ out' = [out EXCEPT ![s] = Tail(@)]
  /\ shown' = IF Head(out[s]).kind = "card" THEN shown \cup {Head(out[s]).of} ELSE shown
  /\ finished' = IF Head(out[s]).kind = "final" THEN finished \cup {Head(out[s]).of} ELSE finished
  /\ UNCHANGED <<pairVars, chanVars, streamVars, turnVars, calls, closing>>

-----------------------------------------------------------------------------
(* A turn: handle_user_message and the worker behind it *)

\* Only one turn of an entry runs at a time.
StartTurn(t) ==
  /\ turn[t] = "queued"
  /\ entry # 0 /\ Busy(entry) = {}
  /\ turn' = [turn EXCEPT ![t] = "running"]
  /\ pair' = [pair EXCEPT ![t] = entry]
  /\ UNCHANGED <<pairVars, chanVars, streamVars, out, home, call, events, deltas, calls, clientVars, closing>>

TurnNotFound(t) ==
  /\ turn[t] = "queued" /\ entry = 0
  /\ turn' = [turn EXCEPT ![t] = "returned"]
  /\ UNCHANGED <<pairVars, chanVars, streamVars, out, home, pair, call, events, deltas, calls, clientVars, closing>>

\* An assistant event is put into the event channel if there is room.
EmitDelta(t) ==
  /\ turn[t] = "running" /\ deltas[t] < MaxDeltas
  /\ deltas' = [deltas EXCEPT ![t] = @ + 1]
  /\ events' = [events EXCEPT ![t] = IF @ < EventCap THEN @ + 1 ELSE @]
  /\ UNCHANGED <<pairVars, chanVars, streamVars, out, turn, home, pair, call, calls, clientVars, closing>>

\* A proxy tool is called: its card is built ...
CallProxy(t) ==
  /\ turn[t] = "running" /\ Len(calls) < MaxCalls
  /\ turn' = [turn EXCEPT ![t] = "dispatch"]
  /\ UNCHANGED <<pairVars, chanVars, streamVars, out, home, pair, call, events, deltas, calls, clientVars, closing>>

\* ... and sent, waiting for room in the channel,
Dispatch(t) ==
  /\ turn[t] = "dispatch" /\ Len(calls) < MaxCalls
  /\ pair[t] \in alive["card"] /\ Len(buffer["card"][pair[t]]) < InstrCap
  /\ calls' = Append(calls, [pair |-> pair[t], turn |-> t])
  /\ buffer' = [buffer EXCEPT !["card"][pair[t]] = Append(@, Len(calls) + 1)]
  /\ call' = [call EXCEPT ![t] = Len(calls) + 1]
  /\ turn' = [turn EXCEPT ![t] = "wait"]
  /\ UNCHANGED <<pairVars, alive, hold, streamVars, out, home, pair, events, deltas, clientVars, closing>>

\* or the receiver is gone and the tool fails.
DispatchFails(t) ==
  /\ turn[t] = "dispatch"
  /\ pair[t] \notin alive["card"]
  /\ turn' = [turn EXCEPT ![t] = "running"]
  /\ UNCHANGED <<pairVars, chanVars, streamVars, out, home, pair, call, events, deltas, calls, clientVars, closing>>

\* A wait that a cancel ends.
WaitCancelled(t) ==
  /\ turn[t] = "wait"
  /\ turn' = [turn EXCEPT ![t] = "running"]
  /\ call' = [call EXCEPT ![t] = 0]
  /\ UNCHANGED <<pairVars, chanVars, streamVars, out, home, pair, events, deltas, calls, clientVars, closing>>

\* A wait that the timer ends; the notice goes into the expiry channel.
WaitExpires(t) ==
  /\ turn[t] = "wait"
  /\ turn' = [turn EXCEPT ![t] = "expired"]
  /\ UNCHANGED <<pairVars, chanVars, streamVars, out, home, pair, call, events, deltas, calls, clientVars, closing>>

SendExpiry(t) ==
  /\ turn[t] = "expired"
  /\ IF pair[t] \in alive["expiry"]
       THEN /\ Len(buffer["expiry"][pair[t]]) < InstrCap
            /\ buffer' = [buffer EXCEPT !["expiry"][pair[t]] = Append(@, call[t])]
       ELSE UNCHANGED buffer
  /\ turn' = [turn EXCEPT ![t] = "running"]
  /\ call' = [call EXCEPT ![t] = 0]
  /\ UNCHANGED <<pairVars, alive, hold, streamVars, out, home, pair, events, deltas, calls, clientVars, closing>>

\* run_turn_streaming returns; the worker lets go of the entry and of event_tx.
TurnReturns(t) ==
  /\ turn[t] = "running"
  /\ turn' = [turn EXCEPT ![t] = "returned"]
  /\ UNCHANGED <<pairVars, chanVars, streamVars, out, home, pair, call, events, deltas, calls, clientVars, closing>>

\* The stream_forwarder task sends the next event ...
StreamEvent(t) ==
  /\ events[t] > 0
  /\ Send(home[t], Item("delta", t))
  /\ events' = [events EXCEPT ![t] = @ - 1]
  /\ UNCHANGED <<pairVars, chanVars, streamVars, turn, home, pair, call, deltas, calls, clientVars, closing>>

\* ... or ends because the stream has.
StreamEventFails(t) ==
  /\ events[t] > 0
  /\ stream[home[t]] = "closed"
  /\ events' = [events EXCEPT ![t] = 0]
  /\ UNCHANGED <<pairVars, chanVars, streamVars, out, turn, home, pair, call, deltas, calls, clientVars, closing>>

\* Mutant: the end is sent without waiting for the stream_forwarder.
FinalOutputAtOnce(t) ==
  /\ turn[t] = "returned"
  /\ IF stream[home[t]] = "closed" THEN UNCHANGED out ELSE Send(home[t], Item("final", t))
  /\ turn' = [turn EXCEPT ![t] = "answered"]
  /\ UNCHANGED <<pairVars, chanVars, streamVars, home, pair, call, events, deltas, calls, clientVars, closing>>

\* After the stream_forwarder: tool results and turn_complete, or the error.
FinalOutput(t) ==
  /\ turn[t] = "returned" /\ events[t] = 0
  /\ IF stream[home[t]] = "closed" THEN UNCHANGED out ELSE Send(home[t], Item("final", t))
  /\ turn' = [turn EXCEPT ![t] = "answered"]
  /\ UNCHANGED <<pairVars, chanVars, streamVars, home, pair, call, events, deltas, calls, clientVars, closing>>

-----------------------------------------------------------------------------
(* The specification *)

SessionStep ==
  \/ ResumeSession
  \/ \E p \in Pairs : ParkReceivers(p)
  \/ CloseBegin \/ CloseUsage \/ CloseRemove

ForwarderStep(k, p) ==
  ForwarderReceives(k, p) \/ ForwarderSends(k, p) \/ ForwarderBreaks(k, p) \/ ForwarderEnds(k, p)

\* Steps of a turn that only need the server and its output to move on.
TurnStep(t) ==
  \/ StartTurn(t) \/ TurnNotFound(t)
  \/ Dispatch(t) \/ DispatchFails(t) \/ SendExpiry(t) \/ TurnReturns(t)
  \/ StreamEvent(t) \/ StreamEventFails(t) \/ FinalOutput(t)

Next ==
  \/ SessionStep
  \/ \E s \in Streams :
       \/ OpenStream(s) \/ CloseStream(s) \/ LoopError(s) \/ CancelInput(s) \/ ClientReads(s)
       \/ \E t \in Turns : UserMessage(s, t)
       \/ \E c \in 1 .. MaxCalls : ProxyResult(s, c)
  \/ \E k \in Channels, p \in Pairs : ForwarderStep(k, p)
  \/ \E t \in Turns :
       TurnStep(t) \/ EmitDelta(t) \/ CallProxy(t) \/ WaitCancelled(t) \/ WaitExpires(t)

Spec == Init /\ [][Next]_vars

\* Tasks run, an open client reads what it is sent, and the operator answers a
\* card that is shown.  tokio serves the senders of a full channel in order of
\* arrival and the inbound messages of a stream are read in order, hence strong
\* fairness.  No timer, no cancel: the answer must come by itself.
Fairness ==
  /\ \A k \in Channels, p \in Pairs : SF_vars(ForwarderStep(k, p))
  /\ \A t \in Turns : SF_vars(TurnStep(t))
  /\ \A s \in Streams : WF_vars(ClientReads(s)) /\ SF_vars(LoopError(s))
  /\ \A c \in 1 .. MaxCalls : SF_vars(\E s \in Streams : ProxyResult(s, c) /\ loop' = loop)

FairSpec == Spec /\ Fairness

\* Streams and turns are interchangeable to the model checker; pairs and calls are
\* numbered.
Symmetry == Permutations(Streams) \cup Permutations(Turns)

-----------------------------------------------------------------------------
(* Properties *)

Calls == 1 .. Len(calls)

TypeOK ==
  /\ entry \in 0 .. MaxPairs /\ made \in Pairs /\ parking \subseteq Pairs
  /\ parked \in 0 .. MaxPairs
  /\ attached \in [Pairs -> Streams \cup {NoStream}]
  /\ alive \in [Channels -> SUBSET Pairs]
  /\ \A k \in Channels, p \in Pairs :
       /\ Len(buffer[k][p]) <= InstrCap
       /\ \A i \in 1 .. Len(buffer[k][p]) : buffer[k][p][i] \in Calls
       /\ hold[k][p] \in {0} \cup Calls
  /\ stream \in [Streams -> {"new", "open", "closed"}]
  /\ started \in [Streams -> BOOLEAN]
  /\ loop \in [Streams -> {"reading", "error", "awaiting"}]
  /\ \A s \in Streams : Len(out[s]) <= OutCap
  /\ turn \in [Turns -> {"unsent", "queued", "running", "dispatch", "wait", "expired", "returned", "answered"}]
  /\ home \in [Turns -> Streams \cup {NoStream}]
  /\ pair \in [Turns -> 0 .. MaxPairs]
  /\ call \in [Turns -> {0} \cup Calls]
  /\ events \in [Turns -> 0 .. EventCap]
  /\ deltas \in [Turns -> 0 .. MaxDeltas]
  /\ Len(calls) <= MaxCalls
  /\ shown \subseteq Calls /\ finished \subseteq Turns
  /\ closing \in {"no", "usage", "remove", "done"}

\* The number of places the card of call c is in: its channel, the hand of a
\* forwarder, the output of a stream, the client.
Holders(c) ==
  LET p == calls[c].pair
  IN Cardinality({i \in 1 .. Len(buffer["card"][p]) : buffer["card"][p][i] = c})
     + (IF hold["card"][p] = c THEN 1 ELSE 0)
     + Cardinality({at \in Streams \X (1 .. OutCap) :
                      at[2] <= Len(out[at[1]]) /\ out[at[1]][at[2]] = Item("card", c)})
     + (IF c \in shown THEN 1 ELSE 0)

Lost(c) == Holders(c) = 0

(* A card that was dispatched is in exactly one place until the client has it,
   and is lost only with the receivers: their stream has closed, or they were
   dropped while parked.  As long as the stream that took the receivers is open,
   every card of the session is on its way there (service.rs spawn_forwarders). *)
CardsConserved ==
  \A c \in Calls :
    LET p == calls[c].pair
    IN /\ Holders(c) <= 1
       /\ Lost(c) => IF attached[p] = NoStream THEN p \notin alive["card"]
                                               ELSE stream[attached[p]] = "closed"

(* The deltas of a turn come before its turn_complete or its error, and it has one
   such end: a client that has seen it has the whole answer and waits for no other
   (service.rs handle_user_message awaits the stream_forwarder before it sends the
   end).  Of cards and expiry notices the code promises no such order: they go to
   the client by the tasks of spawn_forwarders, which nothing waits for, and one of
   a wait that was cancelled or has expired may come when its turn is over. *)
OneEndAfterAllDeltas ==
  \A t \in Turns, s \in Streams : \A i \in 1 .. Len(out[s]) :
    out[s][i] \in {Item("delta", t), Item("final", t)} =>
      /\ t \notin finished
      /\ \A j \in 1 .. i - 1 : out[s][j] # Item("final", t)

(* A session outlives its stream: the card of a turn whose own stream is open
   is not lost because an earlier stream of the session has closed. *)
CardReachesItsTurnsStream ==
  \A c \in Calls : stream[home[calls[c].turn]] = "open" => ~Lost(c)

(* A user message on a stream that stays open is answered, proxy calls in the
   middle of it included, without the help of the 30-minute timer, unless the
   session is closed: a turn that starts a proxy call between the cancel and the
   removal of CloseSession is left with a card nobody can answer. *)
EveryMessageAnswered ==
  \A t \in Turns : turn[t] = "queued" ~>
    t \in finished \/ closing # "no" \/ \E s \in Streams : stream[s] = "closed"

\* Cards are neither lost nor doubled between a turn and its client.
ChatCardsSound ==
  /\ TypeOK
  /\ CardsConserved
=============================================================================
