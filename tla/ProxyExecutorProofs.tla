------------------------ MODULE ProxyExecutorProofs ------------------------
(***************************************************************************)
(* Invariance and refinement proofs for ProxyExecutor, for any number of   *)
(* calls, submissions and payloads and any channel capacities.             *)
(***************************************************************************)
EXTENDS ProxyExecutor, TLAPS

\* Elements of a queue.
Queued(q) == {q[n] : n \in DOMAIN q}

\* Calls that have returned.
Finished == {i \in Instr : i < next_seq \/ (i = next_seq /\ ~Active)}

\* A submission that owns, or has used, the sender of call i.
Holds(d, i) == dlv[d].stage \in {"send", "delivered"} /\ dlv[d].instr = i

\* Where the current call is, and what its channel and map entry look like.
CurrentCall ==
  /\ Active => next_seq \in Instr
  /\ pc = "register" => oneshot[next_seq] = "none"
  /\ pc \in {"dispatch", "abandon"} =>
       oneshot[next_seq] = "open" /\ next_seq \notin cards \cup Queued(instr_q)
  /\ pc = "register" => next_seq \notin cards \cup Queued(instr_q)
  /\ pc \in Polling \cup {"drop_rx"} => oneshot[next_seq] \in {"open", "filled"}
  /\ pc \in {"cleanup", "expire"} => oneshot[next_seq] \in {"taken", "closed"}
  /\ pc = "cleanup" => outcome \in {Cancelled, TimedOut, Result(slot[next_seq])}
  /\ pc = "drop_rx" => outcome \in {Cancelled, TimedOut}
  /\ pc = "cleanup" /\ outcome \notin {Cancelled, TimedOut}
       => slot[next_seq] \in Payloads

\* The map holds nothing but the current call, and only while it is waiting.
PendingInv ==
  /\ pending \subseteq {next_seq}
  /\ pending # {} => pc \in Polling \cup {"dispatch", "abandon", "drop_rx", "cleanup"}

\* Calls that have returned, and calls not made yet.
OtherCalls ==
  /\ \A i \in Finished : /\ oneshot[i] \in {"taken", "closed"}
                         /\ returned[i] # Undecided
  /\ \A i \in Instr \ Finished : returned[i] = Undecided
  /\ \A i \in Instr : i > next_seq => /\ oneshot[i] = "none"
                                      /\ i \notin cards \cup Queued(instr_q)

\* The sender of a call moves from the map to one submission, which fills the
\* slot once.
SenderInv ==
  /\ \A d \in Deliveries :
       dlv[d].stage # "unused" => dlv[d].instr \in cards /\ dlv[d].payload \in Payloads
  /\ \A d \in Deliveries : \A i \in Instr : Holds(d, i) => i \notin pending
  /\ \A d, e \in Deliveries : \A i \in Instr : Holds(d, i) /\ Holds(e, i) => d = e
  /\ \A d \in Deliveries : dlv[d].stage = "delivered" => slot[dlv[d].instr] = dlv[d].payload
  /\ \A i \in Instr : slot[i] # NoPayload =>
       \E d \in Deliveries : /\ dlv[d].stage = "delivered"
                             /\ dlv[d].instr = i
                             /\ dlv[d].payload = slot[i]
  /\ \A i \in Instr : oneshot[i] \in {"filled", "taken"} => slot[i] \in Payloads
  /\ \A i \in Instr : oneshot[i] \in {"none", "open"} => slot[i] = NoPayload
  /\ \A i \in Instr : oneshot[i] # "sender_dropped"

\* What a returned call says about its answer, its card and its expiry.
ReturnInv ==
  /\ \A i \in Instr : \A p \in Payloads : returned[i] = Result(p) => slot[i] = p
  /\ \A i \in Instr : returned[i] = NotDispatched => i \notin cards \cup Queued(instr_q)
  /\ \A i \in Instr : returned[i] # Disconnected
  /\ \A i \in expired \cup Queued(timeout_q) : returned[i] = TimedOut

IInv == TypeOK /\ CurrentCall /\ PendingInv /\ OtherCalls /\ SenderInv /\ ReturnInv

-----------------------------------------------------------------------------
(* Facts about the operators the model is built from *)

\* A queue of instructions stays one, and Queued follows Append and Tail.
LEMMA QueueFacts ==
  ASSUME NEW S, NEW q \in Seq(S)
  PROVE  /\ Queued(q) \subseteq S
         /\ <<>> \in Seq(S) /\ Queued(<<>>) = {}
         /\ \A x \in S : /\ Append(q, x) \in Seq(S)
                         /\ Queued(Append(q, x)) = Queued(q) \cup {x}
         /\ q # <<>> => /\ Tail(q) \in Seq(S)
                        /\ Head(q) \in Queued(q) /\ Head(q) \in S
                        /\ Queued(Tail(q)) \subseteq Queued(q)
<1>1. Queued(q) \subseteq S
  BY DEF Queued
<1>2. <<>> \in Seq(S) /\ Queued(<<>>) = {}
  BY DEF Queued
<1>3. ASSUME NEW x \in S
      PROVE  Append(q, x) \in Seq(S) /\ Queued(Append(q, x)) = Queued(q) \cup {x}
  <2>1. Append(q, x) \in Seq(S) /\ DOMAIN Append(q, x) = 1 .. (Len(q) + 1)
    OBVIOUS
  <2>2. Append(q, x)[Len(q) + 1] = x /\ \A n \in 1 .. Len(q) : Append(q, x)[n] = q[n]
    OBVIOUS
  <2>3. DOMAIN q = 1 .. Len(q) /\ Len(q) \in Nat
    OBVIOUS
  <2> QED
    BY <2>1, <2>2, <2>3 DEF Queued
<1>4. ASSUME q # <<>>
      PROVE  /\ Tail(q) \in Seq(S)
             /\ Head(q) \in Queued(q) /\ Head(q) \in S
             /\ Queued(Tail(q)) \subseteq Queued(q)
  <2>1. Tail(q) \in Seq(S) /\ Len(q) \in Nat \ {0} /\ DOMAIN q = 1 .. Len(q)
    BY <1>4
  <2>2. DOMAIN Tail(q) = 1 .. (Len(q) - 1)
    BY <1>4, <2>1
  <2>3. Head(q) = q[1] /\ \A n \in 1 .. (Len(q) - 1) : Tail(q)[n] = q[n + 1]
    BY <1>4, <2>1
  <2>4. Head(q) \in Queued(q)
    BY <2>1, <2>3 DEF Queued
  <2>5. Queued(Tail(q)) \subseteq Queued(q)
    BY <2>1, <2>2, <2>3 DEF Queued
  <2> QED
    BY <1>1, <2>1, <2>4, <2>5
<1> QED
  BY <1>1, <1>2, <1>3, <1>4

\* The outcomes of a call are outcomes, and tell each other apart.
LEMMA OutcomeFacts ==
  /\ {Cancelled, TimedOut, Disconnected, NotDispatched, Undecided} \subseteq Outcomes
  /\ \A p \in Payloads : Result(p) \in Outcomes
  /\ \A p, r : Result(p) = Result(r) => p = r
  /\ \A p : Result(p) \notin {Cancelled, TimedOut, Disconnected, NotDispatched, Undecided}
  /\ Cancelled \notin {TimedOut, Disconnected, NotDispatched, Undecided}
  /\ TimedOut \notin {Disconnected, NotDispatched, Undecided}
  /\ Disconnected \notin {NotDispatched, Undecided}
  /\ NotDispatched # Undecided
BY DEF Outcomes, Result, Cancelled, TimedOut, Disconnected, NotDispatched, Undecided


-----------------------------------------------------------------------------
(* Every action preserves IInv *)

\* ExecuteBegin preserves the inductive invariant.
LEMMA ExecuteBeginStep ==
  ASSUME IInv, ExecuteBegin
  PROVE  IInv'
<1>1. TypeOK'
  BY BoundsAssumption, PayloadAssumption, OutcomeFacts DEF IInv, ExecuteBegin,
     channelVars, queueVars, uiVars, cancelVars, Active, Polling, Instr, TypeOK,
     CurrentCall, SenderInv, PCs, Stages
<1>2. CurrentCall'
  BY BoundsAssumption, PayloadAssumption, OutcomeFacts DEF IInv, ExecuteBegin,
     channelVars, queueVars, uiVars, Active, Polling, Instr, TypeOK, CurrentCall,
     OtherCalls, PendingInv, SenderInv, Finished, Holds
<1>3. PendingInv'
  BY OutcomeFacts DEF IInv, PendingInv, Polling, ExecuteBegin, channelVars
<1>4. OtherCalls'
  BY OutcomeFacts DEF IInv, OtherCalls, Finished, Active, ExecuteBegin, channelVars,
     queueVars, uiVars, TypeOK, CurrentCall, Polling, Instr
<1>5. SenderInv'
  BY DEF IInv, SenderInv, ExecuteBegin, channelVars, uiVars, Holds
<1>6. ReturnInv'
  BY DEF IInv, ReturnInv, ExecuteBegin, channelVars, queueVars, uiVars
<1> QED
  BY <1>1, <1>2, <1>3, <1>4, <1>5, <1>6 DEF IInv

\* Register preserves the inductive invariant.
LEMMA RegisterStep ==
  ASSUME IInv, Register
  PROVE  IInv'
<1>1. TypeOK'
  BY OutcomeFacts DEF IInv, TypeOK, Register, queueVars, uiVars, cancelVars,
     CurrentCall, Active, Polling, Instr, PCs, Stages
<1>2. CurrentCall'
  BY OutcomeFacts DEF IInv, CurrentCall, Active, Polling, Register, queueVars, uiVars,
     TypeOK, Instr
<1>3. PendingInv'
  BY DEF IInv, PendingInv, Register
<1>4. OtherCalls'
  BY DEF IInv, OtherCalls, Register, queueVars, uiVars, Finished, Active
<1>5. SenderInv'
  BY OutcomeFacts DEF IInv, SenderInv, Holds, Register, uiVars, TypeOK, CurrentCall,
     Active, Polling, Instr
<1>6. ReturnInv'
  BY DEF IInv, ReturnInv, Register, queueVars, uiVars
<1> QED
  BY <1>1, <1>2, <1>3, <1>4, <1>5, <1>6 DEF IInv

\* Dispatch preserves the inductive invariant.
LEMMA DispatchStep ==
  ASSUME IInv, Dispatch
  PROVE  IInv'
<1>q. /\ Append(instr_q, next_seq) \in Seq(Instr)
      /\ Queued(Append(instr_q, next_seq)) = Queued(instr_q) \cup {next_seq}
  BY QueueFacts DEF IInv, TypeOK, CurrentCall, Active, Dispatch
<1>1. TypeOK'
  BY OutcomeFacts, <1>q DEF IInv, TypeOK, Dispatch, channelVars, uiVars, cancelVars,
     CurrentCall, Active, Polling, Instr, PCs, Stages
<1>2. CurrentCall'
  BY <1>q DEF IInv, CurrentCall, Dispatch, channelVars, uiVars, Active
<1>3. PendingInv'
  BY OutcomeFacts DEF IInv, PendingInv, Polling, Dispatch, channelVars
<1>4. OtherCalls'
  BY <1>q DEF IInv, OtherCalls, Dispatch, channelVars, uiVars, Finished, Active
<1>5. SenderInv'
  BY DEF IInv, SenderInv, Dispatch, channelVars, uiVars, Holds
<1>6. ReturnInv'
  BY BoundsAssumption, PayloadAssumption, OutcomeFacts, <1>q DEF IInv, Dispatch,
     channelVars, uiVars, Active, Polling, Instr, TypeOK, CurrentCall, OtherCalls,
     SenderInv, ReturnInv, Finished
<1> QED
  BY <1>1, <1>2, <1>3, <1>4, <1>5, <1>6 DEF IInv

\* DispatchFail preserves the inductive invariant.
LEMMA DispatchFailStep ==
  ASSUME IInv, DispatchFail
  PROVE  IInv'
<1>1. TypeOK'
  BY OutcomeFacts DEF IInv, TypeOK, DispatchFail, channelVars, queueVars, uiVars,
     cancelVars, PCs
<1>2. CurrentCall'
  BY DEF IInv, CurrentCall, DispatchFail, channelVars, queueVars, uiVars, Active
<1>3. PendingInv'
  BY DEF IInv, PendingInv, DispatchFail, channelVars
<1>4. OtherCalls'
  BY DEF IInv, OtherCalls, DispatchFail, channelVars, queueVars, uiVars, Finished,
     Active
<1>5. SenderInv'
  BY DEF IInv, SenderInv, DispatchFail, channelVars, uiVars, Holds
<1>6. ReturnInv'
  BY DEF IInv, ReturnInv, DispatchFail, channelVars, queueVars, uiVars
<1> QED
  BY <1>1, <1>2, <1>3, <1>4, <1>5, <1>6 DEF IInv

\* Abandon preserves the inductive invariant.
LEMMA AbandonStep ==
  ASSUME IInv, Abandon
  PROVE  IInv'
<1>1. TypeOK'
  BY OutcomeFacts DEF IInv, TypeOK, Abandon, Return, queueVars, uiVars, cancelVars,
     PCs
<1>2. CurrentCall'
  BY OutcomeFacts DEF IInv, CurrentCall, Active, Polling, Abandon, Return, queueVars,
     uiVars
<1>3. PendingInv'
  BY DEF IInv, PendingInv, Abandon, Return
<1>4. OtherCalls'
  BY OutcomeFacts DEF IInv, OtherCalls, Finished, Active, Abandon, Return, queueVars,
     uiVars, TypeOK, CurrentCall, Polling, Instr
<1>5. SenderInv'
  BY DEF IInv, SenderInv, Abandon, Return, uiVars, Holds
<1>6. ReturnInv'
  BY BoundsAssumption, PayloadAssumption, OutcomeFacts DEF IInv, Abandon, Return,
     queueVars, uiVars, Active, Polling, Instr, TypeOK, CurrentCall, OtherCalls,
     SenderInv, ReturnInv, Finished
<1> QED
  BY <1>1, <1>2, <1>3, <1>4, <1>5, <1>6 DEF IInv

\* PollCancel preserves the inductive invariant.
LEMMA PollCancelStep ==
  ASSUME IInv, PollCancel
  PROVE  IInv'
<1>1. TypeOK'
  BY OutcomeFacts DEF IInv, TypeOK, PollCancel, channelVars, queueVars, uiVars,
     cancelVars, CurrentCall, Active, Polling, Instr, PCs, Stages
<1>2. CurrentCall'
  BY OutcomeFacts DEF IInv, CurrentCall, Active, Polling, PollCancel, channelVars,
     queueVars, uiVars
<1>3. PendingInv'
  BY OutcomeFacts DEF IInv, PendingInv, Polling, PollCancel, channelVars
<1>4. OtherCalls'
  BY DEF IInv, OtherCalls, PollCancel, channelVars, queueVars, uiVars, Finished,
     Active
<1>5. SenderInv'
  BY DEF IInv, SenderInv, PollCancel, channelVars, uiVars, Holds
<1>6. ReturnInv'
  BY DEF IInv, ReturnInv, PollCancel, channelVars, queueVars, uiVars
<1> QED
  BY <1>1, <1>2, <1>3, <1>4, <1>5, <1>6 DEF IInv

\* PollResult preserves the inductive invariant.
LEMMA PollResultStep ==
  ASSUME IInv, PollResult
  PROVE  IInv'
<1>1. TypeOK'
  <2>1. CASE oneshot[next_seq] = "filled"
    BY <2>1, OutcomeFacts, SMTT(30) DEF IInv, TypeOK, CurrentCall, SenderInv, PollResult, Active,
       PCs, Polling, execVars, queueVars, uiVars, cancelVars
  <2>2. CASE oneshot[next_seq] # "filled"
    BY <2>2 DEF IInv, TypeOK, CurrentCall, SenderInv, PollResult, Active, PCs,
       Polling, execVars, queueVars, uiVars, cancelVars
  <2> QED
    BY <2>1, <2>2
<1>2. CurrentCall'
  BY BoundsAssumption, PayloadAssumption, OutcomeFacts DEF IInv, PollResult,
     queueVars, uiVars, Active, Polling, Instr, TypeOK, CurrentCall, OtherCalls,
     PendingInv, SenderInv, Finished, Holds
<1>3. PendingInv'
  BY OutcomeFacts DEF IInv, PendingInv, Polling, PollResult
<1>4. OtherCalls'
  BY OutcomeFacts DEF IInv, OtherCalls, Finished, Active, PollResult, queueVars,
     uiVars, TypeOK, CurrentCall, Polling, Instr
<1>5. SenderInv'
  BY BoundsAssumption, PayloadAssumption, OutcomeFacts DEF IInv, PollResult, uiVars,
     Active, Polling, Instr, TypeOK, CurrentCall, PendingInv, OtherCalls, SenderInv,
     Finished, Holds
<1>6. ReturnInv'
  BY DEF IInv, ReturnInv, PollResult, queueVars, uiVars
<1> QED
  BY <1>1, <1>2, <1>3, <1>4, <1>5, <1>6 DEF IInv

\* PollTimer preserves the inductive invariant.
LEMMA PollTimerStep ==
  ASSUME IInv, PollTimer
  PROVE  IInv'
<1>1. TypeOK'
  BY OutcomeFacts DEF IInv, TypeOK, PollTimer, channelVars, queueVars, uiVars,
     cancelVars, CurrentCall, Active, Polling, Instr, PCs, Stages
<1>2. CurrentCall'
  BY OutcomeFacts DEF IInv, CurrentCall, Active, Polling, PollTimer, channelVars,
     queueVars, uiVars
<1>3. PendingInv'
  BY OutcomeFacts DEF IInv, PendingInv, Polling, PollTimer, channelVars
<1>4. OtherCalls'
  BY DEF IInv, OtherCalls, PollTimer, channelVars, queueVars, uiVars, Finished, Active
<1>5. SenderInv'
  BY DEF IInv, SenderInv, PollTimer, channelVars, uiVars, Holds
<1>6. ReturnInv'
  BY DEF IInv, ReturnInv, PollTimer, channelVars, queueVars, uiVars
<1> QED
  BY <1>1, <1>2, <1>3, <1>4, <1>5, <1>6 DEF IInv

\* TimerElapsed preserves the inductive invariant.
LEMMA TimerElapsedStep ==
  ASSUME IInv, TimerElapsed
  PROVE  IInv'
<1>1. TypeOK'
  BY OutcomeFacts DEF IInv, TypeOK, TimerElapsed, channelVars, queueVars, uiVars,
     cancelVars, PCs
<1>2. CurrentCall'
  BY OutcomeFacts DEF IInv, CurrentCall, Active, Polling, TimerElapsed, channelVars,
     queueVars, uiVars
<1>3. PendingInv'
  BY DEF IInv, PendingInv, TimerElapsed, channelVars
<1>4. OtherCalls'
  BY DEF IInv, OtherCalls, TimerElapsed, channelVars, queueVars, uiVars, Finished,
     Active
<1>5. SenderInv'
  BY DEF IInv, SenderInv, TimerElapsed, channelVars, uiVars, Holds
<1>6. ReturnInv'
  BY DEF IInv, ReturnInv, TimerElapsed, channelVars, queueVars, uiVars
<1> QED
  BY <1>1, <1>2, <1>3, <1>4, <1>5, <1>6 DEF IInv

\* DropReceiver preserves the inductive invariant.
LEMMA DropReceiverStep ==
  ASSUME IInv, DropReceiver
  PROVE  IInv'
<1>1. TypeOK'
  BY OutcomeFacts DEF IInv, TypeOK, DropReceiver, queueVars, uiVars, cancelVars, PCs
<1>2. CurrentCall'
  BY OutcomeFacts DEF IInv, CurrentCall, Active, Polling, DropReceiver, queueVars,
     uiVars, TypeOK, Instr
<1>3. PendingInv'
  BY DEF IInv, PendingInv, DropReceiver
<1>4. OtherCalls'
  BY DEF IInv, OtherCalls, DropReceiver, queueVars, uiVars, Finished, Active
<1>5. SenderInv'
  BY DEF IInv, SenderInv, DropReceiver, uiVars, Holds
<1>6. ReturnInv'
  BY DEF IInv, ReturnInv, DropReceiver, queueVars, uiVars
<1> QED
  BY <1>1, <1>2, <1>3, <1>4, <1>5, <1>6 DEF IInv

\* Cleanup preserves the inductive invariant.
LEMMA CleanupStep ==
  ASSUME IInv, Cleanup
  PROVE  IInv'
<1>1. TypeOK'
  BY OutcomeFacts DEF IInv, TypeOK, Cleanup, Return, DropSender, queueVars, uiVars,
     cancelVars, PCs
<1>2. CurrentCall'
  BY OutcomeFacts DEF IInv, CurrentCall, Active, Polling, Cleanup, Return, DropSender,
     queueVars, uiVars
<1>3. PendingInv'
  BY DEF IInv, PendingInv, Cleanup, Return, DropSender
<1>4. OtherCalls'
  BY OutcomeFacts DEF IInv, OtherCalls, Finished, Active, Cleanup, Return, DropSender,
     queueVars, uiVars, TypeOK, CurrentCall, Polling, Instr
<1>5. SenderInv'
  BY OutcomeFacts DEF IInv, SenderInv, Holds, Cleanup, Return, DropSender, uiVars,
     TypeOK, CurrentCall, Active, Polling, Instr
<1>6. ReturnInv'
  <2>1. CASE outcome = TimedOut
    BY <2>1 DEF IInv, Cleanup, TypeOK, ReturnInv, queueVars, uiVars
  <2>2. CASE outcome # TimedOut
    <3>1. /\ next_seq \in Instr /\ returned \in [Instr -> Outcomes]
          /\ returned' = [returned EXCEPT ![next_seq] = outcome]
          /\ returned[next_seq] = Undecided
      BY <2>2 DEF IInv, Cleanup, Return, TypeOK, CurrentCall, OtherCalls, Finished, Active
    <3>2. outcome \in {Cancelled, Result(slot[next_seq])}
      BY <2>2 DEF IInv, Cleanup, CurrentCall
    <3>3. UNCHANGED <<slot, cards, instr_q, expired, timeout_q>>
      BY DEF Cleanup, queueVars, uiVars
    <3>4. \A i \in expired \cup Queued(timeout_q) : i # next_seq
      BY <3>1, OutcomeFacts DEF IInv, ReturnInv
    <3> QED
      BY <3>1, <3>2, <3>3, <3>4, OutcomeFacts, QueueFacts DEF IInv, TypeOK, ReturnInv
  <2> QED
    BY <2>1, <2>2
<1> QED
  BY <1>1, <1>2, <1>3, <1>4, <1>5, <1>6 DEF IInv

\* Expire preserves the inductive invariant.
LEMMA ExpireStep ==
  ASSUME IInv, Expire
  PROVE  IInv'
<1>q. /\ Append(timeout_q, next_seq) \in Seq(Instr)
      /\ Queued(Append(timeout_q, next_seq)) = Queued(timeout_q) \cup {next_seq}
  BY QueueFacts DEF IInv, TypeOK, CurrentCall, Active, Expire
<1>1. TypeOK'
  BY OutcomeFacts, <1>q DEF IInv, TypeOK, Expire, Return, channelVars, uiVars,
     cancelVars, PCs
<1>2. CurrentCall'
  BY OutcomeFacts DEF IInv, CurrentCall, Active, Polling, Expire, Return, channelVars,
     uiVars
<1>3. PendingInv'
  BY OutcomeFacts DEF IInv, PendingInv, Polling, Expire, Return, channelVars
<1>4. OtherCalls'
  BY OutcomeFacts DEF IInv, OtherCalls, Finished, Active, Expire, Return, channelVars,
     uiVars, TypeOK, CurrentCall, Polling, Instr
<1>5. SenderInv'
  BY DEF IInv, SenderInv, Expire, Return, channelVars, uiVars, Holds
<1>6. ReturnInv'
  BY OutcomeFacts, <1>q DEF IInv, ReturnInv, Expire, Return, channelVars, uiVars,
     TypeOK, CurrentCall, Active, Polling, Instr
<1> QED
  BY <1>1, <1>2, <1>3, <1>4, <1>5, <1>6 DEF IInv

\* DeliverCall(d) preserves the inductive invariant.
LEMMA DeliverCallStep ==
  ASSUME IInv, NEW d \in Deliveries, DeliverCall(d)
  PROVE  IInv'
<1>1. TypeOK'
  BY OutcomeFacts DEF IInv, TypeOK, DeliverCall, execVars, channelVars, queueVars,
     uiVars, cancelVars, CurrentCall, Active, Polling, Instr, PCs, Stages
<1>2. CurrentCall'
  BY DEF IInv, CurrentCall, DeliverCall, execVars, channelVars, queueVars, uiVars,
     Active
<1>3. PendingInv'
  BY DEF IInv, PendingInv, DeliverCall, execVars, channelVars
<1>4. OtherCalls'
  BY DEF IInv, OtherCalls, DeliverCall, execVars, channelVars, queueVars, uiVars,
     Finished, Active
<1>5. SenderInv'
  BY DEF IInv, SenderInv, DeliverCall, channelVars, uiVars, Holds
<1>6. ReturnInv'
  BY DEF IInv, ReturnInv, DeliverCall, execVars, channelVars, queueVars, uiVars
<1> QED
  BY <1>1, <1>2, <1>3, <1>4, <1>5, <1>6 DEF IInv

\* DeliverRemove(d) preserves the inductive invariant.
LEMMA DeliverRemoveStep ==
  ASSUME IInv, NEW d \in Deliveries, DeliverRemove(d)
  PROVE  IInv'
<1>d. /\ \A e \in Deliveries : /\ dlv'[e].instr = dlv[e].instr
                               /\ dlv'[e].payload = dlv[e].payload
                               /\ e # d => dlv'[e].stage = dlv[e].stage
      /\ dlv'[d].stage \in {"send", "rejected"}
      /\ dlv'[d].stage = "send" <=> dlv[d].instr \in pending
      /\ dlv' \in [Deliveries -> [stage : Stages, instr : 0 .. MaxSeq,
                                  payload : Payloads \cup {NoPayload}]]
  BY ZenonT(30) DEF IInv, DeliverRemove, TypeOK, Stages
<1>i. dlv[d].instr \in Instr
  BY DEF IInv, DeliverRemove, TypeOK, SenderInv
<1>1. TypeOK'
  BY <1>d DEF IInv, TypeOK, DeliverRemove, execVars, queueVars, uiVars, cancelVars
<1>2. CurrentCall'
  BY <1>d, <1>i DEF IInv, CurrentCall, DeliverRemove, execVars, queueVars, uiVars,
     Active
<1>3. PendingInv'
  BY <1>d, <1>i DEF IInv, PendingInv, DeliverRemove, execVars
<1>4. OtherCalls'
  BY <1>d, <1>i DEF IInv, OtherCalls, DeliverRemove, execVars, queueVars, uiVars,
     Finished, Active
<1>5. SenderInv'
  <2>1. \A e \in Deliveries : \A j \in Instr : Holds(e, j)' => j \notin pending'
    BY <1>d, <1>i DEF IInv, SenderInv, Holds, DeliverRemove
  <2>2. \A e, f \in Deliveries : \A j \in Instr : Holds(e, j)' /\ Holds(f, j)' => e = f
    BY <1>d, <1>i DEF IInv, SenderInv, Holds, DeliverRemove
  <2>3. \A e \in Deliveries : dlv'[e].stage = "delivered" <=> dlv[e].stage = "delivered"
    BY <1>d DEF DeliverRemove
  <2> QED
    BY <1>d, <2>1, <2>2, <2>3 DEF IInv, SenderInv, DeliverRemove, uiVars
<1>6. ReturnInv'
  BY <1>d, <1>i DEF IInv, ReturnInv, DeliverRemove, execVars, queueVars, uiVars
<1> QED
  BY <1>1, <1>2, <1>3, <1>4, <1>5, <1>6 DEF IInv

\* DeliverSend(d) preserves the inductive invariant.
LEMMA DeliverSendStep ==
  ASSUME IInv, NEW d \in Deliveries, DeliverSend(d)
  PROVE  IInv'
<1>s. PICK r \in {"delivered", "rejected"} :
        /\ dlv' = [dlv EXCEPT ![d].stage = r]
        /\ r = "delivered" <=> oneshot[dlv[d].instr] = "open"
  BY DEF DeliverSend
<1>d. /\ \A e \in Deliveries : /\ dlv'[e].instr = dlv[e].instr
                               /\ dlv'[e].payload = dlv[e].payload
                               /\ e # d => dlv'[e].stage = dlv[e].stage
      /\ dlv'[d].stage \in {"delivered", "rejected"}
      /\ dlv'[d].stage = "delivered" <=> oneshot[dlv[d].instr] = "open"
      /\ dlv' \in [Deliveries -> [stage : Stages, instr : 0 .. MaxSeq,
                                  payload : Payloads \cup {NoPayload}]]
  BY <1>s, ZenonT(30) DEF IInv, DeliverSend, TypeOK, Stages
<1>i. dlv[d].instr \in Instr
  BY DEF IInv, DeliverSend, TypeOK, SenderInv
<1>n. oneshot[dlv[d].instr] = "open" => dlv[d].instr = next_seq /\ Active
  BY <1>i DEF IInv, TypeOK, OtherCalls, Finished, Instr, Active
<1>1. TypeOK'
  <2>1. /\ slot' \in [Instr -> Payloads \cup {NoPayload}]
        /\ oneshot' \in [Instr -> {"none", "open", "filled", "taken", "closed",
                                   "sender_dropped"}]
    <3>1. dlv[d].payload \in Payloads
      BY DEF IInv, SenderInv, DeliverSend
    <3>2. \/ UNCHANGED <<oneshot, slot>>
          \/ /\ oneshot' = [oneshot EXCEPT ![dlv[d].instr] = "filled"]
             /\ slot' = [slot EXCEPT ![dlv[d].instr] = dlv[d].payload]
      BY DEF DeliverSend
    <3> QED
      BY <3>1, <3>2 DEF IInv, TypeOK
  <2> QED
    BY <1>d, <2>1 DEF IInv, TypeOK, DeliverSend, execVars, queueVars, uiVars, cancelVars
<1>2. CurrentCall'
  BY BoundsAssumption, PayloadAssumption, OutcomeFacts, <1>d, <1>i DEF IInv,
     DeliverSend, execVars, queueVars, uiVars, Active, Polling, Instr, TypeOK,
     CurrentCall, OtherCalls, PendingInv, SenderInv, Finished, Holds
<1>3. PendingInv'
  BY <1>d, <1>i DEF IInv, PendingInv, DeliverSend, execVars
<1>4. OtherCalls'
  BY <1>i, <1>n DEF IInv, TypeOK, DeliverSend, OtherCalls, Finished, Active, Instr,
     execVars, queueVars, uiVars
<1>5. SenderInv'
  <2>1. CASE oneshot[dlv[d].instr] = "open"
    <3>1. /\ slot' = [slot EXCEPT ![dlv[d].instr] = dlv[d].payload]
          /\ oneshot' = [oneshot EXCEPT ![dlv[d].instr] = "filled"]
          /\ slot[dlv[d].instr] = NoPayload
          /\ dlv[d].payload \in Payloads
          /\ dlv'[d].stage = "delivered"
          /\ UNCHANGED <<pending, cards>>
      BY <1>d, <1>i, <2>1 DEF IInv, SenderInv, DeliverSend, uiVars
    <3>2. \A e \in Deliveries : \A j \in Instr : Holds(e, j)' <=> Holds(e, j)
      BY <1>d, <3>1 DEF Holds, DeliverSend
    <3>3. \A e \in Deliveries : dlv[e].stage = "delivered" => dlv[e].instr # dlv[d].instr
      BY <1>i, <2>1, <3>1, PayloadAssumption DEF IInv, SenderInv, TypeOK
    <3>4. \A e \in Deliveries : dlv'[e].stage = "delivered" => slot'[dlv'[e].instr] = dlv'[e].payload
      <4> SUFFICES ASSUME NEW e \in Deliveries, dlv'[e].stage = "delivered"
                   PROVE  slot'[dlv'[e].instr] = dlv'[e].payload
        OBVIOUS
      <4>1. CASE e = d
        BY <1>d, <1>i, <3>1, <4>1 DEF IInv, TypeOK
      <4>2. CASE e # d
        BY <1>d, <1>i, <3>1, <3>3, <4>2 DEF IInv, SenderInv, TypeOK
      <4> QED
        BY <4>1, <4>2
    <3>5. \A j \in Instr : slot'[j] # NoPayload =>
            \E e \in Deliveries : /\ dlv'[e].stage = "delivered"
                                  /\ dlv'[e].instr = j
                                  /\ dlv'[e].payload = slot'[j]
      BY <1>d, <1>i, <3>1, SMTT(30) DEF IInv, SenderInv, TypeOK
    <3>6. \A j \in Instr : /\ oneshot'[j] \in {"filled", "taken"} => slot'[j] \in Payloads
                           /\ oneshot'[j] \in {"none", "open"} => slot'[j] = NoPayload
                           /\ oneshot'[j] # "sender_dropped"
      BY <1>i, <3>1 DEF IInv, SenderInv, TypeOK
    <3>7. \A e \in Deliveries : dlv'[e].stage # "unused" =>
            dlv'[e].instr \in cards' /\ dlv'[e].payload \in Payloads
      BY <1>d, <3>1 DEF IInv, SenderInv, DeliverSend
    <3>8. \A e, f \in Deliveries : \A j \in Instr : Holds(e, j)' /\ Holds(f, j)' => e = f
      BY <3>2 DEF IInv, SenderInv
    <3>9. \A e \in Deliveries : \A j \in Instr : Holds(e, j)' => j \notin pending'
      BY <3>1, <3>2 DEF IInv, SenderInv
    <3> QED
      BY <3>4, <3>5, <3>6, <3>7, <3>8, <3>9 DEF SenderInv
  <2>2. CASE oneshot[dlv[d].instr] # "open"
    <3>1. /\ UNCHANGED <<oneshot, slot, pending, cards>>
          /\ dlv'[d].stage = "rejected" /\ dlv[d].stage = "send"
      BY <1>d, <2>2 DEF DeliverSend, uiVars
    <3> QED
      BY <1>d, <3>1 DEF IInv, SenderInv, Holds
  <2> QED
    BY <2>1, <2>2
<1>6. ReturnInv'
  BY BoundsAssumption, PayloadAssumption, OutcomeFacts, <1>d, <1>i DEF IInv,
     DeliverSend, execVars, queueVars, uiVars, Active, Polling, Instr, TypeOK,
     CurrentCall, OtherCalls, SenderInv, ReturnInv, Finished
<1> QED
  BY <1>1, <1>2, <1>3, <1>4, <1>5, <1>6 DEF IInv

\* CancelFlag preserves the inductive invariant.
LEMMA CancelFlagStep ==
  ASSUME IInv, CancelFlag
  PROVE  IInv'
<1>1. TypeOK'
  BY DEF IInv, TypeOK, CancelFlag, execVars, channelVars, queueVars, uiVars
<1>2. CurrentCall'
  BY DEF IInv, CurrentCall, CancelFlag, execVars, channelVars, queueVars, uiVars,
     Active
<1>3. PendingInv'
  BY DEF IInv, PendingInv, CancelFlag, execVars, channelVars
<1>4. OtherCalls'
  BY DEF IInv, OtherCalls, CancelFlag, execVars, channelVars, queueVars, uiVars,
     Finished, Active
<1>5. SenderInv'
  BY DEF IInv, SenderInv, CancelFlag, channelVars, uiVars, Holds
<1>6. ReturnInv'
  BY DEF IInv, ReturnInv, CancelFlag, execVars, channelVars, queueVars, uiVars
<1> QED
  BY <1>1, <1>2, <1>3, <1>4, <1>5, <1>6 DEF IInv

\* CancelToken preserves the inductive invariant.
LEMMA CancelTokenStep ==
  ASSUME IInv, CancelToken
  PROVE  IInv'
<1>1. TypeOK'
  BY DEF IInv, TypeOK, CancelToken, execVars, channelVars, queueVars, uiVars
<1>2. CurrentCall'
  BY DEF IInv, CurrentCall, CancelToken, execVars, channelVars, queueVars, uiVars,
     Active
<1>3. PendingInv'
  BY DEF IInv, PendingInv, CancelToken, execVars, channelVars
<1>4. OtherCalls'
  BY DEF IInv, OtherCalls, CancelToken, execVars, channelVars, queueVars, uiVars,
     Finished, Active
<1>5. SenderInv'
  BY DEF IInv, SenderInv, CancelToken, channelVars, uiVars, Holds
<1>6. ReturnInv'
  BY DEF IInv, ReturnInv, CancelToken, execVars, channelVars, queueVars, uiVars
<1> QED
  BY <1>1, <1>2, <1>3, <1>4, <1>5, <1>6 DEF IInv

\* ResetCancelFlag preserves the inductive invariant.
LEMMA ResetCancelFlagStep ==
  ASSUME IInv, ResetCancelFlag
  PROVE  IInv'
<1>1. TypeOK'
  BY DEF IInv, TypeOK, ResetCancelFlag, execVars, channelVars, queueVars, uiVars
<1>2. CurrentCall'
  BY DEF IInv, CurrentCall, ResetCancelFlag, execVars, channelVars, queueVars, uiVars,
     Active
<1>3. PendingInv'
  BY DEF IInv, PendingInv, ResetCancelFlag, execVars, channelVars
<1>4. OtherCalls'
  BY DEF IInv, OtherCalls, ResetCancelFlag, execVars, channelVars, queueVars, uiVars,
     Finished, Active
<1>5. SenderInv'
  BY DEF IInv, SenderInv, ResetCancelFlag, channelVars, uiVars, Holds
<1>6. ReturnInv'
  BY DEF IInv, ReturnInv, ResetCancelFlag, execVars, channelVars, queueVars, uiVars
<1> QED
  BY <1>1, <1>2, <1>3, <1>4, <1>5, <1>6 DEF IInv

\* RemoveSession preserves the inductive invariant.
LEMMA RemoveSessionStep ==
  ASSUME IInv, RemoveSession
  PROVE  IInv'
<1>1. TypeOK'
  BY DEF IInv, TypeOK, RemoveSession, execVars, channelVars, queueVars, uiVars
<1>2. CurrentCall'
  BY DEF IInv, CurrentCall, RemoveSession, execVars, channelVars, queueVars, uiVars,
     Active
<1>3. PendingInv'
  BY DEF IInv, PendingInv, RemoveSession, execVars, channelVars
<1>4. OtherCalls'
  BY DEF IInv, OtherCalls, RemoveSession, execVars, channelVars, queueVars, uiVars,
     Finished, Active
<1>5. SenderInv'
  BY DEF IInv, SenderInv, RemoveSession, channelVars, uiVars, Holds
<1>6. ReturnInv'
  BY DEF IInv, ReturnInv, RemoveSession, execVars, channelVars, queueVars, uiVars
<1> QED
  BY <1>1, <1>2, <1>3, <1>4, <1>5, <1>6 DEF IInv

\* ForwardInstruction preserves the inductive invariant.
LEMMA ForwardInstructionStep ==
  ASSUME IInv, ForwardInstruction
  PROVE  IInv'
<1>q. /\ Tail(instr_q) \in Seq(Instr)
      /\ Head(instr_q) \in Queued(instr_q) /\ Head(instr_q) \in Instr
      /\ Queued(Tail(instr_q)) \subseteq Queued(instr_q)
  BY QueueFacts DEF IInv, TypeOK, ForwardInstruction
<1>1. TypeOK'
  BY <1>q DEF IInv, TypeOK, ForwardInstruction, execVars, channelVars, cancelVars
<1>2. CurrentCall'
  BY <1>q DEF IInv, CurrentCall, ForwardInstruction, execVars, channelVars, Active
<1>3. PendingInv'
  BY DEF IInv, PendingInv, ForwardInstruction, execVars, channelVars
<1>4. OtherCalls'
  BY <1>q DEF IInv, OtherCalls, ForwardInstruction, execVars, channelVars, Finished,
     Active
<1>5. SenderInv'
  BY DEF IInv, SenderInv, ForwardInstruction, channelVars, Holds
<1>6. ReturnInv'
  BY <1>q DEF IInv, ReturnInv, ForwardInstruction, execVars, channelVars
<1> QED
  BY <1>1, <1>2, <1>3, <1>4, <1>5, <1>6 DEF IInv

\* ForwardTimeout preserves the inductive invariant.
LEMMA ForwardTimeoutStep ==
  ASSUME IInv, ForwardTimeout
  PROVE  IInv'
<1>q. /\ Tail(timeout_q) \in Seq(Instr)
      /\ Head(timeout_q) \in Queued(timeout_q) /\ Head(timeout_q) \in Instr
      /\ Queued(Tail(timeout_q)) \subseteq Queued(timeout_q)
  BY QueueFacts DEF IInv, TypeOK, ForwardTimeout
<1>1. TypeOK'
  BY <1>q DEF IInv, TypeOK, ForwardTimeout, execVars, channelVars, cancelVars
<1>2. CurrentCall'
  BY DEF IInv, CurrentCall, ForwardTimeout, execVars, channelVars, Active
<1>3. PendingInv'
  BY DEF IInv, PendingInv, ForwardTimeout, execVars, channelVars
<1>4. OtherCalls'
  BY DEF IInv, OtherCalls, ForwardTimeout, execVars, channelVars, Finished, Active
<1>5. SenderInv'
  BY DEF IInv, SenderInv, ForwardTimeout, channelVars, Holds
<1>6. ReturnInv'
  BY <1>q DEF IInv, ReturnInv, ForwardTimeout, execVars, channelVars
<1> QED
  BY <1>1, <1>2, <1>3, <1>4, <1>5, <1>6 DEF IInv

\* InstructionReceiverGone preserves the inductive invariant.
LEMMA InstructionReceiverGoneStep ==
  ASSUME IInv, InstructionReceiverGone
  PROVE  IInv'
<1>q. <<>> \in Seq(Instr) /\ Queued(<<>>) = {}
  BY QueueFacts DEF IInv, TypeOK
<1>1. TypeOK'
  BY <1>q DEF IInv, TypeOK, InstructionReceiverGone, execVars, channelVars, uiVars,
     cancelVars
<1>2. CurrentCall'
  BY <1>q DEF IInv, CurrentCall, InstructionReceiverGone, execVars, channelVars,
     uiVars, Active
<1>3. PendingInv'
  BY DEF IInv, PendingInv, InstructionReceiverGone, execVars, channelVars
<1>4. OtherCalls'
  BY <1>q DEF IInv, OtherCalls, InstructionReceiverGone, execVars, channelVars,
     uiVars, Finished, Active
<1>5. SenderInv'
  BY DEF IInv, SenderInv, InstructionReceiverGone, channelVars, uiVars, Holds
<1>6. ReturnInv'
  BY <1>q DEF IInv, ReturnInv, InstructionReceiverGone, execVars, channelVars, uiVars
<1> QED
  BY <1>1, <1>2, <1>3, <1>4, <1>5, <1>6 DEF IInv

\* TimeoutReceiverGone preserves the inductive invariant.
LEMMA TimeoutReceiverGoneStep ==
  ASSUME IInv, TimeoutReceiverGone
  PROVE  IInv'
<1>q. <<>> \in Seq(Instr) /\ Queued(<<>>) = {}
  BY QueueFacts DEF IInv, TypeOK
<1>1. TypeOK'
  BY <1>q DEF IInv, TypeOK, TimeoutReceiverGone, execVars, channelVars, uiVars,
     cancelVars
<1>2. CurrentCall'
  BY DEF IInv, CurrentCall, TimeoutReceiverGone, execVars, channelVars, uiVars, Active
<1>3. PendingInv'
  BY DEF IInv, PendingInv, TimeoutReceiverGone, execVars, channelVars
<1>4. OtherCalls'
  BY DEF IInv, OtherCalls, TimeoutReceiverGone, execVars, channelVars, uiVars,
     Finished, Active
<1>5. SenderInv'
  BY DEF IInv, SenderInv, TimeoutReceiverGone, channelVars, uiVars, Holds
<1>6. ReturnInv'
  BY <1>q DEF IInv, ReturnInv, TimeoutReceiverGone, execVars, channelVars, uiVars
<1> QED
  BY <1>1, <1>2, <1>3, <1>4, <1>5, <1>6 DEF IInv

-----------------------------------------------------------------------------
(* Invariance *)

\* The initial state satisfies the inductive invariant.
LEMMA InitIInv == Init => IInv
<1> SUFFICES ASSUME Init PROVE IInv
  OBVIOUS
<1>0. <<>> \in Seq(Instr) /\ Queued(<<>>) = {}
  BY DEF Queued
<1>1. TypeOK
  <2>1. dlv \in [Deliveries -> [stage : Stages, instr : 0 .. MaxSeq,
                                payload : Payloads \cup {NoPayload}]]
    BY BoundsAssumption DEF Init, NoDelivery, Stages
  <2>2. next_seq \in 0 .. MaxSeq
    BY BoundsAssumption DEF Init
  <2>3. outcome \in Outcomes /\ returned \in [Instr -> Outcomes]
    BY OutcomeFacts DEF Init
  <2> QED
    BY <1>0, <2>1, <2>2, <2>3 DEF Init, TypeOK, PCs
<1>2. CurrentCall /\ PendingInv
  BY DEF Init, CurrentCall, PendingInv, Active, Polling
<1>3. OtherCalls
  BY <1>0, BoundsAssumption DEF Init, OtherCalls, Finished, Active, Instr
<1>4. SenderInv
  BY DEF Init, SenderInv, NoDelivery, Holds
<1>5. ReturnInv
  BY <1>0, OutcomeFacts DEF Init, ReturnInv
<1> QED
  BY <1>1, <1>2, <1>3, <1>4, <1>5 DEF IInv

\* Every step, stuttering included, preserves the inductive invariant.
LEMMA NextIInv == IInv /\ [Next]_vars => IInv'
<1> SUFFICES ASSUME IInv, [Next]_vars PROVE IInv'
  OBVIOUS
<1>1. CASE ExecuteBegin
  BY <1>1, ExecuteBeginStep
<1>2. CASE Execute
  BY <1>2, RegisterStep, DispatchStep, DispatchFailStep, AbandonStep, PollCancelStep,
     PollResultStep, PollTimerStep, TimerElapsedStep, DropReceiverStep, CleanupStep,
     ExpireStep DEF Execute
<1>3. ASSUME NEW d \in Deliveries, Deliver(d) PROVE IInv'
  BY <1>3, DeliverCallStep, DeliverRemoveStep, DeliverSendStep DEF Deliver
<1>4. CASE Kernel
  BY <1>4, CancelFlagStep, CancelTokenStep, ResetCancelFlagStep, RemoveSessionStep DEF Kernel
<1>5. CASE Forwarders
  BY <1>5, ForwardInstructionStep, ForwardTimeoutStep, InstructionReceiverGoneStep,
     TimeoutReceiverGoneStep DEF Forwarders
<1>6. CASE UNCHANGED vars
  BY <1>6 DEF vars, execVars, channelVars, queueVars, uiVars, cancelVars, IInv, TypeOK,
     CurrentCall, PendingInv, OtherCalls, SenderInv, ReturnInv, Finished, Active, Holds,
     Queued
<1> QED
  BY <1>1, <1>2, <1>3, <1>4, <1>5, <1>6 DEF Next

\* The inductive invariant holds in every reachable state of ProxyExecutor.
THEOREM IInvariance == Spec => []IInv
<1>1. Init => IInv
  BY InitIInv
<1>2. IInv /\ [Next]_vars => IInv'
  BY NextIInv
<1> QED
  BY <1>1, <1>2, PTL DEF Spec

\* Every variable of execute, deliver_proxy_result and cancel_turn keeps its type.
THEOREM TypeCorrect == Spec => []TypeOK
<1>1. IInv => TypeOK
  BY DEF IInv
<1> QED
  BY <1>1, IInvariance, PTL

\* execute leaves no entry in the PendingMap, whichever exit it takes.
THEOREM NoLeak == Spec => []NoPendingLeak
<1>1. IInv => NoPendingLeak
  BY DEF IInv, PendingInv, NoPendingLeak, Active, Polling
<1> QED
  BY <1>1, IInvariance, PTL

\* deliver_proxy_result acknowledges at most one submission per card, however
\* many are made and however they interleave with execute.
THEOREM OneAccepted == Spec => []OneAcceptedResult
<1>1. IInv => OneAcceptedResult
  <2> SUFFICES ASSUME IInv, NEW d \in Deliveries, NEW e \in Deliveries,
                      dlv[d].stage = "delivered", dlv[e].stage = "delivered",
                      dlv[d].instr = dlv[e].instr
               PROVE  d = e
    BY DEF OneAcceptedResult
  <2>1. dlv[d].instr \in Instr
    BY DEF IInv, SenderInv, TypeOK
  <2> QED
    BY <2>1 DEF IInv, SenderInv, Holds
<1> QED
  BY <1>1, IInvariance, PTL

\* What a call returns as its result was submitted for its card and acknowledged.
THEOREM ResultAcknowledged == Spec => []ResultIsTheAcknowledgedOne
<1>1. IInv => ResultIsTheAcknowledgedOne
  <2> SUFFICES ASSUME IInv, NEW i \in Instr, NEW p \in Payloads, returned[i] = Result(p)
               PROVE  \E d \in Deliveries : /\ dlv[d].stage = "delivered"
                                            /\ dlv[d].instr = i
                                            /\ dlv[d].payload = p
    BY DEF ResultIsTheAcknowledgedOne
  <2>1. slot[i] = p /\ slot[i] # NoPayload
    BY PayloadAssumption DEF IInv, ReturnInv
  <2> QED
    BY <2>1 DEF IInv, SenderInv
<1> QED
  BY <1>1, IInvariance, PTL

\* An acknowledged submission loses to nothing but a cancel or the timeout.
THEOREM AcknowledgedLoss == Spec => []AcknowledgedLostOnlyToCancelOrTimeout
<1>1. IInv => AcknowledgedLostOnlyToCancelOrTimeout
  <2> SUFFICES ASSUME IInv, NEW d \in Deliveries, dlv[d].stage = "delivered"
               PROVE  returned[dlv[d].instr]
                        \in {Undecided, Result(dlv[d].payload), Cancelled, TimedOut}
    BY DEF AcknowledgedLostOnlyToCancelOrTimeout
  <2>1. /\ dlv[d].instr \in Instr /\ dlv[d].instr \in cards
        /\ slot[dlv[d].instr] = dlv[d].payload
    BY DEF IInv, SenderInv, TypeOK
  <2>2. /\ returned[dlv[d].instr] \in Outcomes
        /\ returned[dlv[d].instr] \notin {NotDispatched, Disconnected}
    BY <2>1 DEF IInv, TypeOK, ReturnInv
  <2>3. \A p \in Payloads : returned[dlv[d].instr] = Result(p) => p = dlv[d].payload
    BY <2>1 DEF IInv, ReturnInv
  <2> QED
    BY <2>2, <2>3 DEF Outcomes
<1> QED
  BY <1>1, IInvariance, PTL

\* The "sender dropped without sending" arm of select! is dead code.
THEOREM Connected == Spec => []NeverDisconnected
<1>1. IInv => NeverDisconnected
  BY DEF IInv, TypeOK, CurrentCall, SenderInv, ReturnInv, NeverDisconnected, AwaitingAnswer,
     Active, Polling
<1> QED
  BY <1>1, IInvariance, PTL

\* A card the operator sees expire belongs to a call that returned its timeout.
THEOREM ExpiredTimedOut == Spec => []ExpiredCardsTimedOut
<1>1. IInv => ExpiredCardsTimedOut
  BY DEF IInv, ReturnInv, ExpiredCardsTimedOut, Queued
<1> QED
  BY <1>1, IInvariance, PTL

-----------------------------------------------------------------------------
(* Refinement *)

\* The initial state of the executor is an initial state of the contract.
LEMMA ContractInit == Init => Contract!Init
BY DEF Init, Contract!Init, Contract!Calls, Contract!NotYet, Contract!Failed, Instr,
   Undecided, Active

\* A step of the executor is a step of the contract or leaves it unchanged.
LEMMA ContractStep == IInv /\ [Next]_vars => [Contract!Next]_(Contract!contractVars)
<1> SUFFICES ASSUME IInv, [Next]_vars,
                    ~ UNCHANGED <<next_seq, Active, slot, returned>>
             PROVE  Contract!Next
  BY DEF Contract!contractVars
<1> USE DEF execVars, channelVars, Active
<1>1. CASE ExecuteBegin
  BY <1>1 DEF ExecuteBegin, Contract!Next, Contract!Issue, IInv, TypeOK
<1>2. CASE Execute
  <2>0. next_seq \in Instr
    BY <1>2 DEF IInv, CurrentCall, Execute, Register, Dispatch, DispatchFail, Abandon,
       PollCancel, PollResult, PollTimer, TimerElapsed, DropReceiver, Cleanup, Expire
  <2>1. CASE Abandon
    <3>1. Contract!CloseWithFailure(NotDispatched)
      BY <2>0, <2>1 DEF Abandon, Return, IInv, CurrentCall, SenderInv, Contract!CloseWithFailure
    <3>2. NotDispatched \in Contract!Failures
      BY DEF NotDispatched, Contract!Failures, Contract!Failed
    <3> QED
      BY <3>1, <3>2 DEF Contract!Next
  <2>2. CASE Cleanup /\ outcome # TimedOut
    <3>1. CASE outcome = Cancelled
      <4>1. Contract!CloseWithFailure(Cancelled)
        BY <2>2, <3>1 DEF Cleanup, Return, Contract!CloseWithFailure, Contract!Failed, Cancelled
      <4>2. Cancelled \in Contract!Failures
        BY DEF Cancelled, Contract!Failures, Contract!Failed
      <4> QED
        BY <4>1, <4>2 DEF Contract!Next
    <3>2. CASE outcome # Cancelled
      <4>1. outcome = Result(slot[next_seq]) /\ slot[next_seq] # NoPayload
        BY <2>2, <3>2, PayloadAssumption DEF Cleanup, IInv, CurrentCall
      <4>2. Contract!CloseWithAnswer
        BY <2>2, <4>1 DEF Cleanup, Return, Result, Contract!CloseWithAnswer, Contract!Answered
      <4> QED
        BY <4>2 DEF Contract!Next
    <3> QED
      BY <3>1, <3>2
  <2>3. CASE Expire
    <3>1. Contract!CloseWithFailure(TimedOut)
      BY <2>3 DEF Expire, Return, Contract!CloseWithFailure, Contract!Failed, TimedOut
    <3>2. TimedOut \in Contract!Failures
      BY DEF TimedOut, Contract!Failures, Contract!Failed
    <3> QED
      BY <3>1, <3>2 DEF Contract!Next
  <2>4. CASE Register \/ Dispatch \/ DispatchFail \/ PollCancel \/ PollResult \/ PollTimer
             \/ TimerElapsed \/ DropReceiver \/ (Cleanup /\ outcome = TimedOut)
    BY <2>4 DEF Register, Dispatch, DispatchFail, PollCancel, PollResult, PollTimer,
       TimerElapsed, DropReceiver, Cleanup
  <2> QED
    BY <1>2, <2>1, <2>2, <2>3, <2>4 DEF Execute
<1>3. ASSUME NEW d \in Deliveries, Deliver(d) PROVE Contract!Next
  <2>1. CASE DeliverSend(d)
    <3>1. /\ dlv[d].instr \in Instr /\ dlv[d].payload \in Payloads
          /\ oneshot[dlv[d].instr] = "open"
      BY <2>1 DEF DeliverSend, IInv, SenderInv, TypeOK
    <3>2. dlv[d].instr = next_seq /\ Active /\ slot[next_seq] = NoPayload
      BY <3>1 DEF IInv, TypeOK, OtherCalls, SenderInv, Finished, Instr
    <3>3. Contract!Acknowledge(dlv[d].payload)
      BY <2>1, <3>1, <3>2 DEF DeliverSend, Contract!Acknowledge
    <3> QED
      BY <3>1, <3>3 DEF Contract!Next
  <2>2. CASE DeliverCall(d) \/ DeliverRemove(d)
    BY <2>2 DEF DeliverCall, DeliverRemove
  <2> QED
    BY <1>3, <2>1, <2>2 DEF Deliver
<1>4. CASE Kernel \/ Forwarders
  BY <1>4 DEF Kernel, CancelFlag, CancelToken, ResetCancelFlag, RemoveSession, Forwarders,
     ForwardInstruction, ForwardTimeout, InstructionReceiverGone, TimeoutReceiverGone
<1>5. CASE UNCHANGED vars
  BY <1>5 DEF vars
<1> QED
  BY <1>1, <1>2, <1>3, <1>4, <1>5 DEF Next

\* execute, with everything that races it, implements the contract of a proxy
\* call: one open call at a time, one acknowledged answer, one final result.
THEOREM Refinement == Spec => ImplementsContract
<1>1. Init => Contract!Init
  BY ContractInit
<1>2. IInv /\ [Next]_vars => [Contract!Next]_(Contract!contractVars)
  BY ContractStep
<1> QED
  BY <1>1, <1>2, IInvariance, PTL DEF Spec, ImplementsContract, Contract!Spec

\* What a call returned never changes, and no submission for it is
\* acknowledged afterwards.
THEOREM Final == Spec => ReturnsAreFinal
<1> DEFINE Kept == /\ \A i \in Instr : returned[i] # Undecided => returned'[i] = returned[i]
                   /\ \A d \in Deliveries :
                        dlv[d].stage # "delivered" /\ dlv'[d].stage = "delivered"
                          => returned[dlv[d].instr] = Undecided
<1>1. IInv /\ [Next]_vars => [Kept]_vars
  <2> SUFFICES ASSUME IInv, Next PROVE Kept
    OBVIOUS
  <2>1. ASSUME NEW i \in Instr, returned[i] # Undecided PROVE returned'[i] = returned[i]
    <3>1. ~Active \/ i # next_seq
      BY <2>1 DEF IInv, OtherCalls, Finished, Instr
    <3> QED
      BY <3>1 DEF Next, Execute, Deliver, Kernel, Forwarders, Active, IInv, TypeOK, Return,
         execVars, ExecuteBegin, Register, Dispatch, DispatchFail, Abandon, PollCancel, PollResult,
         PollTimer, TimerElapsed, DropReceiver, Cleanup, Expire, DeliverCall, DeliverRemove,
         DeliverSend, CancelFlag, CancelToken, ResetCancelFlag, RemoveSession,
         ForwardInstruction, ForwardTimeout, InstructionReceiverGone, TimeoutReceiverGone
  <2>2. ASSUME NEW d \in Deliveries, dlv[d].stage # "delivered", dlv'[d].stage = "delivered"
        PROVE  returned[dlv[d].instr] = Undecided
    <3>1. DeliverSend(d)
      <4>1. PICK e \in Deliveries : Deliver(e)
        BY <2>2 DEF Next, Execute, Kernel, Forwarders, ExecuteBegin, Register, Dispatch,
           DispatchFail, Abandon, PollCancel, PollResult, PollTimer, TimerElapsed,
           DropReceiver, Cleanup, Expire, CancelFlag, CancelToken, ResetCancelFlag,
           RemoveSession, ForwardInstruction, ForwardTimeout, InstructionReceiverGone,
           TimeoutReceiverGone
      <4>2. CASE DeliverCall(e)
        BY <2>2, <4>2 DEF DeliverCall, IInv, TypeOK
      <4>3. CASE DeliverRemove(e)
        BY <2>2, <4>3 DEF DeliverRemove, IInv, TypeOK
      <4>4. CASE DeliverSend(e)
        BY <2>2, <4>4 DEF DeliverSend, IInv, TypeOK
      <4> QED
        BY <4>1, <4>2, <4>3, <4>4 DEF Deliver
    <3>2. dlv[d].instr \in Instr /\ oneshot[dlv[d].instr] = "open"
      BY <2>2, <3>1 DEF DeliverSend, IInv, SenderInv, TypeOK
    <3> QED
      BY <3>2 DEF IInv, OtherCalls
  <2> QED
    BY <2>1, <2>2
<1> QED
  BY <1>1, IInvariance, PTL DEF Spec, ReturnsAreFinal

\* Everything the races of a proxy call must not break, at once, for every
\* number of calls, submissions, payloads and every capacity of the channels.
THEOREM CallSound == Spec => []ProxyCallSound
<1>1. TypeOK /\ NoPendingLeak /\ OneAcceptedResult /\ ResultIsTheAcknowledgedOne
        /\ AcknowledgedLostOnlyToCancelOrTimeout /\ NeverDisconnected /\ ExpiredCardsTimedOut
      => ProxyCallSound
  BY DEF ProxyCallSound
<1> QED
  BY <1>1, TypeCorrect, NoLeak, OneAccepted, ResultAcknowledged, AcknowledgedLoss,
     Connected, ExpiredTimedOut, PTL

\* ProxyExecutor implements ProxyContract, and a call that has returned stays
\* as it was returned.
THEOREM ContractKept == Spec => KeepsTheContract
  BY Refinement, Final DEF KeepsTheContract
=============================================================================
