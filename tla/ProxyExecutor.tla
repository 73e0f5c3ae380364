--------------------------- MODULE ProxyExecutor ---------------------------
(***************************************************************************)
(* ProxyToolExecutor::execute (agent-grpc-server/src/proxy_executor.rs)    *)
(* racing the calls that feed it: SessionManager::deliver_proxy_result,    *)
(* SessionManager::cancel_turn, the actor that resets the cancel flag or   *)
(* removes the session, and the forwarders that drain its two channels.    *)
(*                                                                         *)
(* One executor lives in one SessionEntry and is called under the entry    *)
(* lock, so at most one execute is in progress.  Its steps are cut at the  *)
(* points where another thread can run: every await, every lock, and every *)
(* poll of a branch of tokio::select!.                                     *)
(***************************************************************************)
EXTENDS Integers, Sequences, FiniteSets, TLC

CONSTANTS
  Deliveries,  \* the deliver_proxy_result calls of a behaviour, each made once
  Payloads,    \* what an operator can paste back
  NoPayload,   \* the absence of a payload
  MaxSeq,      \* bound on next_seq: proxy calls made by one executor
  InstrCap,    \* capacity of the instruction channel (32 in service.rs)
  TimeoutCap   \* capacity of the timeout channel (8 in service.rs)

ASSUME PayloadAssumption == NoPayload \notin Payloads

ASSUME BoundsAssumption ==
  /\ MaxSeq \in Nat
  /\ InstrCap \in Nat \ {0}
  /\ TimeoutCap \in Nat \ {0}

VARIABLES
  pc,            \* where execute is
  next_seq,      \* ProxyToolExecutor::next_seq, also names the current call
  pending,       \* keys of the PendingMap; each entry owns that call's sender
  oneshot,       \* state of each call's oneshot channel
  slot,          \* payload held by each oneshot channel
  outcome,       \* the ProxyOutcome chosen by select!
  returned,      \* what each proxy call returned to run_turn
  instr_q,       \* instruction channel
  instr_sub,     \* its receiver is alive
  timeout_q,     \* timeout channel
  timeout_sub,   \* its receiver is alive
  cards,         \* instructions shown to the operator
  expired,       \* instructions reported to the operator as expired
  cancel_flag,   \* the session's AtomicBool
  cancel_token,  \* the token this executor holds has been cancelled
  canceller,     \* a cancel_turn between its two writes, and whose token it has
  shared_live,   \* the session is still in the manager's shared map
  dlv            \* per delivery: its stage, target, payload and reply

execVars    == <<pc, next_seq, outcome, returned>>
channelVars == <<pending, oneshot, slot>>
queueVars   == <<instr_q, instr_sub, timeout_q, timeout_sub>>
uiVars      == <<cards, expired>>
cancelVars  == <<cancel_flag, cancel_token, canceller, shared_live>>
vars == <<execVars, channelVars, queueVars, uiVars, cancelVars, dlv>>

Instr == 1 .. MaxSeq

NoDelivery == [stage |-> "unused", instr |-> 0, payload |-> NoPayload]

Result(p) == [kind |-> "result", payload |-> p]
Cancelled == [kind |-> "cancelled", payload |-> NoPayload]
TimedOut  == [kind |-> "timed_out", payload |-> NoPayload]
Disconnected == [kind |-> "disconnected", payload |-> NoPayload]
NotDispatched == [kind |-> "dispatch_failed", payload |-> NoPayload]
Undecided == [kind |-> "undecided", payload |-> NoPayload]

Outcomes == {Result(p) : p \in Payloads}
              \cup {Cancelled, TimedOut, Disconnected, NotDispatched, Undecided}

Polling == {"poll_cancel", "poll_result", "poll_timer"}
PCs == {"idle", "register", "dispatch", "abandon", "drop_rx", "cleanup", "expire"}
         \cup Polling

Stages == {"unused", "lock", "send", "delivered", "rejected"}

Init ==
  /\ pc = "idle"
  /\ next_seq = 0
  /\ pending = {}
  /\ oneshot = [i \in Instr |-> "none"]
  /\ slot = [i \in Instr |-> NoPayload]
  /\ outcome = Undecided
  /\ returned = [i \in Instr |-> Undecided]
  /\ instr_q = <<>> /\ instr_sub = TRUE
  /\ timeout_q = <<>> /\ timeout_sub = TRUE
  /\ cards = {} /\ expired = {}
  /\ cancel_flag = FALSE /\ cancel_token = FALSE
  /\ canceller = "none"
  /\ shared_live = TRUE
  /\ dlv = [d \in Deliveries |-> NoDelivery]

-----------------------------------------------------------------------------
(* execute *)

\* Taking call i's sender out of the map and dropping it: the receiver, if it
\* is still waiting, will see the channel disconnected.
DropSender(i) ==
  /\ pending' = pending \ {i}
  /\ oneshot' = IF i \in pending /\ oneshot[i] = "open"
                  THEN [oneshot EXCEPT ![i] = "sender_dropped"]
                  ELSE oneshot

\* The call returns to run_turn with result r.
Return(r) ==
  /\ returned' = [returned EXCEPT ![next_seq] = r]
  /\ outcome' = Undecided
  /\ pc' = "idle"

\* The fast-path check fails to see a cancel and next_instruction_id runs.  A
\* call that does see one returns an error before it takes a number and
\* changes nothing here.
ExecuteBegin ==
  /\ pc = "idle"
  /\ next_seq < MaxSeq
  /\ ~(cancel_flag \/ cancel_token)
  /\ next_seq' = next_seq + 1
  /\ pc' = "register"
  /\ UNCHANGED <<outcome, returned, channelVars, queueVars, uiVars, cancelVars, dlv>>

\* oneshot::channel, then the insert under the map's lock.
Register ==
  /\ pc = "register"
  /\ oneshot' = [oneshot EXCEPT ![next_seq] = "open"]
  /\ pending' = pending \cup {next_seq}
  /\ pc' = "dispatch"
  /\ UNCHANGED <<next_seq, outcome, returned, slot, queueVars, uiVars, cancelVars, dlv>>

\* instruction_tx.send(event).await waits for room; neither the cancel token
\* nor the timer is raced against it.
Dispatch ==
  /\ pc = "dispatch"
  /\ instr_sub
  /\ Len(instr_q) < InstrCap
  /\ instr_q' = Append(instr_q, next_seq)
  /\ pc' = "poll_cancel"
  /\ UNCHANGED <<next_seq, outcome, returned, channelVars, instr_sub, timeout_q,
                 timeout_sub, uiVars, cancelVars, dlv>>

\* The send fails because the receiver is gone.
DispatchFail ==
  /\ pc = "dispatch"
  /\ ~instr_sub
  /\ pc' = "abandon"
  /\ UNCHANGED <<next_seq, outcome, returned, channelVars, queueVars, uiVars,
                 cancelVars, dlv>>

\* remove_pending and the early return; result_rx dies with the frame.
Abandon ==
  /\ pc = "abandon"
  /\ pending' = pending \ {next_seq}
  /\ oneshot' = [oneshot EXCEPT ![next_seq] = "closed"]
  /\ Return(NotDispatched)
  /\ UNCHANGED <<next_seq, slot, queueVars, uiVars, cancelVars, dlv>>

\* select! is biased: the cancel branch is polled first ...
PollCancel ==
  /\ pc = "poll_cancel"
  /\ IF cancel_token
       THEN outcome' = Cancelled /\ pc' = "drop_rx"
       ELSE pc' = "poll_result" /\ UNCHANGED outcome
  /\ UNCHANGED <<next_seq, returned, channelVars, queueVars, uiVars, cancelVars, dlv>>

\* ... then the oneshot receiver ...
PollResult ==
  /\ pc = "poll_result"
  /\ CASE oneshot[next_seq] = "filled" ->
            /\ outcome' = Result(slot[next_seq])
            /\ oneshot' = [oneshot EXCEPT ![next_seq] = "taken"]
            /\ pc' = "cleanup"
       [] oneshot[next_seq] = "sender_dropped" ->
            /\ outcome' = Disconnected
            /\ pc' = "cleanup"
            /\ UNCHANGED oneshot
       [] OTHER ->
            /\ pc' = "poll_timer"
            /\ UNCHANGED <<outcome, oneshot>>
  /\ UNCHANGED <<next_seq, returned, pending, slot, queueVars, uiVars, cancelVars, dlv>>

\* ... then the 30-minute timer, which has not elapsed ...
PollTimer ==
  /\ pc = "poll_timer"
  /\ pc' = "poll_cancel"
  /\ UNCHANGED <<next_seq, outcome, returned, channelVars, queueVars, uiVars,
                 cancelVars, dlv>>

\* Mutant: the sleep is created anew by every poll.
TimerRearmed ==
  /\ pc = "poll_timer"
  /\ pc' = "poll_cancel"
  /\ UNCHANGED <<next_seq, outcome, returned, channelVars, queueVars, uiVars,
                 cancelVars, dlv>>

\* ... or has.
TimerElapsed ==
  /\ pc = "poll_timer"
  /\ outcome' = TimedOut
  /\ pc' = "drop_rx"
  /\ UNCHANGED <<next_seq, returned, channelVars, queueVars, uiVars, cancelVars, dlv>>

\* select! drops the losing futures; a payload sent since the last poll of
\* result_rx is dropped with it.
DropReceiver ==
  /\ pc = "drop_rx"
  /\ oneshot' = [oneshot EXCEPT ![next_seq] = "closed"]
  /\ pc' = "cleanup"
  /\ UNCHANGED <<next_seq, outcome, returned, pending, slot, queueVars, uiVars,
                 cancelVars, dlv>>

\* remove_pending after select!, then the match on the outcome.
Cleanup ==
  /\ pc = "cleanup"
  /\ DropSender(next_seq)
  /\ IF outcome = TimedOut
       THEN pc' = "expire" /\ UNCHANGED <<outcome, returned>>
       ELSE Return(outcome)
  /\ UNCHANGED <<next_seq, slot, queueVars, uiVars, cancelVars, dlv>>

\* timeout_tx.send(event).await; its error is ignored.
Expire ==
  /\ pc = "expire"
  /\ timeout_sub => Len(timeout_q) < TimeoutCap
  /\ timeout_q' = IF timeout_sub THEN Append(timeout_q, next_seq) ELSE timeout_q
  /\ Return(TimedOut)
  /\ UNCHANGED <<next_seq, channelVars, instr_q, instr_sub, timeout_sub, uiVars,
                 cancelVars, dlv>>

-----------------------------------------------------------------------------
(* deliver_proxy_result *)

\* The inbound loop of some Chat stream calls deliver_proxy_result for a card
\* the operator has seen: at any time later, and as often as it is submitted.
DeliverCall(d) ==
  \E i \in cards, p \in Payloads :
    /\ dlv[d].stage = "unused"
    /\ dlv' = [dlv EXCEPT ![d] =
                 [stage |-> IF shared_live THEN "lock" ELSE "rejected",
                  instr |-> i, payload |-> p]]
    /\ UNCHANGED <<execVars, channelVars, queueVars, uiVars, cancelVars>>

\* Mutant: a missing entry is taken for an answer already delivered.
DeliverRemoveIdempotent(d) ==
  LET i == dlv[d].instr IN
  /\ dlv[d].stage = "lock"
  /\ pending' = pending \ {i}
  /\ dlv' = [dlv EXCEPT ![d].stage = IF i \in pending THEN "send" ELSE "delivered"]
  /\ UNCHANGED <<execVars, oneshot, slot, queueVars, uiVars, cancelVars>>

\* guard.remove(instruction_id) under the map's lock.
DeliverRemove(d) ==
  LET i == dlv[d].instr IN
  /\ dlv[d].stage = "lock"
  /\ pending' = pending \ {i}
  /\ dlv' = [dlv EXCEPT ![d].stage = IF i \in pending THEN "send" ELSE "rejected"]
  /\ UNCHANGED <<execVars, oneshot, slot, queueVars, uiVars, cancelVars>>

\* Mutant: the error of send is ignored.
DeliverSendUnchecked(d) ==
  LET i == dlv[d].instr IN
  /\ dlv[d].stage = "send"
  /\ oneshot' = IF oneshot[i] = "open" THEN [oneshot EXCEPT ![i] = "filled"] ELSE oneshot
  /\ slot' = [slot EXCEPT ![i] = dlv[d].payload]
  /\ dlv' = [dlv EXCEPT ![d].stage = "delivered"]
  /\ UNCHANGED <<execVars, pending, queueVars, uiVars, cancelVars>>

\* tx.send(payload) after the lock is dropped.
DeliverSend(d) ==
  LET i == dlv[d].instr IN
  /\ dlv[d].stage = "send"
  /\ IF oneshot[i] = "open"
       THEN /\ oneshot' = [oneshot EXCEPT ![i] = "filled"]
            /\ slot' = [slot EXCEPT ![i] = dlv[d].payload]
            /\ dlv' = [dlv EXCEPT ![d].stage = "delivered"]
       ELSE /\ dlv' = [dlv EXCEPT ![d].stage = "rejected"]
            /\ UNCHANGED <<oneshot, slot>>
  /\ UNCHANGED <<execVars, pending, queueVars, uiVars, cancelVars>>

-----------------------------------------------------------------------------
(* The rest of the kernel, as this executor sees it *)

\* cancel_turn takes the flag and the token out of the shared map and stores
\* the flag.  The token is this executor's own only until RunTurnStreaming has
\* put a fresh one in the map; which of the two it is, is left open here.
CancelFlag ==
  /\ shared_live
  /\ canceller = "none"
  /\ cancel_flag' = TRUE
  /\ canceller' \in {"own", "fresh"}
  /\ UNCHANGED <<execVars, channelVars, queueVars, uiVars, cancel_token, shared_live, dlv>>

\* token.cancel()
CancelToken ==
  /\ canceller # "none"
  /\ canceller' = "none"
  /\ cancel_token' = (cancel_token \/ canceller = "own")
  /\ UNCHANGED <<execVars, channelVars, queueVars, uiVars, cancel_flag, shared_live, dlv>>

\* RunTurnStreaming resets the flag, whatever the executor is doing: the actor
\* handles it while an earlier turn still holds the entry lock.
ResetCancelFlag ==
  /\ shared_live /\ cancel_flag
  /\ cancel_flag' = FALSE
  /\ UNCHANGED <<execVars, channelVars, queueVars, uiVars, cancel_token, canceller,
                 shared_live, dlv>>

\* SessionCmd::Remove takes the session out of the shared map; the executor
\* and its PendingMap live on in the worker's Arc.
RemoveSession ==
  /\ shared_live
  /\ shared_live' = FALSE
  /\ UNCHANGED <<execVars, channelVars, queueVars, uiVars, cancel_flag, cancel_token,
                 canceller, dlv>>

\* spawn_forwarders: each forwarder moves one event to the Chat stream.
ForwardInstruction ==
  /\ instr_q # <<>>
  /\ cards' = cards \cup {Head(instr_q)}
  /\ instr_q' = Tail(instr_q)
  /\ UNCHANGED <<execVars, channelVars, instr_sub, timeout_q, timeout_sub, expired,
                 cancelVars, dlv>>

ForwardTimeout ==
  /\ timeout_q # <<>>
  /\ expired' = expired \cup {Head(timeout_q)}
  /\ timeout_q' = Tail(timeout_q)
  /\ UNCHANGED <<execVars, channelVars, instr_q, instr_sub, timeout_sub, cards,
                 cancelVars, dlv>>

\* The Chat stream is gone: the forwarder's next send fails, it breaks out of
\* its loop, and its receiver is dropped with what is queued.
InstructionReceiverGone ==
  /\ instr_sub
  /\ instr_sub' = FALSE
  /\ instr_q' = <<>>
  /\ UNCHANGED <<execVars, channelVars, timeout_q, timeout_sub, uiVars, cancelVars, dlv>>

TimeoutReceiverGone ==
  /\ timeout_sub
  /\ timeout_sub' = FALSE
  /\ timeout_q' = <<>>
  /\ UNCHANGED <<execVars, channelVars, instr_q, instr_sub, uiVars, cancelVars, dlv>>

-----------------------------------------------------------------------------
Execute ==
  \/ Register \/ Dispatch \/ DispatchFail \/ Abandon
  \/ PollCancel \/ PollResult \/ PollTimer \/ TimerElapsed
  \/ DropReceiver \/ Cleanup \/ Expire

Deliver(d) == DeliverCall(d) \/ DeliverRemove(d) \/ DeliverSend(d)

Kernel == CancelFlag \/ CancelToken \/ ResetCancelFlag \/ RemoveSession

Forwarders ==
  \/ ForwardInstruction \/ ForwardTimeout
  \/ InstructionReceiverGone \/ TimeoutReceiverGone

Next ==
  \/ ExecuteBegin
  \/ Execute
  \/ \E d \in Deliveries : Deliver(d)
  \/ Kernel
  \/ Forwarders

Spec == Init /\ [][Next]_vars

\* The worker task is polled whenever it is runnable, and the forwarders drain
\* their channels.
Fairness ==
  /\ WF_vars(Register \/ Dispatch \/ DispatchFail \/ Abandon)
  /\ WF_vars(PollCancel \/ PollResult \/ PollTimer \/ DropReceiver \/ Cleanup \/ Expire)
  /\ WF_vars(ForwardInstruction)
  /\ WF_vars(ForwardTimeout)

\* The 30 minutes may never be over.
FairSpec == Spec /\ Fairness

\* Submissions are interchangeable to the model checker, and so are payloads.
ProxySymmetry == Permutations(Deliveries) \cup Permutations(Payloads)

\* The tokio timer is polled any number of times but fires in the end.
TimerFires == SF_vars(TimerElapsed)

-----------------------------------------------------------------------------
(* Properties *)

TypeOK ==
  /\ pc \in PCs
  /\ next_seq \in 0 .. MaxSeq
  /\ pending \subseteq Instr
  /\ oneshot \in [Instr -> {"none", "open", "filled", "taken", "closed", "sender_dropped"}]
  /\ slot \in [Instr -> Payloads \cup {NoPayload}]
  /\ outcome \in Outcomes
  /\ returned \in [Instr -> Outcomes]
  /\ instr_q \in Seq(Instr) /\ instr_sub \in BOOLEAN
  /\ timeout_q \in Seq(Instr) /\ timeout_sub \in BOOLEAN
  /\ cards \subseteq Instr /\ expired \subseteq Instr
  /\ cancel_flag \in BOOLEAN /\ cancel_token \in BOOLEAN
  /\ canceller \in {"none", "own", "fresh"} /\ shared_live \in BOOLEAN
  /\ dlv \in [Deliveries -> [stage : Stages, instr : 0 .. MaxSeq,
                             payload : Payloads \cup {NoPayload}]]

\* Past the fast-path check and not yet back in run_turn.
Active == pc # "idle"

\* The executor still waits for the call's answer.
AwaitingAnswer == pc \in Polling

\* No leak: an entry of the PendingMap belongs to the call in progress, and
\* none is left when execute has returned ("we'd rather double-clean than
\* leak"), whichever of its exits it took.
NoPendingLeak ==
  /\ pending \subseteq {next_seq}
  /\ pending # {} => Active

\* "exactly one result per instruction": of several submissions for one card,
\* deliver_proxy_result reports success to at most one.
OneAcceptedResult ==
  \A d, e \in Deliveries :
    /\ dlv[d].stage = "delivered" /\ dlv[e].stage = "delivered"
    /\ dlv[d].instr = dlv[e].instr
    => d = e

\* The output run_turn feeds to the model for call i is the payload of a
\* submission that was made for card i and acknowledged.
ResultIsTheAcknowledgedOne ==
  \A i \in Instr : \A p \in Payloads :
    returned[i] = Result(p) =>
      \E d \in Deliveries : /\ dlv[d].stage = "delivered"
                            /\ dlv[d].instr = i
                            /\ dlv[d].payload = p

\* An acknowledged submission is lost only to a cancel or to the timeout that
\* won the race: never to a dispatch failure or to a disconnect.
AcknowledgedLostOnlyToCancelOrTimeout ==
  \A d \in Deliveries :
    dlv[d].stage = "delivered" =>
      returned[dlv[d].instr] \in {Undecided, Result(dlv[d].payload), Cancelled, TimedOut}

\* Nobody drops the sender of a call that still awaits it, so the
\* "oneshot sender dropped without sending" arm is dead.
NeverDisconnected ==
  /\ AwaitingAnswer => oneshot[next_seq] # "sender_dropped"
  /\ \A i \in Instr : returned[i] # Disconnected

\* The operator is told that a card expired only if the model was told that
\* the call timed out.
ExpiredCardsTimedOut ==
  \A i \in Instr :
    i \in expired \/ (\E n \in DOMAIN timeout_q : timeout_q[n] = i)
      => returned[i] = TimedOut

\* A returned call is final: a late submission, cancel or timer changes what
\* was returned for it no more, and is not acknowledged.
ReturnsAreFinal ==
  [][/\ \A i \in Instr : returned[i] # Undecided => returned'[i] = returned[i]
     /\ \A d \in Deliveries :
          dlv[d].stage # "delivered" /\ dlv'[d].stage = "delivered"
            => returned[dlv[d].instr] = Undecided]_vars

\* Every proxy call returns: the operator may never answer, but the timer ends
\* the wait.
EveryCallReturns == TimerFires => (Active ~> ~Active)

\* "cancel never blocks": once the executor's own token is cancelled, the call
\* ends without operator and without timer.
CancelEndsTheWait == (Active /\ cancel_token) ~> ~Active

\* The executor and its callers keep the contract of a proxy call.
Contract == INSTANCE ProxyContract
  WITH issued <- next_seq, open <- Active, answer <- slot, result <- returned

\* Every behaviour of execute, raced by deliver_proxy_result, cancel_turn and
\* the channels, is a behaviour of the contract.
ImplementsContract == Contract!Spec

\* What a proxy call promises whatever races it: no entry is leaked, one answer
\* per card is acknowledged, the result is that answer, it is lost only to a
\* cancel or a timeout, and nobody is told of a disconnect or of an expiry that
\* did not happen.
ProxyCallSound ==
  /\ TypeOK
  /\ NoPendingLeak
  /\ OneAcceptedResult
  /\ ResultIsTheAcknowledgedOne
  /\ AcknowledgedLostOnlyToCancelOrTimeout
  /\ NeverDisconnected
  /\ ExpiredCardsTimedOut

\* The races of execute stay within the contract of a proxy call, and what a
\* call returned is never changed or acknowledged afterwards.
KeepsTheContract ==
  /\ ImplementsContract
  /\ ReturnsAreFinal

\* A proxy call makes progress: it returns when the timer fires and no later
\* than its own cancellation, whether or not the operator answers.
ProxyCallsEnd ==
  /\ EveryCallReturns
  /\ CancelEndsTheWait
=============================================================================
