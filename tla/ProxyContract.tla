--------------------------- MODULE ProxyContract ---------------------------
(***************************************************************************)
(* What a proxy call promises to run_turn and to the operator, without     *)
(* channels, maps, locks or polling.                                       *)
(*                                                                         *)
(* Calls are numbered and made one at a time.  While a call is open, one   *)
(* answer at most is acknowledged for it.  It closes once, with that       *)
(* answer or with a failure; no answer is acknowledged afterwards.         *)
(***************************************************************************)
EXTENDS Integers

CONSTANTS
  MaxSeq,    \* number of calls
  Payloads,  \* possible answers
  NoPayload  \* no answer

VARIABLES
  issued,  \* number of calls made so far
  open,    \* the last one has not returned
  answer,  \* the acknowledged answer of each call
  result   \* what each call returned

contractVars == <<issued, open, answer, result>>

Calls == 1 .. MaxSeq

Answered(p) == [kind |-> "result", payload |-> p]
Failed(k)   == [kind |-> k, payload |-> NoPayload]
NotYet      == Failed("undecided")
Failures    == {Failed("cancelled"), Failed("timed_out"), Failed("dispatch_failed")}

Init ==
  /\ issued = 0
  /\ open = FALSE
  /\ answer = [c \in Calls |-> NoPayload]
  /\ result = [c \in Calls |-> NotYet]

Issue ==
  /\ ~open
  /\ issued < MaxSeq
  /\ issued' = issued + 1
  /\ open' = TRUE
  /\ UNCHANGED <<answer, result>>

\* deliver_proxy_result returns true for the open call.
Acknowledge(p) ==
  /\ open
  /\ answer[issued] = NoPayload
  /\ answer' = [answer EXCEPT ![issued] = p]
  /\ UNCHANGED <<issued, open, result>>

\* The call returns the acknowledged answer ...
CloseWithAnswer ==
  /\ open
  /\ answer[issued] # NoPayload
  /\ result' = [result EXCEPT ![issued] = Answered(answer[issued])]
  /\ open' = FALSE
  /\ UNCHANGED <<issued, answer>>

\* ... or fails: the answer that a cancel or a timeout overtook is lost, but a
\* call that was never dispatched had none to lose.
CloseWithFailure(f) ==
  /\ open
  /\ f = Failed("dispatch_failed") => answer[issued] = NoPayload
  /\ result' = [result EXCEPT ![issued] = f]
  /\ open' = FALSE
  /\ UNCHANGED <<issued, answer>>

Next ==
  \/ Issue
  \/ \E p \in Payloads : Acknowledge(p)
  \/ CloseWithAnswer
  \/ \E f \in Failures : CloseWithFailure(f)

Spec == Init /\ [][Next]_contractVars
=============================================================================
