--------------------------- MODULE ApprovalTokens ---------------------------
(***************************************************************************)
(* ApprovalTokenLedger (runtime/src/approval_tokens.rs): grants that let an *)
(* executor perform an action a policy blocks.  A caller verifies a token   *)
(* before the action and consumes it with the action; in between the token  *)
(* can be revoked, inserted again, consumed by somebody else or expire.     *)
(***************************************************************************)
EXTENDS Naturals, Sequences, FiniteSets, SequencesExt

CONSTANTS
  Tokens,      \* token ids
  Scopes,      \* ApprovalScope values
  Actors,      \* approving and executing actors
  MaxNow,      \* bound on the clock
  MaxUses      \* bound on ApprovalTokenGrant::max_uses

ASSUME TokenAssumption == MaxNow \in Nat /\ MaxUses \in Nat

VARIABLES
  grants,      \* ApprovalTokenLedger::grants
  now,         \* now_epoch_seconds of the next call
  spent,       \* history: per token, the consumptions since it was inserted
  audit        \* the audit record the last call returned

tokenVars == <<grants, now, spent, audit>>

NoGrant == [status |-> "None"]
NoAudit == [token |-> "None"]
Never == MaxNow + 1     \* expires_at_epoch_seconds = None

ApprovalTokenStatus == {"Pending", "Granted", "Consumed", "Expired", "Revoked"}
ApprovalTokenGrant ==
  [scope : Scopes, approving_actor : Actors, approved_executor : Actors,
   status : ApprovalTokenStatus, expires_at : 0..Never, max_uses : 1..MaxUses,
   uses : 0..MaxUses, chain : SeqOf(Actors, 1)]

\* Mutant: the status of a grant is trusted, its clock is not read.
validate_grant_no_clock(g, scope, actor, at) ==
  CASE g.status # "Granted" -> "Refused"
    [] OTHER -> IF g.scope # scope THEN "ScopeMismatch"
                ELSE IF g.approved_executor # actor THEN "UnauthorizedDelegate" ELSE "Ok"

\* Why a grant does not authorize a call; "Ok" if it does.
validate_grant(g, scope, actor, at) ==
  CASE g.status = "Pending"   -> "ApprovalPending"
    [] g.status = "Consumed"  -> "ApprovalAlreadyConsumed"
    [] g.status = "Expired"   -> "ApprovalExpired"
    [] g.status = "Revoked"   -> "ApprovalRevoked"
    [] OTHER ->
       IF at > g.expires_at THEN "ApprovalExpired"
       ELSE IF g.uses >= g.max_uses THEN "ApprovalAlreadyConsumed"
       ELSE IF g.scope # scope THEN "ScopeMismatch"
       ELSE IF g.approved_executor # actor THEN "UnauthorizedDelegate" ELSE "Ok"

\* The approver opens an empty chain, an executor it does not name closes it.
audit_for(t, g, actor) ==
  LET begun == IF g.chain = <<>> THEN <<g.approving_actor>> ELSE g.chain
  IN  [token |-> t, scope |-> g.scope, executing_actor |-> actor, status |-> g.status,
       delegated |-> g.approving_actor # actor, uses |-> g.uses, max_uses |-> g.max_uses,
       chain |-> IF g.approving_actor # actor /\ actor \notin ToSet(begun)
                 THEN Append(begun, actor) ELSE begun]

TokenInit ==
  /\ grants = [t \in Tokens |-> NoGrant]
  /\ now = 0
  /\ spent = [t \in Tokens |-> 0]
  /\ audit = NoAudit

\* Any grant may be inserted, also over one that is there.
token_insert(t, g) ==
  /\ g.uses = 0
  /\ grants' = [grants EXCEPT ![t] = g]
  /\ spent' = [spent EXCEPT ![t] = 0]
  /\ audit' = NoAudit
  /\ UNCHANGED now

token_revoke(t) ==
  /\ grants[t] # NoGrant
  /\ grants' = [grants EXCEPT ![t].status = "Revoked"]
  /\ audit' = audit_for(t, grants'[t], grants[t].approved_executor)
  /\ UNCHANGED <<now, spent>>

token_verify(t, scope, actor) ==
  /\ grants[t] # NoGrant
  /\ validate_grant(grants[t], scope, actor, now) = "Ok"
  /\ audit' = audit_for(t, grants[t], actor)
  /\ UNCHANGED <<grants, now, spent>>

token_consume(t, scope, actor) ==
  /\ grants[t] # NoGrant
  /\ validate_grant(grants[t], scope, actor, now) = "Ok"
  /\ LET uses == grants[t].uses + 1
     IN  grants' = [grants EXCEPT
                      ![t].uses = uses,
                      ![t].status = IF uses >= grants[t].max_uses THEN "Consumed" ELSE @]
  /\ spent' = [spent EXCEPT ![t] = @ + 1]
  /\ audit' = audit_for(t, grants'[t], actor)
  /\ UNCHANGED now

TokenTick == now < MaxNow /\ now' = now + 1 /\ UNCHANGED <<grants, spent, audit>>

\* The grants the builders make: pending or approved, with or without an expiry,
\* a number of uses and one hop of delegation.
BuiltGrants ==
  [scope : Scopes, approving_actor : Actors, approved_executor : Actors,
   status : {"Pending", "Granted"}, expires_at : {1, Never}, max_uses : 1..MaxUses,
   uses : {0}, chain : SeqOf(Actors, 1)]

TokenNext ==
  \/ \E t \in Tokens :
       \/ \E g \in BuiltGrants : token_insert(t, g)
       \/ token_revoke(t)
       \/ \E scope \in Scopes, actor \in Actors :
            token_verify(t, scope, actor) \/ token_consume(t, scope, actor)
  \/ TokenTick

-----------------------------------------------------------------------------
(* Properties *)

TokenTypeOK ==
  /\ grants \in [Tokens -> ApprovalTokenGrant \cup {NoGrant}]
  /\ now \in 0..MaxNow
  /\ audit = NoAudit \/ audit.token \in Tokens

\* A token is consumed as often as its counter says and never more often than it
\* was granted for; once spent it no longer counts as granted.
NeverOverspent ==
  \A t \in Tokens : grants[t] # NoGrant =>
    /\ spent[t] = grants[t].uses /\ spent[t] <= grants[t].max_uses
    /\ spent[t] = grants[t].max_uses => grants[t].status \in {"Consumed", "Revoked"}

\* What is consumed was still valid then: not revoked, not pending, not past its
\* expiry, in its scope and by its executor, whatever an earlier verify said.
ConsumedOnlyWhileValid ==
  [][\A t \in Tokens : spent'[t] > spent[t] =>
       /\ grants[t].status = "Granted" /\ now <= grants[t].expires_at
       /\ audit'.scope = grants[t].scope
       /\ audit'.executing_actor = grants[t].approved_executor]_tokenVars

\* A delegated execution names both sides: somebody before the executor, and the
\* executor.
AuditTracesDelegation ==
  audit # NoAudit /\ audit.delegated =>
    audit.executing_actor \in ToSet(audit.chain)

\* A delegated approval is never spent more often or wider than it was granted,
\* every audit entry names the chain it was delegated through, and a token is
\* spent only while it is approved and in time (approval_tokens.rs).
ApprovalTokensSound ==
  /\ []TokenTypeOK
  /\ []NeverOverspent
  /\ []AuditTracesDelegation
  /\ ConsumedOnlyWhileValid

=============================================================================
