------------------------ MODULE RuntimeServicesProofs ------------------------
(***************************************************************************)
(* Proofs about the services of the runtime crate.  The components share no *)
(* state, so an inductive invariant of one of them is one of PartSpec: each *)
(* theorem has a lemma for the step of its component, and the steps of the  *)
(* other components leave its variables alone.                              *)
(***************************************************************************)
EXTENDS MCRuntimeServices, TLAPS

\* A step of another component, or a stuttering step, leaves these alone.
LEMMA OtherSteps ==
  ASSUME [PartNext]_partVars
  PROVE  /\ RecoveryNext \/ UNCHANGED recoveryVars
         /\ WorkerNext \/ UNCHANGED workerVars
         /\ FreshNext \/ UNCHANGED freshVars
         /\ LockNext \/ UNCHANGED lockVars
BY DEF PartNext, partVars

-----------------------------------------------------------------------------
(* Recovery recipes *)

LedgerEntry ==
  [state : RecoveryAttemptState \cup {"None"}, attempt_count : 0..1,
   attempts_remaining : 0..1, succeeded : Nat, escalated : BOOLEAN]

RecoveryTypes ==
  /\ attempts \in [FailureScenario -> 0..1]
  /\ ledger \in [FailureScenario -> LedgerEntry]
  /\ ran \in [FailureScenario -> Nat]
  /\ recovery_events \in Seq({"RecoveryAttempted", "RecoverySucceeded", "RecoveryFailed", "Escalated"})
  /\ \E n \in Nat : Len(recovery_events) = 2 * n

\* A scenario nobody attempted has an empty ledger entry and ran no step; of one
\* that was attempted the ledger holds the count.
Untouched ==
  \A s \in FailureScenario :
    /\ ledger[s].attempt_count = attempts[s]
    /\ attempts[s] = 0 => ran[s] = 0 /\ ledger[s].state = "None" /\ ~ledger[s].escalated

RecoveryIInv ==
  RecoveryTypes /\ Untouched /\ NoStepTwice /\ LedgerTellsExhaustion /\ EscalationsAreTold

\* Every recipe has one attempt and one or two steps.
LEMMA Recipes ==
  \A s \in FailureScenario :
    recipe_for(s).max_attempts = 1 /\ Len(recipe_for(s).steps) \in 1..2
BY DEF recipe_for, FailureScenario

\* LedgerTellsExhaustion with the report read off the ledger.
LedgerShows(s) ==
  /\ ledger[s].attempt_count > 0 <=> attempts[s] > 0
  /\ ledger[s].attempt_count > 0 => ledger[s].attempt_count + ledger[s].attempts_remaining = 1
  /\ ledger[s].state = "Exhausted" <=> ledger[s].escalated

LEMMA Report ==
  LedgerTellsExhaustion <=> \A s \in FailureScenario : LedgerShows(s)
<1>1. ASSUME NEW s \in FailureScenario
      PROVE  /\ status_report(s).attempted <=> ledger[s].attempt_count > 0
             /\ status_report(s).state = ledger[s].state
             /\ status_report(s).escalated = ledger[s].escalated
             /\ recipe_for(s).max_attempts = 1
  <2>1. recipe_for(s).max_attempts = 1
    BY Recipes
  <2> QED BY Zenon, <2>1 DEF status_report
<1>2. ASSUME LedgerTellsExhaustion, NEW s \in FailureScenario
      PROVE  LedgerShows(s)
  <2>1. ledger[s].attempt_count > 0 <=> attempts[s] > 0
    BY Zenon, <1>1, <1>2 DEF LedgerTellsExhaustion
  <2>2. ledger[s].attempt_count > 0 => ledger[s].attempt_count + ledger[s].attempts_remaining = 1
    BY Zenon, <1>1, <1>2 DEF LedgerTellsExhaustion
  <2>3. ledger[s].state = "Exhausted" <=> ledger[s].escalated
    BY Zenon, <1>1, <1>2 DEF LedgerTellsExhaustion
  <2> QED BY Zenon, <2>1, <2>2, <2>3 DEF LedgerShows
<1>3. ASSUME \A s \in FailureScenario : LedgerShows(s), NEW s \in FailureScenario
      PROVE  /\ status_report(s).attempted <=> attempts[s] > 0
             /\ status_report(s).attempted =>
                  ledger[s].attempt_count + ledger[s].attempts_remaining
                    = recipe_for(s).max_attempts
             /\ status_report(s).state = "Exhausted" <=> status_report(s).escalated
  <2>1. LedgerShows(s)
    BY <1>3
  <2>2. status_report(s).attempted <=> attempts[s] > 0
    BY Zenon, <1>1, <2>1 DEF LedgerShows
  <2>3. status_report(s).attempted =>
           ledger[s].attempt_count + ledger[s].attempts_remaining
             = recipe_for(s).max_attempts
    BY Zenon, <1>1, <2>1 DEF LedgerShows
  <2>4. status_report(s).state = "Exhausted" <=> status_report(s).escalated
    BY Zenon, <1>1, <2>1 DEF LedgerShows
  <2> QED BY Zenon, <2>2, <2>3, <2>4
<1> QED BY Zenon, <1>2, <1>3 DEF LedgerTellsExhaustion

LEMMA ReportPrimed ==
  LedgerTellsExhaustion' <=> (\A s \in FailureScenario : LedgerShows(s))'
BY Report, PTL

LEMMA RecoveryStart == RecoveryInit => RecoveryIInv
<1> SUFFICES ASSUME RecoveryInit PROVE RecoveryIInv
  OBVIOUS
<1>1. RecoveryTypes
  BY DEF RecoveryInit, RecoveryTypes, LedgerEntry, NoEntry
<1>2. \A s \in FailureScenario : ledger[s] = NoEntry /\ attempts[s] = 0 /\ ran[s] = 0
  BY DEF RecoveryInit
<1>3. Untouched
  BY <1>2 DEF Untouched, NoEntry
<1>4. LedgerTellsExhaustion
  BY <1>2, Report DEF LedgerShows, NoEntry
<1>5. NoStepTwice
  BY <1>2, Recipes DEF NoStepTwice, NoEntry
<1>6. EscalationsAreTold
  BY <1>2 DEF RecoveryInit, EscalationsAreTold, NoEntry
<1> QED BY <1>1, <1>3, <1>4, <1>5, <1>6 DEF RecoveryIInv

\* What one call of attempt_recovery does to the scenario it is for: the new
\* entry, the steps it ran and the verdict that is appended to the events.
RecoveryCall(s, n, v) ==
  /\ recovery_events' = recovery_events \o <<"RecoveryAttempted", v>>
  /\ v \in {"RecoverySucceeded", "RecoveryFailed", "Escalated"}
  /\ attempts' = [attempts EXCEPT ![s] = 1]
  /\ n \in Nat /\ ran[s] + n <= Len(recipe_for(s).steps)
  /\ ran' = [ran EXCEPT ![s] = @ + n]
  /\ \E e \in LedgerEntry :
       /\ ledger' = [ledger EXCEPT ![s] = e]
       /\ e.attempt_count = 1 /\ e.attempts_remaining = 0
       /\ e.succeeded = ran[s] + n
       /\ e.state = "Exhausted" <=> e.escalated
       /\ e.state = "Exhausted" <=> v = "Escalated"
       /\ ledger[s].state = "Exhausted" => e.state = "Exhausted"

LEMMA EntryEscalated ==
  ASSUME NEW r \in LedgerEntry
  PROVE  [r EXCEPT !.attempt_count = 1, !.attempts_remaining = 0,
                   !.state = "Exhausted", !.escalated = TRUE] \in LedgerEntry
<1>1. 0 \in 0..1 /\ 1 \in 0..1
  OBVIOUS
<1> QED BY Zenon, <1>1 DEF LedgerEntry, RecoveryAttemptState

LEMMA RecoveryRefused ==
  ASSUME RecoveryIInv, NEW s \in FailureScenario, recovery_exhausted(s)
  PROVE  RecoveryCall(s, 0, "Escalated")
<1>1. /\ attempts \in [FailureScenario -> 0..1] /\ attempts[s] = 1
      /\ recipe_for(s).max_attempts = 1
  BY Recipes DEF RecoveryIInv, RecoveryTypes, recovery_exhausted
<1>2. /\ ledger[s] \in LedgerEntry /\ ledger \in [FailureScenario -> LedgerEntry]
      /\ ran[s] \in Nat /\ ran \in [FailureScenario -> Nat]
  BY DEF RecoveryIInv, RecoveryTypes
<1>3. attempts' = [attempts EXCEPT ![s] = 1]
  BY <1>1 DEF recovery_exhausted
<1>4. ran' = [ran EXCEPT ![s] = @ + 0]
  BY <1>2 DEF recovery_exhausted
<1>5. ran[s] + 0 <= Len(recipe_for(s).steps) /\ ledger[s].succeeded = ran[s] + 0
  BY <1>2, Recipes DEF RecoveryIInv, NoStepTwice
<1> DEFINE e == [ledger[s] EXCEPT !.attempt_count = attempts[s], !.attempts_remaining = 0,
                                  !.state = "Exhausted", !.escalated = TRUE]
<1>6. /\ e \in LedgerEntry /\ e.attempt_count = 1 /\ e.attempts_remaining = 0
      /\ e.succeeded = ran[s] + 0 /\ e.state = "Exhausted" /\ e.escalated = TRUE
  <2>1. e \in LedgerEntry
    <3>1. attempts[s] = 1 /\ ledger[s] \in LedgerEntry
      BY <1>1, <1>2
    <3> QED BY Zenon, <3>1, EntryEscalated
  <2>2. e.attempt_count = 1 /\ e.attempts_remaining = 0 /\ e.state = "Exhausted"
    BY <1>1, <1>2 DEF LedgerEntry
  <2>3. e.escalated = TRUE
    BY <1>2 DEF LedgerEntry
  <2>4. e.succeeded = ran[s] + 0
    BY <1>2, <1>5 DEF LedgerEntry
  <2> QED BY <2>1, <2>2, <2>3, <2>4
<1>7. ledger' = [ledger EXCEPT ![s] = e]
  <2>1. ledger' = [ledger EXCEPT ![s].attempt_count = attempts[s], ![s].attempts_remaining = 0,
                                 ![s].state = "Exhausted", ![s].escalated = TRUE]
    BY DEF recovery_exhausted
  <2> QED BY <2>1, <1>2
<1>8. recovery_events' = recovery_events \o <<"RecoveryAttempted", "Escalated">>
  BY DEF recovery_exhausted
<1> HIDE DEF e
<1> QED BY <1>3, <1>4, <1>5, <1>6, <1>7, <1>8 DEF RecoveryCall

LEMMA RecoveryRuns ==
  ASSUME RecoveryIInv, NEW s \in FailureScenario, NEW n \in 0..2, recovery_run(s, n)
  PROVE  \E v : RecoveryCall(s, n, v)
<1>1. /\ attempts \in [FailureScenario -> 0..1] /\ attempts[s] = 0
      /\ recipe_for(s).max_attempts = 1 /\ Len(recipe_for(s).steps) \in 1..2
      /\ n \in 0..Len(recipe_for(s).steps)
  BY Recipes DEF RecoveryIInv, RecoveryTypes, recovery_run
<1>2. /\ ledger[s] \in LedgerEntry /\ ledger \in [FailureScenario -> LedgerEntry]
      /\ ran[s] = 0 /\ ran \in [FailureScenario -> Nat]
      /\ ledger[s].state = "None"
  BY <1>1 DEF RecoveryIInv, RecoveryTypes, Untouched
<1> DEFINE state == CASE n = Len(recipe_for(s).steps) -> "Succeeded"
                      [] n = 0     -> "Exhausted"
                      [] OTHER     -> "Failed"
           e == [state |-> state, attempt_count |-> attempts[s] + 1,
                 attempts_remaining |-> recipe_for(s).max_attempts - (attempts[s] + 1),
                 succeeded |-> n, escalated |-> state = "Exhausted"]
<1>3. /\ attempts' = [attempts EXCEPT ![s] = @ + 1]
      /\ ran' = [ran EXCEPT ![s] = @ + n]
      /\ ledger' = [ledger EXCEPT ![s] = e]
      /\ recovery_events' = recovery_events \o <<"RecoveryAttempted", Verdict(state)>>
  BY Zenon DEF recovery_run
<1>4. state \in {"Succeeded", "Exhausted", "Failed"}
  BY <1>1
<1> HIDE DEF state
<1>5. /\ Verdict(state) \in {"RecoverySucceeded", "RecoveryFailed", "Escalated"}
      /\ state = "Exhausted" <=> Verdict(state) = "Escalated"
  BY <1>4 DEF Verdict
<1>6. attempts' = [attempts EXCEPT ![s] = 1]
  BY <1>1, <1>3
<1>7. e.escalated <=> state = "Exhausted"
  BY Zenon
<1>8. e.state = state /\ e.attempt_count = 1 /\ e.attempts_remaining = 0 /\ e.succeeded = n
  BY <1>1
<1>9. e \in LedgerEntry
  BY <1>1, <1>4 DEF LedgerEntry, RecoveryAttemptState
<1> HIDE DEF e
<1>10. n \in Nat /\ ran[s] + n <= Len(recipe_for(s).steps) /\ e.succeeded = ran[s] + n
  BY <1>1, <1>2, <1>8
<1>11. /\ e.state = "Exhausted" <=> e.escalated
       /\ e.state = "Exhausted" <=> Verdict(state) = "Escalated"
       /\ ledger[s].state = "Exhausted" => e.state = "Exhausted"
  BY <1>2, <1>5, <1>7, <1>8
<1>12. RecoveryCall(s, n, Verdict(state))
  BY Zenon, <1>3, <1>5, <1>6, <1>8, <1>9, <1>10, <1>11 DEF RecoveryCall
<1> QED BY <1>12

LEMMA RecoveryCallKeeps ==
  ASSUME RecoveryIInv, NEW s \in FailureScenario, NEW n, NEW v, RecoveryCall(s, n, v)
  PROVE  RecoveryIInv'
<1>1. PICK e \in LedgerEntry :
        /\ ledger' = [ledger EXCEPT ![s] = e]
        /\ e.attempt_count = 1 /\ e.attempts_remaining = 0
        /\ e.succeeded = ran[s] + n
        /\ e.state = "Exhausted" <=> e.escalated
        /\ e.state = "Exhausted" <=> v = "Escalated"
        /\ ledger[s].state = "Exhausted" => e.state = "Exhausted"
  BY DEF RecoveryCall
<1>2. /\ attempts \in [FailureScenario -> 0..1] /\ ran \in [FailureScenario -> Nat]
      /\ ledger \in [FailureScenario -> LedgerEntry]
  BY DEF RecoveryIInv, RecoveryTypes
<1>3. /\ attempts' = [attempts EXCEPT ![s] = 1]
      /\ n \in Nat /\ ran[s] + n <= Len(recipe_for(s).steps)
      /\ ran' = [ran EXCEPT ![s] = @ + n]
      /\ recovery_events' = recovery_events \o <<"RecoveryAttempted", v>>
      /\ v \in {"RecoverySucceeded", "RecoveryFailed", "Escalated"}
  BY DEF RecoveryCall
<1> DEFINE Told == {"RecoveryAttempted", "RecoverySucceeded", "RecoveryFailed", "Escalated"}
           ev == recovery_events
<1>4. PICK m \in Nat : ev \in Seq(Told) /\ Len(ev) = 2 * m
  BY DEF RecoveryIInv, RecoveryTypes
<1>5. /\ ev' \in Seq(Told) /\ Len(ev') = 2 * (m + 1)
      /\ \A i \in 1..(2 * m) : ev'[i] = ev[i]
      /\ ev'[2 * m + 1] = "RecoveryAttempted" /\ ev'[2 * m + 2] = v
  <2>1. "RecoveryAttempted" \in Told /\ v \in Told
    BY <1>3
  <2> HIDE DEF Told
  <2>2. <<"RecoveryAttempted", v>> \in Seq(Told)
    BY <2>1
  <2>3. ev' = ev \o <<"RecoveryAttempted", v>>
    BY <1>3
  <2>4. ev' \in Seq(Told)
    BY <1>4, <2>2, <2>3
  <2>5. Len(ev') = 2 * m + 2
    BY <1>4, <2>2, <2>3
  <2>6. /\ \A i \in 1..(2 * m) : ev'[i] = ev[i]
        /\ ev'[2 * m + 1] = "RecoveryAttempted" /\ ev'[2 * m + 2] = v
    BY <1>4, <2>2, <2>3
  <2> QED BY <2>4, <2>5, <2>6
<1>6. RecoveryTypes'
  <2>1. attempts' \in [FailureScenario -> 0..1] /\ ran' \in [FailureScenario -> Nat]
    BY <1>2, <1>3
  <2>2. ledger' \in [FailureScenario -> LedgerEntry]
    BY <1>1, <1>2
  <2>3. \E k \in Nat : Len(ev') = 2 * k
    BY <1>5
  <2> QED BY <1>5, <2>1, <2>2, <2>3 DEF RecoveryTypes
<1>7. \A r \in FailureScenario :
        r # s => ledger'[r] = ledger[r] /\ attempts'[r] = attempts[r] /\ ran'[r] = ran[r]
  BY <1>1, <1>2, <1>3
<1>8. ledger'[s] = e /\ attempts'[s] = 1 /\ ran'[s] = ran[s] + n
  BY <1>1, <1>2, <1>3
<1>9. Untouched'
  BY <1>1, <1>7, <1>8 DEF RecoveryIInv, Untouched
<1>10. NoStepTwice'
  BY <1>1, <1>3, <1>7, <1>8 DEF RecoveryIInv, NoStepTwice
<1>11. LedgerTellsExhaustion'
  <2>1. \A r \in FailureScenario : LedgerShows(r)
    BY Report DEF RecoveryIInv
  <2>2. ASSUME NEW r \in FailureScenario PROVE LedgerShows(r)'
    <3>1. CASE r = s
      BY <3>1, <1>1, <1>8 DEF LedgerShows
    <3>2. CASE r # s
      BY <3>2, <2>1, <1>7 DEF LedgerShows
    <3> QED BY <3>1, <3>2
  <2> QED BY <2>2, ReportPrimed
<1>12. EscalationsAreTold'
  <2>1. DOMAIN ev = 1..(2 * m) /\ DOMAIN ev' = 1..(2 * m + 2)
    BY <1>4, <1>5
  <2>2. \A i \in 1..(2 * m) : ev[i] = "Escalated" => i % 2 = 0
    BY <2>1 DEF RecoveryIInv, EscalationsAreTold
  <2>3. \A i \in DOMAIN ev' : ev'[i] = "Escalated" => i % 2 = 0
    <3> SUFFICES ASSUME NEW i \in 1..(2 * m + 2), ev'[i] = "Escalated" PROVE i % 2 = 0
      BY <2>1
    <3>1. CASE i \in 1..(2 * m)
      BY <3>1, <2>2, <1>5
    <3>2. CASE i = 2 * m + 1
      BY <3>2, <1>5
    <3>3. CASE i = 2 * m + 2
      <4>1. (2 * m + 2) % 2 = 0
        OBVIOUS
      <4> QED BY <3>3, <4>1
    <3> QED BY <3>1, <3>2, <3>3
  <2>4. (\E r \in FailureScenario : ledger[r].state = "Exhausted")
          <=> \E i \in 1..(2 * m) : ev[i] = "Escalated"
    BY <2>1 DEF RecoveryIInv, EscalationsAreTold
  <2>5. (\E r \in FailureScenario : ledger'[r].state = "Exhausted")
          <=> \/ \E r \in FailureScenario : ledger[r].state = "Exhausted"
              \/ v = "Escalated"
    BY <1>1, <1>7, <1>8
  <2>6. (\E i \in DOMAIN ev' : ev'[i] = "Escalated")
          <=> \/ \E i \in 1..(2 * m) : ev[i] = "Escalated"
              \/ v = "Escalated"
    BY <2>1, <1>5
  <2> QED BY <2>3, <2>4, <2>5, <2>6 DEF EscalationsAreTold
<1> QED BY <1>6, <1>9, <1>10, <1>11, <1>12 DEF RecoveryIInv

LEMMA RecoveryStep ==
  ASSUME RecoveryIInv, RecoveryNext \/ UNCHANGED recoveryVars
  PROVE  RecoveryIInv'
<1>1. CASE RecoveryNext
  <2>1. PICK s \in FailureScenario :
          recovery_exhausted(s) \/ \E n \in 0..2 : recovery_run(s, n)
    BY <1>1 DEF RecoveryNext, attempt_recovery
  <2>2. CASE recovery_exhausted(s)
    BY <2>2, RecoveryRefused, RecoveryCallKeeps
  <2>3. ASSUME NEW n \in 0..2, recovery_run(s, n) PROVE RecoveryIInv'
    BY <2>3, RecoveryRuns, RecoveryCallKeeps
  <2> QED BY <2>1, <2>2, <2>3
<1>2. CASE UNCHANGED recoveryVars
  BY <1>2, ZenonT(30) DEF recoveryVars, RecoveryIInv, RecoveryTypes, Untouched, NoStepTwice,
              LedgerTellsExhaustion, status_report, EscalationsAreTold
<1> QED BY <1>1, <1>2

\* No recovery step is run twice for one scenario, the ledger tells an untouched
\* scenario from an exhausted one, and every escalation is told by an event,
\* however many calls of attempt_recovery are made and whatever their steps do
\* (recovery_recipes.rs).
THEOREM RecoveriesAreCounted == PartSpec => []RecoveryRecipesChecked
<1>1. PartInit => RecoveryIInv
  BY RecoveryStart DEF PartInit
<1>2. RecoveryIInv /\ [PartNext]_partVars => RecoveryIInv'
  BY OtherSteps, RecoveryStep
<1>3. RecoveryIInv => RecoveryRecipesChecked
  <2> SUFFICES ASSUME RecoveryIInv PROVE RecoveryTypeOK
    BY DEF RecoveryIInv, RecoveryRecipesChecked, RecoveryRecipesSound
  <2>1. /\ attempts \in [FailureScenario -> 0..1]
        /\ ledger \in [FailureScenario -> LedgerEntry]
    BY DEF RecoveryIInv, RecoveryTypes
  <2> QED BY <2>1 DEF RecoveryTypeOK, LedgerEntry
<1> QED BY <1>1, <1>2, <1>3, PTL DEF PartSpec

-----------------------------------------------------------------------------
(* Freshness of a branch *)

FreshTypes ==
  /\ main_remote \in Nat /\ main_local \in Nat /\ base \in Nat /\ own \in Nat
  /\ on_main \in BOOLEAN

FreshIInv == FreshTypes /\ UpdateBringsWhatIsMissing /\ TestsSeeAllOfMain

\* What is reported missing is what the ref has and the branch lacks, and only a
\* branch that lacks nothing is called fresh.
LEMMA Missing ==
  ASSUME NEW ref \in Nat, base \in Nat, own \in Nat,
         NEW okBehind \in BOOLEAN, NEW okAhead \in BOOLEAN
  PROVE  LET f == check_freshness_in(ref, okBehind, okAhead)
         IN  /\ f.behind = IF okBehind /\ ref > base THEN ref - base ELSE 0
             /\ f.kind = "Fresh" => f.behind = 0
<1> DEFINE b == rev_list_count(ref, base, okBehind)
           a == IF okAhead THEN own + rev_list_count(base, ref, TRUE) ELSE 0
<1>1. b \in Nat /\ b = IF okBehind /\ ref > base THEN ref - base ELSE 0
  BY DEF rev_list_count
<1>2. a \in Nat
  BY DEF rev_list_count
<1>3. check_freshness_in(ref, okBehind, okAhead) =
        CASE b = 0 -> [kind |-> "Fresh", ahead |-> 0, behind |-> 0]
          [] b > 0 /\ a > 0 -> [kind |-> "Diverged", ahead |-> a, behind |-> b]
          [] b > 0 /\ a = 0 -> [kind |-> "Stale", ahead |-> 0, behind |-> b]
  BY DEF check_freshness_in
<1> HIDE DEF a, b
<1>4. \/ b = 0 /\ check_freshness_in(ref, okBehind, okAhead)
                    = [kind |-> "Fresh", ahead |-> 0, behind |-> 0]
      \/ check_freshness_in(ref, okBehind, okAhead)
           = [kind |-> "Diverged", ahead |-> a, behind |-> b]
      \/ check_freshness_in(ref, okBehind, okAhead)
           = [kind |-> "Stale", ahead |-> 0, behind |-> b]
  BY <1>1, <1>2, <1>3
<1> QED BY <1>1, <1>4

LEMMA MainRef ==
  ASSUME FreshTypes
  PROVE  /\ resolve_main_ref \in Nat
         /\ resolve_main_ref <= IF main_remote > main_local THEN main_remote ELSE main_local
BY DEF FreshTypes, resolve_main_ref

LEMMA FreshStep ==
  ASSUME FreshIInv, FreshNext \/ UNCHANGED freshVars
  PROVE  FreshIInv'
<1>1. FreshTypes /\ main_remote \in Nat /\ main_local \in Nat /\ base \in Nat /\ own \in Nat
  BY DEF FreshIInv, FreshTypes
<1>2. CASE PushToMain
  BY <1>1, <1>2 DEF PushToMain, FreshIInv, FreshTypes, UpdateBringsWhatIsMissing, TestsSeeAllOfMain
<1>3. CASE PullMain
  BY <1>1, <1>3 DEF PullMain, FreshIInv, FreshTypes, UpdateBringsWhatIsMissing, TestsSeeAllOfMain
<1>4. CASE CommitOnBranch
  BY <1>1, <1>4 DEF CommitOnBranch, FreshIInv, FreshTypes, UpdateBringsWhatIsMissing, TestsSeeAllOfMain
<1>5. ASSUME NEW p \in StaleBranchPolicy, NEW okB \in BOOLEAN, NEW okA \in BOOLEAN,
             UpdateBranch(p, okB, okA)
      PROVE  FreshIInv'
  <2>1. /\ base' = base + check_freshness_in(resolve_main_ref, okB, okA).behind
        /\ UNCHANGED <<main_remote, main_local, own, on_main, tested_on>>
    BY <1>5 DEF UpdateBranch
  <2>2. check_freshness_in(resolve_main_ref, okB, okA).behind
          = IF okB /\ resolve_main_ref > base THEN resolve_main_ref - base ELSE 0
    BY <1>1, Missing, MainRef
  <2>3. base' \in Nat /\ (base' = base \/ base' = resolve_main_ref)
    BY <2>1, <2>2, <1>1, MainRef
  <2>4. UpdateBringsWhatIsMissing'
    BY <2>1, <2>3, <1>1, MainRef DEF FreshIInv, UpdateBringsWhatIsMissing
  <2> QED BY <2>1, <2>3, <2>4 DEF FreshIInv, FreshTypes, TestsSeeAllOfMain
<1>6. ASSUME NEW okN \in BOOLEAN, NEW okB \in BOOLEAN, NEW okA \in BOOLEAN,
             run_bash(okN, okB, okA)
      PROVE  FreshIInv'
  <2> DEFINE f == check_freshness_in(resolve_main_ref, okB, okA)
  <2>1. okN /\ resolve_main_ref > 0 => f.kind = "Fresh"
    BY <1>6 DEF run_bash, workspace_test_branch_preflight
  <2>2. /\ f.behind = IF okB /\ resolve_main_ref > base THEN resolve_main_ref - base ELSE 0
        /\ f.kind = "Fresh" => f.behind = 0
    BY <1>1, Missing, MainRef
  <2> HIDE DEF f
  <2>3. okN /\ okB => base >= resolve_main_ref
    BY <2>1, <2>2, <1>1, MainRef
  <2> DEFINE t == [has |-> base, ref |-> resolve_main_ref, answered |-> okN /\ okB]
  <2>4. tested_on' = tested_on \cup {t} /\ UNCHANGED <<main_remote, main_local, base, own, on_main>>
    BY <1>6 DEF run_bash
  <2>5. t.answered => t.has >= t.ref
    <3>1. t.answered <=> okN /\ okB
      BY Zenon
    <3>2. t.has = base /\ t.ref = resolve_main_ref
      BY Zenon
    <3> HIDE DEF t
    <3> QED BY <3>1, <3>2, <2>3
  <2> HIDE DEF t
  <2>6. TestsSeeAllOfMain'
    BY <2>4, <2>5 DEF FreshIInv, TestsSeeAllOfMain
  <2> QED BY <2>4, <2>6 DEF FreshIInv, FreshTypes, UpdateBringsWhatIsMissing
<1>7. CASE UNCHANGED freshVars
  BY <1>7 DEF freshVars, FreshIInv, FreshTypes, UpdateBringsWhatIsMissing, TestsSeeAllOfMain
<1> QED BY <1>2, <1>3, <1>4, <1>5, <1>6, <1>7 DEF FreshNext

LEMMA FreshStart == FreshInit => FreshIInv
BY DEF FreshInit, FreshIInv, FreshTypes, UpdateBringsWhatIsMissing, TestsSeeAllOfMain

-----------------------------------------------------------------------------
(* Branch locks *)

PathParts == PathNames \cup {"file"}

\* A prefix agrees with the sequence at each of its positions.
LEMMA PrefixPointwise ==
  ASSUME NEW S, NEW s \in Seq(S), NEW t \in Seq(S)
  PROVE  IsPrefix(s, t) <=> Len(s) <= Len(t) /\ \A i \in 1..Len(s) : s[i] = t[i]
<1>1. SubSeq(s, 1, Len(s)) = s
  OBVIOUS
<1>2. ASSUME Len(s) <= Len(t)
      PROVE  SubSeq(t, 1, Len(s)) = s <=> \A i \in 1..Len(s) : s[i] = t[i]
  <2>1. /\ SubSeq(t, 1, Len(s)) \in Seq(S) /\ Len(SubSeq(t, 1, Len(s))) = Len(s)
        /\ \A i \in 1..Len(s) : SubSeq(t, 1, Len(s))[i] = t[i]
    BY <1>2
  <2> QED BY <2>1
<1> QED BY <1>1, <1>2 DEF IsPrefix

LEMMA PrefixTransitive ==
  ASSUME NEW S, NEW s \in Seq(S), NEW t \in Seq(S), NEW u \in Seq(S),
         IsPrefix(s, t), IsPrefix(t, u)
  PROVE  IsPrefix(s, u)
<1>1. /\ Len(s) <= Len(t) /\ \A i \in 1..Len(s) : s[i] = t[i]
      /\ Len(t) <= Len(u) /\ \A i \in 1..Len(t) : t[i] = u[i]
  BY PrefixPointwise
<1>2. Len(s) <= Len(u) /\ \A i \in 1..Len(s) : s[i] = u[i]
  BY <1>1
<1> QED BY <1>2, PrefixPointwise

\* Two prefixes of one sequence: one of them is a prefix of the other.
LEMMA PrefixesCompare ==
  ASSUME NEW S, NEW s \in Seq(S), NEW t \in Seq(S), NEW u \in Seq(S),
         IsPrefix(s, u), IsPrefix(t, u)
  PROVE  IsPrefix(s, t) \/ IsPrefix(t, s)
<1>1. /\ Len(s) <= Len(u) /\ \A i \in 1..Len(s) : s[i] = u[i]
      /\ Len(t) <= Len(u) /\ \A i \in 1..Len(t) : t[i] = u[i]
  BY PrefixPointwise
<1>2. CASE Len(s) <= Len(t)
  <2>1. \A i \in 1..Len(s) : s[i] = t[i]
    BY <1>1, <1>2
  <2> QED BY <1>2, <2>1, PrefixPointwise
<1>3. CASE Len(t) <= Len(s)
  <2>1. \A i \in 1..Len(t) : t[i] = s[i]
    BY <1>1, <1>3
  <2> QED BY <1>3, <2>1, PrefixPointwise
<1>4. Len(s) \in Nat /\ Len(t) \in Nat
  OBVIOUS
<1> QED BY <1>2, <1>3, <1>4

\* A module is a prefix of its file, and of itself.
LEMMA FileOfModule ==
  ASSUME NEW S, NEW s \in Seq(S), NEW x \in S
  PROVE  Append(s, x) \in Seq(S) /\ IsPrefix(s, Append(s, x)) /\ IsPrefix(s, s)
<1>1. /\ Append(s, x) \in Seq(S) /\ Len(Append(s, x)) = Len(s) + 1
      /\ \A i \in 1..Len(s) : Append(s, x)[i] = s[i] /\ Len(s) \in Nat
  OBVIOUS
<1>2. Len(s) <= Len(Append(s, x)) /\ Len(s) <= Len(s) /\ \A i \in 1..Len(s) : s[i] = Append(s, x)[i]
  BY <1>1
<1> QED BY <1>1, <1>2, PrefixPointwise

LEMMA PathsAreSequences ==
  /\ \A m \in ModulePaths : m \in Seq(PathParts)
  /\ \A m \in ModulePaths : Append(m, "file") \in Seq(PathParts)
  /\ "file" \in PathParts
<1>1. "file" \in PathParts /\ \A a \in PathNames : a \in PathParts
  BY DEF PathParts
<1>2. ASSUME NEW m \in ModulePaths PROVE m \in Seq(PathParts)
  <2>1. \/ \E a \in PathNames : m = <<a>>
        \/ \E a, b \in PathNames : m = <<a, b>>
    BY DEF ModulePaths
  <2>2. ASSUME NEW a \in PathNames, m = <<a>> PROVE m \in Seq(PathParts)
    BY <1>1, <2>2
  <2>3. ASSUME NEW a \in PathNames, NEW b \in PathNames, m = <<a, b>> PROVE m \in Seq(PathParts)
    BY <1>1, <2>3
  <2> QED BY <2>1, <2>2, <2>3
<1> QED BY <1>1, <1>2, FileOfModule

\* Two modules overlap exactly when a file lies below both.
LEMMA OverlapIsSharedFile ==
  ASSUME NEW l \in ModulePaths, NEW r \in ModulePaths
  PROVE  modules_overlap(l, r)
           <=> \E m \in ModulePaths : IsPrefix(l, Append(m, "file")) /\ IsPrefix(r, Append(m, "file"))
<1>1. l \in Seq(PathParts) /\ r \in Seq(PathParts) /\ "file" \in PathParts
  BY PathsAreSequences
<1>2. ASSUME IsPrefix(l, r)
      PROVE  IsPrefix(l, Append(r, "file")) /\ IsPrefix(r, Append(r, "file"))
  <2>1. Append(r, "file") \in Seq(PathParts) /\ IsPrefix(r, Append(r, "file"))
    BY <1>1, FileOfModule
  <2> QED BY <1>1, <1>2, <2>1, PrefixTransitive
<1>3. ASSUME IsPrefix(r, l)
      PROVE  IsPrefix(l, Append(l, "file")) /\ IsPrefix(r, Append(l, "file"))
  <2>1. Append(l, "file") \in Seq(PathParts) /\ IsPrefix(l, Append(l, "file"))
    BY <1>1, FileOfModule
  <2> QED BY <1>1, <1>3, <2>1, PrefixTransitive
<1>4. ASSUME NEW m \in ModulePaths,
             IsPrefix(l, Append(m, "file")), IsPrefix(r, Append(m, "file"))
      PROVE  modules_overlap(l, r)
  <2>1. Append(m, "file") \in Seq(PathParts)
    BY PathsAreSequences
  <2> QED BY <1>1, <1>4, <2>1, PrefixesCompare DEF modules_overlap
<1> QED BY <1>2, <1>3, <1>4 DEF modules_overlap

-----------------------------------------------------------------------------
\* The intents are well formed and a lane is named by its position.
Intent == [lane : Nat, branch : {"main", "dev"}, modules : SUBSET ModulePaths]

LockIInv ==
  /\ intents \in Seq(Intent)
  /\ \A i \in DOMAIN intents : intents[i].lane = i

LEMMA LockStep ==
  ASSUME LockIInv, LockNext \/ UNCHANGED lockVars
  PROVE  LockIInv'
<1>1. CASE LockNext
  <2>1. PICK b \in {"main", "dev"}, ms \in SUBSET ModulePaths : DeclareIntent(b, ms)
    BY <1>1 DEF LockNext
  <2> DEFINE new == BranchLockIntent(Len(intents) + 1, b, ms)
  <2>2. intents \in Seq(Intent) /\ \A i \in 1..Len(intents) : intents[i].lane = i
    BY DEF LockIInv
  <2>3. new \in Intent /\ new.lane = Len(intents) + 1
    BY <2>2 DEF BranchLockIntent, Intent
  <2>4. intents' = Append(intents, new)
    BY <2>1 DEF DeclareIntent
  <2> HIDE DEF new
  <2>5. intents' \in Seq(Intent) /\ DOMAIN intents' = 1..(Len(intents) + 1)
    BY <2>2, <2>3, <2>4
  <2>6. \A i \in 1..(Len(intents) + 1) : intents'[i].lane = i
    BY <2>2, <2>3, <2>4
  <2> QED BY <2>5, <2>6 DEF LockIInv
<1>2. CASE UNCHANGED lockVars
  BY <1>2 DEF lockVars, LockIInv
<1> QED BY <1>1, <1>2

LEMMA LockStart == LockInit => LockIInv
BY DEF LockInit, LockIInv

\* The modules reported for two sets: the wider of each pair that overlaps.
LEMMA Overlapping ==
  ASSUME NEW left, NEW right, NEW m
  PROVE  m \in overlapping_modules(left, right)
           <=> \E l \in left, r \in right : modules_overlap(l, r) /\ m = shared_scope(l, r)
<1> DEFINE Q == {q \in left \X right : modules_overlap(q[1], q[2])}
<1>1. m \in overlapping_modules(left, right) <=> \E p \in Q : m = shared_scope(p[1], p[2])
  BY Zenon DEF overlapping_modules
<1>2. ASSUME NEW p \in Q PROVE p[1] \in left /\ p[2] \in right /\ modules_overlap(p[1], p[2])
  OBVIOUS
<1>3. ASSUME NEW l \in left, NEW r \in right, modules_overlap(l, r)
      PROVE  <<l, r>> \in Q /\ <<l, r>>[1] = l /\ <<l, r>>[2] = r
  BY <1>3
<1> HIDE DEF Q
<1>4. ASSUME NEW p \in Q, m = shared_scope(p[1], p[2])
      PROVE  \E l \in left, r \in right : modules_overlap(l, r) /\ m = shared_scope(l, r)
  BY Zenon, <1>2, <1>4
<1>5. ASSUME NEW l \in left, NEW r \in right, modules_overlap(l, r), m = shared_scope(l, r)
      PROVE  \E p \in Q : m = shared_scope(p[1], p[2])
  BY Zenon, <1>3, <1>5
<1> QED BY Zenon, <1>1, <1>4, <1>5

\* A module is reported for lanes i < j exactly when they share a branch and the
\* module is one of those where they overlap.
LEMMA Reported ==
  ASSUME LockIInv, NEW i \in DOMAIN intents, NEW j \in DOMAIN intents, i < j, NEW m
  PROVE  (\E c \in detect_branch_lock_collisions(intents) : c.lane_ids = <<i, j>> /\ c.module = m)
           <=> /\ intents[i].branch = intents[j].branch
               /\ m \in overlapping_modules(intents[i].modules, intents[j].modules)
<1> DEFINE Q == {q \in (DOMAIN intents) \X (DOMAIN intents) :
                   q[1] < q[2] /\ intents[q[1]].branch = intents[q[2]].branch}
           c(p, n) == [branch |-> intents[p[1]].branch, module |-> n,
                       lane_ids |-> <<intents[p[1]].lane, intents[p[2]].lane>>]
           O(p) == overlapping_modules(intents[p[1]].modules, intents[p[2]].modules)
<1>1. detect_branch_lock_collisions(intents) = UNION {{c(p, n) : n \in O(p)} : p \in Q}
  BY Zenon DEF detect_branch_lock_collisions
<1>2. \A d : d \in detect_branch_lock_collisions(intents) <=> \E p \in Q : \E n \in O(p) : d = c(p, n)
  <2> HIDE DEF c, O, Q
  <2> DEFINE F(p) == {c(p, n) : n \in O(p)}
  <2>1. \A p, d : d \in F(p) <=> \E n \in O(p) : d = c(p, n)
    BY Zenon
  <2>2. detect_branch_lock_collisions(intents) = UNION {F(p) : p \in Q}
    BY Zenon, <1>1
  <2> HIDE DEF F
  <2>3. \A d : d \in UNION {F(p) : p \in Q} <=> \E p \in Q : d \in F(p)
    BY Zenon
  <2>4. ASSUME NEW d, d \in detect_branch_lock_collisions(intents)
        PROVE  \E p \in Q : \E n \in O(p) : d = c(p, n)
    <3>1. PICK p \in Q : d \in F(p)
      BY Zenon, <2>2, <2>3, <2>4
    <3> QED BY Zenon, <3>1, <2>1
  <2>5. ASSUME NEW d, NEW p \in Q, NEW n \in O(p), d = c(p, n)
        PROVE  d \in detect_branch_lock_collisions(intents)
    <3>1. d \in F(p)
      BY Zenon, <2>1, <2>5
    <3> QED BY Zenon, <3>1, <2>2, <2>3
  <2> QED BY Zenon, <2>4, <2>5
<1>3. ASSUME NEW p \in Q
      PROVE  /\ p[1] \in DOMAIN intents /\ p[2] \in DOMAIN intents
             /\ intents[p[1]].branch = intents[p[2]].branch
             /\ p[1] = intents[p[1]].lane /\ p[2] = intents[p[2]].lane
  BY DEF LockIInv
<1>4. ASSUME intents[i].branch = intents[j].branch
      PROVE  <<i, j>> \in Q /\ <<i, j>>[1] = i /\ <<i, j>>[2] = j
  <2>1. <<i, j>>[1] = i /\ <<i, j>>[2] = j /\ <<i, j>> \in (DOMAIN intents) \X (DOMAIN intents)
    OBVIOUS
  <2>2. <<i, j>>[1] < <<i, j>>[2] /\ intents[<<i, j>>[1]].branch = intents[<<i, j>>[2]].branch
    BY <1>4, <2>1
  <2> QED BY Zenon, <2>1, <2>2
<1>5. intents[i].lane = i /\ intents[j].lane = j
  BY DEF LockIInv
<1>6. \A p, n : /\ c(p, n).module = n
                /\ c(p, n).lane_ids = <<intents[p[1]].lane, intents[p[2]].lane>>
  BY Zenon
<1> HIDE DEF Q, c
<1>7. ASSUME NEW p \in Q, NEW n \in O(p), c(p, n).lane_ids = <<i, j>>, c(p, n).module = m
      PROVE  p[1] = i /\ p[2] = j /\ m \in O(p) /\ intents[i].branch = intents[j].branch
  <2>1. <<intents[p[1]].lane, intents[p[2]].lane>> = <<i, j>> /\ n = m
    BY <1>6, <1>7
  <2>2. intents[p[1]].lane = i /\ intents[p[2]].lane = j
    BY <2>1
  <2> QED BY <2>1, <2>2, <1>3, <1>7
<1>8. ASSUME intents[i].branch = intents[j].branch,
             m \in overlapping_modules(intents[i].modules, intents[j].modules)
      PROVE  \E d \in detect_branch_lock_collisions(intents) : d.lane_ids = <<i, j>> /\ d.module = m
  <2>1. <<i, j>> \in Q /\ m \in O(<<i, j>>)
    BY <1>4, <1>8
  <2>2. c(<<i, j>>, m) \in detect_branch_lock_collisions(intents)
    BY Zenon, <1>2, <2>1
  <2>3. c(<<i, j>>, m).module = m /\ c(<<i, j>>, m).lane_ids = <<i, j>>
    BY <1>4, <1>5, <1>6, <1>8
  <2> QED BY <2>2, <2>3
<1>9. ASSUME NEW d \in detect_branch_lock_collisions(intents), d.lane_ids = <<i, j>>, d.module = m
      PROVE  /\ intents[i].branch = intents[j].branch
             /\ m \in overlapping_modules(intents[i].modules, intents[j].modules)
  <2>1. PICK p \in Q : \E n \in O(p) : d = c(p, n)
    BY Zenon, <1>2
  <2>2. PICK n \in O(p) : d = c(p, n)
    BY <2>1
  <2>3. p[1] = i /\ p[2] = j /\ m \in O(p) /\ intents[i].branch = intents[j].branch
    BY <1>7, <1>9, <2>2
  <2> QED BY <2>3
<1> QED BY <1>8, <1>9

LEMMA SharedFile ==
  ASSUME NEW left \in SUBSET ModulePaths, NEW right \in SUBSET ModulePaths
  PROVE  /\ FilesOf(left) \cap FilesOf(right) # {}
              <=> \E m : m \in overlapping_modules(left, right)
         /\ \A f \in FilesOf(left) \cap FilesOf(right) :
              \E m \in overlapping_modules(left, right) : IsPrefix(m, f)
<1>1. \A ms, f : f \in FilesOf(ms) <=>
        (\E m \in ModulePaths : f = Append(m, "file")) /\ \E m \in ms : IsPrefix(m, f)
  BY Zenon DEF FilesOf
<1>2. ASSUME NEW m, m \in overlapping_modules(left, right)
      PROVE  FilesOf(left) \cap FilesOf(right) # {}
  <2>1. PICK l \in left, r \in right : modules_overlap(l, r)
    BY <1>2, Overlapping
  <2>2. PICK n \in ModulePaths : IsPrefix(l, Append(n, "file")) /\ IsPrefix(r, Append(n, "file"))
    BY <2>1, OverlapIsSharedFile
  <2>3. Append(n, "file") \in FilesOf(left) /\ Append(n, "file") \in FilesOf(right)
    BY Zenon, <1>1, <2>2
  <2> QED BY <2>3
<1>3. ASSUME NEW f \in FilesOf(left) \cap FilesOf(right)
      PROVE  \E m \in overlapping_modules(left, right) : IsPrefix(m, f)
  <2>1. PICK n \in ModulePaths : f = Append(n, "file")
    BY Zenon, <1>1
  <2>2. PICK l \in left : IsPrefix(l, f)
    BY Zenon, <1>1
  <2>3. PICK r \in right : IsPrefix(r, f)
    BY Zenon, <1>1
  <2>4. modules_overlap(l, r)
    BY <2>1, <2>2, <2>3, OverlapIsSharedFile
  <2>5. shared_scope(l, r) \in overlapping_modules(left, right)
    BY <2>4, Overlapping
  <2>6. IsPrefix(shared_scope(l, r), f)
    BY <2>2, <2>3 DEF shared_scope
  <2> QED BY <2>5, <2>6
<1> QED BY <1>2, <1>3

LEMMA LocksExact == LockIInv => BranchLocksSound
<1> SUFFICES ASSUME LockIInv PROVE BranchLocksSound
  OBVIOUS
<1> DEFINE D == detect_branch_lock_collisions(intents)
           Mods(i) == intents[i].modules
<1>1. \A i \in DOMAIN intents : Mods(i) \in SUBSET ModulePaths
  <2>1. \A i \in DOMAIN intents : intents[i] \in Intent
    BY DEF LockIInv
  <2> QED BY Zenon, <2>1 DEF Intent
<1> HIDE DEF D, Mods
<1>2. ASSUME NEW i \in DOMAIN intents, NEW j \in DOMAIN intents, i < j, NEW m
      PROVE  (\E c \in D : c.lane_ids = <<i, j>> /\ c.module = m)
               <=> intents[i].branch = intents[j].branch /\ m \in overlapping_modules(Mods(i), Mods(j))
  <2> USE DEF D, Mods
  <2>1. i < j
    BY <1>2
  <2> QED BY <2>1, Reported
<1>3. ASSUME NEW i \in DOMAIN intents, NEW j \in DOMAIN intents, i < j
      PROVE  (\E c \in D : c.lane_ids = <<i, j>>)
               <=> /\ intents[i].branch = intents[j].branch
                   /\ FilesOf(Mods(i)) \cap FilesOf(Mods(j)) # {}
  <2>1. (\E c \in D : c.lane_ids = <<i, j>>)
          <=> \E m : \E c \in D : c.lane_ids = <<i, j>> /\ c.module = m
    OBVIOUS
  <2>2. FilesOf(Mods(i)) \cap FilesOf(Mods(j)) # {} <=> \E m : m \in overlapping_modules(Mods(i), Mods(j))
    BY <1>1, SharedFile
  <2>3. \A m : (\E c \in D : c.lane_ids = <<i, j>> /\ c.module = m)
                <=> intents[i].branch = intents[j].branch /\ m \in overlapping_modules(Mods(i), Mods(j))
    BY <1>2, <1>3
  <2> QED BY <2>1, <2>2, <2>3
<1>4. CollisionsAreExact
  BY Zenon, <1>3 DEF CollisionsAreExact, D, Mods
<1>5. ASSUME NEW i \in DOMAIN intents, NEW j \in DOMAIN intents, i < j,
             intents[i].branch = intents[j].branch,
             NEW f \in FilesOf(Mods(i)) \cap FilesOf(Mods(j))
      PROVE  f \in FilesOf({c.module : c \in {d \in D : d.lane_ids = <<i, j>>}})
  <2>1. PICK m \in overlapping_modules(Mods(i), Mods(j)) : IsPrefix(m, f)
    BY <1>1, SharedFile
  <2>2. PICK c \in D : c.lane_ids = <<i, j>> /\ c.module = m
    BY <1>2, <1>5
  <2>3. m \in {d.module : d \in {d \in D : d.lane_ids = <<i, j>>}}
    BY Zenon, <2>2
  <2>4. f \in {Append(n, "file") : n \in ModulePaths}
    BY Zenon DEF FilesOf
  <2> QED BY Zenon, <2>1, <2>3, <2>4 DEF FilesOf
<1>6. ReportedScopesSuffice
  BY Zenon, <1>5 DEF ReportedScopesSuffice, D, Mods
<1> QED BY <1>4, <1>6 DEF BranchLocksSound

\* A branch that is behind is brought exactly what it misses and a workspace test
\* is let through only on a branch that has all of the main ref it is compared
\* with; two lanes are told of each other exactly when they may write a file both,
\* and the reported modules hold every such file: for all commits, paths and
\* intents (stale_branch.rs, branch_lock.rs).
THEOREM BranchesAreJudged == PartSpec => []BranchesSound
<1>1. PartInit => FreshIInv /\ LockIInv
  BY FreshStart, LockStart DEF PartInit
<1>2. FreshIInv /\ LockIInv /\ [PartNext]_partVars => (FreshIInv /\ LockIInv)'
  BY OtherSteps, FreshStep, LockStep
<1>3. FreshIInv /\ LockIInv => BranchesSound
  BY LocksExact DEF FreshIInv, BranchesSound, BranchFreshnessSound
<1> QED BY <1>1, <1>2, <1>3, PTL DEF PartSpec

-----------------------------------------------------------------------------
(* Workers *)

WorkerFields ==
  {"status", "trust_auto_resolve", "trust_gate_cleared", "auto_recover", "attempts",
   "prompt_in_flight", "prompt_sent", "last_prompt", "expected_receipt", "replay_prompt",
   "last_error", "events"}

StateFiles ==
  {NoFile} \cup [worker_id : WorkerIds, status : WorkerStatus, is_ready : BOOLEAN,
                 trust_gate_cleared : BOOLEAN, prompt_in_flight : BOOLEAN]

\* What a registry call works on.
CallRecord == [id : WorkerIds, w : Worker, file : StateFiles]

\* A call record of which one field of the worker was set.
Sets(q, r, f, v) ==
  /\ q \in CallRecord /\ q.id = r.id /\ q.file = r.file
  /\ q.w[f] = v /\ \A g \in WorkerFields \ {f} : q.w[g] = r.w[g]

LEMMA SetWorker ==
  ASSUME NEW r \in CallRecord, NEW w \in Worker
  PROVE  /\ [r EXCEPT !.w = w] \in CallRecord
         /\ [r EXCEPT !.w = w].id = r.id
         /\ [r EXCEPT !.w = w].file = r.file
         /\ [r EXCEPT !.w = w].w = w
BY DEF CallRecord

LEMMA SetTrustGateCleared ==
  ASSUME NEW r \in CallRecord, NEW v \in BOOLEAN
  PROVE  Sets([r EXCEPT !.w.trust_gate_cleared = v], r, "trust_gate_cleared", v)
<1> DEFINE u == [r.w EXCEPT !.trust_gate_cleared = v]
<1>1. r.w \in Worker
  BY DEF CallRecord
<1>2. u \in Worker
  BY <1>1 DEF Worker
<1>3. u["trust_gate_cleared"] = v /\ \A g \in WorkerFields \ {"trust_gate_cleared"} : u[g] = r.w[g]
  BY <1>1 DEF Worker, WorkerFields
<1>4. [r EXCEPT !.w.trust_gate_cleared = v] = [r EXCEPT !.w = u]
  OBVIOUS
<1> HIDE DEF u
<1>5. PICK q : q = [r EXCEPT !.w = u]
  OBVIOUS
<1>6. q \in CallRecord /\ q.id = r.id /\ q.file = r.file /\ q.w = u
  BY <1>2, <1>5, SetWorker
<1> QED BY Zenon, <1>3, <1>4, <1>5, <1>6 DEF Sets

LEMMA SetAttempts ==
  ASSUME NEW r \in CallRecord, NEW v \in 0..MaxDeliveries
  PROVE  Sets([r EXCEPT !.w.attempts = v], r, "attempts", v)
<1> DEFINE u == [r.w EXCEPT !.attempts = v]
<1>1. r.w \in Worker
  BY DEF CallRecord
<1>2. u \in Worker
  BY <1>1 DEF Worker
<1>3. u["attempts"] = v /\ \A g \in WorkerFields \ {"attempts"} : u[g] = r.w[g]
  BY <1>1 DEF Worker, WorkerFields
<1>4. [r EXCEPT !.w.attempts = v] = [r EXCEPT !.w = u]
  OBVIOUS
<1> HIDE DEF u
<1>5. PICK q : q = [r EXCEPT !.w = u]
  OBVIOUS
<1>6. q \in CallRecord /\ q.id = r.id /\ q.file = r.file /\ q.w = u
  BY <1>2, <1>5, SetWorker
<1> QED BY Zenon, <1>3, <1>4, <1>5, <1>6 DEF Sets

LEMMA SetPromptInFlight ==
  ASSUME NEW r \in CallRecord, NEW v \in BOOLEAN
  PROVE  Sets([r EXCEPT !.w.prompt_in_flight = v], r, "prompt_in_flight", v)
<1> DEFINE u == [r.w EXCEPT !.prompt_in_flight = v]
<1>1. r.w \in Worker
  BY DEF CallRecord
<1>2. u \in Worker
  BY <1>1 DEF Worker
<1>3. u["prompt_in_flight"] = v /\ \A g \in WorkerFields \ {"prompt_in_flight"} : u[g] = r.w[g]
  BY <1>1 DEF Worker, WorkerFields
<1>4. [r EXCEPT !.w.prompt_in_flight = v] = [r EXCEPT !.w = u]
  OBVIOUS
<1> HIDE DEF u
<1>5. PICK q : q = [r EXCEPT !.w = u]
  OBVIOUS
<1>6. q \in CallRecord /\ q.id = r.id /\ q.file = r.file /\ q.w = u
  BY <1>2, <1>5, SetWorker
<1> QED BY Zenon, <1>3, <1>4, <1>5, <1>6 DEF Sets

LEMMA SetPromptSent ==
  ASSUME NEW r \in CallRecord, NEW v \in BOOLEAN
  PROVE  Sets([r EXCEPT !.w.prompt_sent = v], r, "prompt_sent", v)
<1> DEFINE u == [r.w EXCEPT !.prompt_sent = v]
<1>1. r.w \in Worker
  BY DEF CallRecord
<1>2. u \in Worker
  BY <1>1 DEF Worker
<1>3. u["prompt_sent"] = v /\ \A g \in WorkerFields \ {"prompt_sent"} : u[g] = r.w[g]
  BY <1>1 DEF Worker, WorkerFields
<1>4. [r EXCEPT !.w.prompt_sent = v] = [r EXCEPT !.w = u]
  OBVIOUS
<1> HIDE DEF u
<1>5. PICK q : q = [r EXCEPT !.w = u]
  OBVIOUS
<1>6. q \in CallRecord /\ q.id = r.id /\ q.file = r.file /\ q.w = u
  BY <1>2, <1>5, SetWorker
<1> QED BY Zenon, <1>3, <1>4, <1>5, <1>6 DEF Sets

LEMMA SetLastPrompt ==
  ASSUME NEW r \in CallRecord, NEW v \in WorkerPrompts \cup {NoPrompt}
  PROVE  Sets([r EXCEPT !.w.last_prompt = v], r, "last_prompt", v)
<1> DEFINE u == [r.w EXCEPT !.last_prompt = v]
<1>1. r.w \in Worker
  BY DEF CallRecord
<1>2. u \in Worker
  BY <1>1 DEF Worker
<1>3. u["last_prompt"] = v /\ \A g \in WorkerFields \ {"last_prompt"} : u[g] = r.w[g]
  BY <1>1 DEF Worker, WorkerFields
<1>4. [r EXCEPT !.w.last_prompt = v] = [r EXCEPT !.w = u]
  OBVIOUS
<1> HIDE DEF u
<1>5. PICK q : q = [r EXCEPT !.w = u]
  OBVIOUS
<1>6. q \in CallRecord /\ q.id = r.id /\ q.file = r.file /\ q.w = u
  BY <1>2, <1>5, SetWorker
<1> QED BY Zenon, <1>3, <1>4, <1>5, <1>6 DEF Sets

LEMMA SetExpectedReceipt ==
  ASSUME NEW r \in CallRecord, NEW v \in BOOLEAN
  PROVE  Sets([r EXCEPT !.w.expected_receipt = v], r, "expected_receipt", v)
<1> DEFINE u == [r.w EXCEPT !.expected_receipt = v]
<1>1. r.w \in Worker
  BY DEF CallRecord
<1>2. u \in Worker
  BY <1>1 DEF Worker
<1>3. u["expected_receipt"] = v /\ \A g \in WorkerFields \ {"expected_receipt"} : u[g] = r.w[g]
  BY <1>1 DEF Worker, WorkerFields
<1>4. [r EXCEPT !.w.expected_receipt = v] = [r EXCEPT !.w = u]
  OBVIOUS
<1> HIDE DEF u
<1>5. PICK q : q = [r EXCEPT !.w = u]
  OBVIOUS
<1>6. q \in CallRecord /\ q.id = r.id /\ q.file = r.file /\ q.w = u
  BY <1>2, <1>5, SetWorker
<1> QED BY Zenon, <1>3, <1>4, <1>5, <1>6 DEF Sets

LEMMA SetReplayPrompt ==
  ASSUME NEW r \in CallRecord, NEW v \in WorkerPrompts \cup {NoPrompt}
  PROVE  Sets([r EXCEPT !.w.replay_prompt = v], r, "replay_prompt", v)
<1> DEFINE u == [r.w EXCEPT !.replay_prompt = v]
<1>1. r.w \in Worker
  BY DEF CallRecord
<1>2. u \in Worker
  BY <1>1 DEF Worker
<1>3. u["replay_prompt"] = v /\ \A g \in WorkerFields \ {"replay_prompt"} : u[g] = r.w[g]
  BY <1>1 DEF Worker, WorkerFields
<1>4. [r EXCEPT !.w.replay_prompt = v] = [r EXCEPT !.w = u]
  OBVIOUS
<1> HIDE DEF u
<1>5. PICK q : q = [r EXCEPT !.w = u]
  OBVIOUS
<1>6. q \in CallRecord /\ q.id = r.id /\ q.file = r.file /\ q.w = u
  BY <1>2, <1>5, SetWorker
<1> QED BY Zenon, <1>3, <1>4, <1>5, <1>6 DEF Sets

LEMMA SetLastError ==
  ASSUME NEW r \in CallRecord, NEW v \in WorkerFailureKind \cup {"None"}
  PROVE  Sets([r EXCEPT !.w.last_error = v], r, "last_error", v)
<1> DEFINE u == [r.w EXCEPT !.last_error = v]
<1>1. r.w \in Worker
  BY DEF CallRecord
<1>2. u \in Worker
  BY <1>1 DEF Worker
<1>3. u["last_error"] = v /\ \A g \in WorkerFields \ {"last_error"} : u[g] = r.w[g]
  BY <1>1 DEF Worker, WorkerFields
<1>4. [r EXCEPT !.w.last_error = v] = [r EXCEPT !.w = u]
  OBVIOUS
<1> HIDE DEF u
<1>5. PICK q : q = [r EXCEPT !.w = u]
  OBVIOUS
<1>6. q \in CallRecord /\ q.id = r.id /\ q.file = r.file /\ q.w = u
  BY <1>2, <1>5, SetWorker
<1> QED BY Zenon, <1>3, <1>4, <1>5, <1>6 DEF Sets
LEMMA SetStatus ==
  ASSUME NEW r \in CallRecord, NEW v \in WorkerStatus
  PROVE  Sets([r EXCEPT !.w.status = v], r, "status", v)
<1> DEFINE u == [r.w EXCEPT !.status = v]
<1>1. r.w \in Worker
  BY DEF CallRecord
<1>2. u \in Worker
  BY <1>1 DEF Worker
<1>3. u["status"] = v /\ \A g \in WorkerFields \ {"status"} : u[g] = r.w[g]
  BY <1>1 DEF Worker, WorkerFields
<1>4. [r EXCEPT !.w.status = v] = [r EXCEPT !.w = u]
  OBVIOUS
<1> HIDE DEF u
<1>5. PICK q : q = [r EXCEPT !.w = u]
  OBVIOUS
<1>6. q \in CallRecord /\ q.id = r.id /\ q.file = r.file /\ q.w = u
  BY <1>2, <1>5, SetWorker
<1> QED BY Zenon, <1>3, <1>4, <1>5, <1>6 DEF Sets
\* A call record after push_event.
Pushed(q, r, kind, status) ==
  /\ q \in CallRecord /\ q.id = r.id
  /\ q.w.status = status
  /\ q.w.events = r.w.events \cup ({kind} \cap EvidenceEvents)
  /\ \A g \in WorkerFields \ {"status", "events"} : q.w[g] = r.w[g]
  /\ q.file # NoFile /\ q.file.worker_id = r.id
  /\ q.file.is_ready <=> status = "ReadyForPrompt"
  /\ q.file.trust_gate_cleared = r.w.trust_gate_cleared

LEMMA Snapshot ==
  ASSUME NEW id \in WorkerIds, NEW w \in Worker
  PROVE  /\ StateSnapshot(id, w) \in StateFiles /\ StateSnapshot(id, w) # NoFile
         /\ StateSnapshot(id, w).worker_id = id
         /\ StateSnapshot(id, w).is_ready <=> w.status = "ReadyForPrompt"
         /\ StateSnapshot(id, w).trust_gate_cleared = w.trust_gate_cleared
<1>1. /\ w.status \in WorkerStatus /\ w.trust_gate_cleared \in BOOLEAN
      /\ w.prompt_in_flight \in BOOLEAN
  BY DEF Worker
<1> DEFINE ready == w.status = "ReadyForPrompt"
           f == [worker_id |-> id, status |-> w.status, is_ready |-> ready,
                 trust_gate_cleared |-> w.trust_gate_cleared,
                 prompt_in_flight |-> w.prompt_in_flight]
<1>2. StateSnapshot(id, w) = f
  BY Zenon DEF StateSnapshot
<1>3. ready \in BOOLEAN
  OBVIOUS
<1> HIDE DEF ready
<1>4. f \in StateFiles
  BY Zenon, <1>1, <1>3 DEF StateFiles
<1>5. f # NoFile
  BY DEF NoFile
<1>6. f.worker_id = id /\ (f.is_ready <=> ready) /\ f.trust_gate_cleared = w.trust_gate_cleared
  BY Zenon
<1> HIDE DEF f
<1> QED BY <1>2, <1>4, <1>5, <1>6 DEF ready

LEMMA PushEvent ==
  ASSUME NEW r \in CallRecord, NEW kind, NEW status \in WorkerStatus
  PROVE  Pushed(push_event(r, kind, status), r, kind, status)
<1>1. r.w \in Worker /\ r.id \in WorkerIds
  BY DEF CallRecord
<1> DEFINE a == [r.w EXCEPT !.status = status]
           added == r.w.events \cup ({kind} \cap EvidenceEvents)
           u == [a EXCEPT !.events = added]
           file == StateSnapshot(r.id, u)
           q == [r EXCEPT !.w = u]
           p == [q EXCEPT !.file = file]
<1>2. added \in SUBSET EvidenceEvents
  BY <1>1 DEF Worker
<1> HIDE DEF added
<1>3. a \in Worker /\ a.status = status /\ \A g \in WorkerFields \ {"status"} : a[g] = r.w[g]
  BY <1>1 DEF Worker, WorkerFields
<1>4. push_event(r, kind, status) = p
  <2>1. u = [r.w EXCEPT !.status = status, !.events = @ \cup ({kind} \cap EvidenceEvents)]
    BY <1>1 DEF added, Worker
  <2> HIDE DEF u
  <2> QED BY <2>1 DEF push_event
<1> HIDE DEF a
<1>5. u \in Worker /\ u.events = added /\ \A g \in WorkerFields \ {"events"} : u[g] = a[g]
  BY <1>2, <1>3 DEF Worker, WorkerFields
<1> HIDE DEF u
<1>6. /\ u.status = status /\ \A g \in WorkerFields \ {"status", "events"} : u[g] = r.w[g]
      /\ u.trust_gate_cleared = r.w.trust_gate_cleared
  BY <1>3, <1>5 DEF WorkerFields
<1>7. /\ file \in StateFiles /\ file # NoFile /\ file.worker_id = r.id
      /\ file.is_ready <=> status = "ReadyForPrompt"
      /\ file.trust_gate_cleared = r.w.trust_gate_cleared
  BY <1>1, <1>5, <1>6, Snapshot
<1> HIDE DEF file
<1>8. q \in CallRecord /\ q.id = r.id /\ q.w = u
  BY <1>5, SetWorker
<1> HIDE DEF q
<1>9. p \in CallRecord /\ p.id = q.id /\ p.w = q.w /\ p.file = file
  BY <1>7, <1>8 DEF CallRecord
<1> HIDE DEF p
<1> QED BY Zenon, <1>4, <1>5, <1>6, <1>7, <1>8, <1>9 DEF Pushed, added

\* What holds of a worker between two calls.  Beside the properties: a prompt in
\* flight was sent since the last restart, what was sent was counted, and a worker
\* before a gate has the event of that gate.
WorkerOK(w) ==
  /\ w.status \in {"ReadyForPrompt", "Finished", "Failed"} => ~w.prompt_in_flight
  /\ w.replay_prompt # NoPrompt =>
       w.replay_prompt = w.last_prompt /\ ~w.prompt_in_flight /\ w.attempts > 0
  /\ w.status = "TrustRequired" => w.last_error = "TrustGate" /\ "TrustRequired" \in w.events
  /\ w.status = "ToolPermissionRequired" =>
       w.last_error = "ToolPermissionGate" /\ "ToolPermissionRequired" \in w.events
  /\ w.status = "Failed" => w.last_error \in {"PromptDelivery", "Provider", "StartupNoEvidence"}
  /\ w.prompt_in_flight => w.prompt_sent
  /\ w.prompt_sent => w.attempts > 0

\* The file shows the readiness and the trust gate of w.
FileShows(file, w) ==
  /\ file.is_ready <=> w.status = "ReadyForPrompt"
  /\ file.trust_gate_cleared = w.trust_gate_cleared

\* A call may store r: its worker is well formed, and the file is the one that was
\* there or the one of this worker, and then shows it.
CallOK(r) ==
  /\ r \in CallRecord /\ WorkerOK(r.w)
  /\ r.file = state_file \/ (r.file # NoFile /\ r.file.worker_id = r.id)
  /\ r.file # NoFile /\ r.file.worker_id = r.id => FileShows(r.file, r.w)

WorkerIInv ==
  /\ workers \in [WorkerIds -> Worker \cup {NoWorker}]
  /\ state_file \in StateFiles
  /\ \A id \in WorkerIds : Known(id) => WorkerOK(workers[id])
  /\ state_file # NoFile =>
       Known(state_file.worker_id) /\ FileShows(state_file, workers[state_file.worker_id])

LEMMA PushedOK ==
  ASSUME NEW q, NEW r, NEW kind, NEW status, Pushed(q, r, kind, status), WorkerOK(q.w)
  PROVE  CallOK(q)
<1>1. q.w.trust_gate_cleared = r.w.trust_gate_cleared
  BY DEF Pushed, WorkerFields
<1>2. /\ q \in CallRecord /\ q.id = r.id /\ q.w.status = status
      /\ q.file # NoFile /\ q.file.worker_id = r.id
      /\ q.file.is_ready <=> status = "ReadyForPrompt"
      /\ q.file.trust_gate_cleared = r.w.trust_gate_cleared
  BY DEF Pushed
<1>3. FileShows(q.file, q.w)
  BY <1>1, <1>2 DEF FileShows
<1> QED BY <1>2, <1>3 DEF CallOK

LEMMA ToolGateOK ==
  ASSUME NEW r, CallOK(r)
  PROVE  CallOK(observe_tool_gate(r)) /\ observe_tool_gate(r).id = r.id
<1> DEFINE a == [r EXCEPT !.w.last_error = "ToolPermissionGate"]
           q == push_event(a, "ToolPermissionRequired", "ToolPermissionRequired")
<1>1. observe_tool_gate(r) = q
  BY DEF observe_tool_gate
<1>2. r \in CallRecord /\ WorkerOK(r.w)
  BY DEF CallOK
<1>3. Sets(a, r, "last_error", "ToolPermissionGate")
  BY <1>2, SetLastError DEF WorkerFailureKind
<1> HIDE DEF a
<1>4. Pushed(q, a, "ToolPermissionRequired", "ToolPermissionRequired")
  BY <1>3, PushEvent DEF Sets, WorkerStatus
<1> HIDE DEF q
<1>5. WorkerOK(q.w)
  BY <1>2, <1>3, <1>4 DEF WorkerOK, Sets, Pushed, WorkerFields, EvidenceEvents
<1> QED BY <1>1, <1>3, <1>4, <1>5, PushedOK DEF Pushed, Sets

LEMMA ResolveOK ==
  ASSUME NEW r, CallOK(r)
  PROVE  CallOK(resolve(r)) /\ resolve(r).id = r.id
<1> DEFINE a == [r EXCEPT !.w.trust_gate_cleared = TRUE]
           b == [a EXCEPT !.w.last_error = "None"]
           q == push_event(b, "TrustResolved", "Spawning")
<1>1. resolve(r) = q
  BY DEF resolve
<1>2. r \in CallRecord /\ WorkerOK(r.w)
  BY DEF CallOK
<1>3. Sets(a, r, "trust_gate_cleared", TRUE)
  BY <1>2, SetTrustGateCleared
<1> HIDE DEF a
<1>4. Sets(b, a, "last_error", "None")
  BY <1>3, SetLastError DEF Sets
<1> HIDE DEF b
<1>5. Pushed(q, b, "TrustResolved", "Spawning")
  BY <1>4, PushEvent DEF Sets, WorkerStatus
<1> HIDE DEF q
<1>6. WorkerOK(q.w)
  BY <1>2, <1>3, <1>4, <1>5 DEF WorkerOK, Sets, Pushed, WorkerFields, EvidenceEvents
<1>7. CallOK(q)
  BY <1>5, <1>6, PushedOK
<1>8. q.id = r.id
  BY <1>3, <1>4, <1>5 DEF Pushed, Sets
<1> QED BY <1>1, <1>7, <1>8

LEMMA TrustGateOK ==
  ASSUME NEW r, CallOK(r)
  PROVE  CallOK(observe_trust_gate(r)) /\ observe_trust_gate(r).id = r.id
<1> DEFINE a == [r EXCEPT !.w.last_error = "TrustGate"]
           q == push_event(a, "TrustRequired", "TrustRequired")
<1>1. observe_trust_gate(r) = IF r.w.trust_auto_resolve THEN resolve(q) ELSE q
  BY DEF observe_trust_gate
<1>2. r \in CallRecord /\ WorkerOK(r.w)
  BY DEF CallOK
<1>3. Sets(a, r, "last_error", "TrustGate")
  BY <1>2, SetLastError DEF WorkerFailureKind
<1> HIDE DEF a
<1>4. Pushed(q, a, "TrustRequired", "TrustRequired")
  BY <1>3, PushEvent DEF Sets, WorkerStatus
<1> HIDE DEF q
<1>5. WorkerOK(q.w)
  BY <1>2, <1>3, <1>4 DEF WorkerOK, Sets, Pushed, WorkerFields, EvidenceEvents
<1>6. CallOK(q)
  BY <1>4, <1>5, PushedOK
<1>7. q.id = r.id
  BY <1>3, <1>4 DEF Pushed, Sets
<1> QED BY <1>1, <1>6, <1>7, ResolveOK

\* A prompt that went astray was in flight: it was sent since the last restart.
LEMMA MisdeliveryOK ==
  ASSUME NEW r, CallOK(r), prompt_misdelivery_is_relevant(r.w)
  PROVE  CallOK(observe_misdelivery(r)) /\ observe_misdelivery(r).id = r.id
<1> DEFINE a == [r EXCEPT !.w.last_error = "PromptDelivery"]
           b == [a EXCEPT !.w.prompt_in_flight = FALSE]
           f == push_event(b, "PromptMisdelivery", "Failed")
           c == [f EXCEPT !.w.replay_prompt = r.w.last_prompt]
           q == push_event(c, "PromptReplayArmed", "ReadyForPrompt")
<1>1. observe_misdelivery(r) = IF r.w.auto_recover THEN q ELSE f
  BY DEF observe_misdelivery
<1>2. /\ r \in CallRecord /\ WorkerOK(r.w)
      /\ r.w.last_prompt \in WorkerPrompts \cup {NoPrompt}
  BY DEF CallOK, CallRecord, Worker
<1>3. r.w.prompt_in_flight /\ r.w.attempts > 0
  BY <1>2 DEF prompt_misdelivery_is_relevant, WorkerOK
<1>4. Sets(a, r, "last_error", "PromptDelivery")
  BY <1>2, SetLastError DEF WorkerFailureKind
<1> HIDE DEF a
<1>5. Sets(b, a, "prompt_in_flight", FALSE)
  BY <1>4, SetPromptInFlight DEF Sets
<1> HIDE DEF b
<1>6. Pushed(f, b, "PromptMisdelivery", "Failed")
  BY <1>5, PushEvent DEF Sets, WorkerStatus
<1> HIDE DEF f
<1>7. Sets(c, f, "replay_prompt", r.w.last_prompt)
  BY <1>2, <1>6, SetReplayPrompt DEF Pushed
<1> HIDE DEF c
<1>8. Pushed(q, c, "PromptReplayArmed", "ReadyForPrompt")
  BY <1>7, PushEvent DEF Sets, WorkerStatus
<1> HIDE DEF q
<1>9. WorkerOK(f.w)
  BY <1>2, <1>4, <1>5, <1>6 DEF WorkerOK, Sets, Pushed, WorkerFields, EvidenceEvents
<1>10. /\ f.w.attempts = r.w.attempts /\ f.w.last_prompt = r.w.last_prompt
       /\ f.w.prompt_in_flight = FALSE /\ f.w.prompt_sent = r.w.prompt_sent
  BY <1>4, <1>5, <1>6 DEF Sets, Pushed, WorkerFields
<1>11. WorkerOK(q.w)
  BY <1>3, <1>7, <1>8, <1>10 DEF WorkerOK, Sets, Pushed, WorkerFields, EvidenceEvents
<1>12. CallOK(f) /\ CallOK(q)
  BY <1>6, <1>8, <1>9, <1>11, PushedOK
<1>13. f.id = r.id /\ q.id = r.id
  BY <1>4, <1>5, <1>6, <1>7, <1>8 DEF Pushed, Sets
<1> QED BY <1>1, <1>12, <1>13

\* The transition that no event tells of: a worker that is not ready and does not
\* become ready, with the same trust gate, so that the file stays true.
LEMMA RunningOK ==
  ASSUME NEW r, CallOK(r), NEW s
  PROVE  CallOK(observe_running(r, s)) /\ observe_running(r, s).id = r.id
<1> DEFINE a == [r EXCEPT !.w.prompt_in_flight = FALSE]
           b == [a EXCEPT !.w.status = "Running"]
           c == [b EXCEPT !.w.last_error = "None"]
<1>1. observe_running(r, s) = IF detect_running_cue(s) /\ r.w.prompt_in_flight THEN c ELSE r
  BY DEF observe_running
<1>2. r \in CallRecord /\ WorkerOK(r.w)
  BY DEF CallOK
<1>3. Sets(a, r, "prompt_in_flight", FALSE)
  BY <1>2, SetPromptInFlight
<1> HIDE DEF a
<1>4. Sets(b, a, "status", "Running")
  BY <1>3, SetStatus DEF Sets, WorkerStatus
<1> HIDE DEF b
<1>5. Sets(c, b, "last_error", "None")
  BY <1>4, SetLastError DEF Sets
<1> HIDE DEF c
<1>6. /\ c \in CallRecord /\ c.id = r.id /\ c.file = r.file
      /\ c.w.status = "Running" /\ c.w.trust_gate_cleared = r.w.trust_gate_cleared
  BY <1>3, <1>4, <1>5 DEF Sets, WorkerFields
<1>7. WorkerOK(c.w)
  BY <1>2, <1>3, <1>4, <1>5 DEF WorkerOK, Sets, WorkerFields
<1>8. ASSUME r.w.prompt_in_flight PROVE CallOK(c)
  <2>1. r.w.status # "ReadyForPrompt"
    BY <1>2, <1>8 DEF WorkerOK
  <2> QED BY <2>1, <1>6, <1>7 DEF CallOK, FileShows
<1> QED BY <1>1, <1>6, <1>8

LEMMA ReadyOK ==
  ASSUME NEW r, CallOK(r), NEW s
  PROVE  CallOK(observe_ready(r, s)) /\ observe_ready(r, s).id = r.id
<1> DEFINE a == [r EXCEPT !.w.prompt_in_flight = FALSE]
           e == IF r.w.last_error = "TrustGate" THEN "None" ELSE r.w.last_error
           b == [a EXCEPT !.w.last_error = e]
           q == push_event(b, "ReadyForPrompt", "ReadyForPrompt")
<1>1. observe_ready(r, s) =
        IF detect_ready_for_prompt(s) /\ r.w.status # "ReadyForPrompt" THEN q ELSE r
  BY DEF observe_ready
<1>2. r \in CallRecord /\ WorkerOK(r.w)
  BY DEF CallOK
<1>3. Sets(a, r, "prompt_in_flight", FALSE)
  BY <1>2, SetPromptInFlight
<1> HIDE DEF a
<1>4. a \in CallRecord /\ e \in WorkerFailureKind \cup {"None"}
  BY <1>2, <1>3 DEF Sets, CallRecord, Worker
<1> HIDE DEF e
<1>5. Sets(b, a, "last_error", e)
  BY <1>4, SetLastError
<1> HIDE DEF b
<1>6. Pushed(q, b, "ReadyForPrompt", "ReadyForPrompt")
  BY <1>5, PushEvent DEF Sets, WorkerStatus
<1> HIDE DEF q
<1>7. WorkerOK(q.w)
  BY <1>2, <1>3, <1>5, <1>6 DEF WorkerOK, Sets, Pushed, WorkerFields, EvidenceEvents
<1>8. CallOK(q)
  BY <1>6, <1>7, PushedOK
<1>9. q.id = r.id
  BY <1>3, <1>5, <1>6 DEF Pushed, Sets
<1> QED BY <1>1, <1>8, <1>9

LEMMA ObserveOK ==
  ASSUME NEW r, CallOK(r), NEW s
  PROVE  CallOK(observe(r, s)) /\ observe(r, s).id = r.id
<1> DEFINE asks == ~r.w.trust_gate_cleared /\ detect_trust_prompt(s)
           seen == IF asks THEN observe_trust_gate(r) ELSE r
           run == observe_ready(observe_running(seen, s), s)
<1>1. \/ observe(r, s) = observe_tool_gate(r)
      \/ observe(r, s) = seen
      \/ observe(r, s) = observe_misdelivery(seen) /\ prompt_misdelivery_is_relevant(seen.w)
      \/ observe(r, s) = run
  BY Zenon DEF observe
<1>2. CallOK(seen) /\ seen.id = r.id
  BY TrustGateOK
<1> HIDE DEF seen
<1>3. CallOK(run) /\ run.id = r.id
  BY <1>2, RunningOK, ReadyOK
<1> HIDE DEF run
<1> QED BY <1>1, <1>2, <1>3, ToolGateOK, MisdeliveryOK

\* What a call stores keeps the invariant of the registry.
LEMMA CommitKeeps ==
  ASSUME WorkerIInv, NEW r, CallOK(r), Commit(r.id, r)
  PROVE  WorkerIInv'
<1>1. /\ r \in CallRecord /\ r.id \in WorkerIds /\ r.w \in Worker /\ r.file \in StateFiles
      /\ WorkerOK(r.w)
      /\ r.file = state_file \/ (r.file # NoFile /\ r.file.worker_id = r.id)
      /\ r.file # NoFile /\ r.file.worker_id = r.id => FileShows(r.file, r.w)
  BY DEF CallOK, CallRecord
<1>2. workers' = [workers EXCEPT ![r.id] = r.w] /\ state_file' = r.file
  BY DEF Commit
<1>3. r.w # NoWorker
  BY <1>1 DEF NoWorker, Worker, WorkerStatus
<1>4. workers \in [WorkerIds -> Worker \cup {NoWorker}] /\ state_file \in StateFiles
  BY DEF WorkerIInv
<1>5. workers' \in [WorkerIds -> Worker \cup {NoWorker}] /\ state_file' \in StateFiles
  BY <1>1, <1>2, <1>4
<1>6. \A id \in WorkerIds : workers'[id] = IF id = r.id THEN r.w ELSE workers[id]
  BY <1>2, <1>4
<1>7. ASSUME NEW id \in WorkerIds, workers'[id] # NoWorker PROVE WorkerOK(workers'[id])
  BY <1>1, <1>6, <1>7 DEF WorkerIInv, Known
<1>8. ASSUME state_file' # NoFile
      PROVE  /\ workers'[state_file'.worker_id] # NoWorker
             /\ FileShows(state_file', workers'[state_file'.worker_id])
  <2>1. state_file'.worker_id \in WorkerIds
    BY <1>5, <1>8 DEF StateFiles
  <2>2. CASE state_file'.worker_id = r.id
    BY <2>1, <2>2, <1>1, <1>2, <1>3, <1>6, <1>8
  <2>3. CASE state_file'.worker_id # r.id
    <3>1. r.file = state_file
      BY <2>3, <1>1, <1>2
    <3>2. /\ workers[state_file.worker_id] # NoWorker
          /\ FileShows(state_file, workers[state_file.worker_id])
      BY <3>1, <1>2, <1>8 DEF WorkerIInv, Known
    <3>3. workers'[state_file'.worker_id] = workers[state_file.worker_id] /\ state_file' = state_file
      BY <2>1, <2>3, <3>1, <1>2, <1>6
    <3> QED BY <3>2, <3>3
  <2> QED BY <2>2, <2>3
<1>9. \A id \in WorkerIds : Known(id)' => WorkerOK(workers[id])'
  BY <1>7 DEF Known, WorkerOK
<1>10. (state_file # NoFile =>
         Known(state_file.worker_id) /\ FileShows(state_file, workers[state_file.worker_id]))'
  BY <1>8 DEF Known, FileShows
<1> QED BY <1>5, <1>9, <1>10 DEF WorkerIInv

\* What a call loads of a known worker may be stored again.
LEMMA LoadedOK ==
  ASSUME WorkerIInv, NEW id \in WorkerIds, Known(id)
  PROVE  CallOK(Loaded(id)) /\ Loaded(id).id = id /\ Loaded(id).w = workers[id]
<1>1. /\ workers[id] \in Worker /\ WorkerOK(workers[id]) /\ state_file \in StateFiles
      /\ state_file # NoFile => FileShows(state_file, workers[state_file.worker_id])
  BY DEF WorkerIInv, Known
<1>2. Loaded(id) = [id |-> id, w |-> workers[id], file |-> state_file]
  BY DEF Loaded
<1>3. /\ Loaded(id) \in CallRecord /\ Loaded(id).id = id /\ Loaded(id).w = workers[id]
      /\ Loaded(id).file = state_file
  BY <1>1, <1>2 DEF CallRecord
<1> QED BY <1>1, <1>3 DEF CallOK

LEMMA CreateKeeps ==
  ASSUME WorkerIInv, NEW id \in WorkerIds, NEW trusted \in BOOLEAN, NEW auto \in BOOLEAN,
         worker_create(id, trusted, auto)
  PROVE  WorkerIInv'
<1> DEFINE w == [status |-> "Spawning", trust_auto_resolve |-> trusted,
                 trust_gate_cleared |-> FALSE, auto_recover |-> auto, attempts |-> 0,
                 prompt_in_flight |-> FALSE, prompt_sent |-> FALSE,
                 last_prompt |-> NoPrompt, expected_receipt |-> FALSE,
                 replay_prompt |-> NoPrompt, last_error |-> "None", events |-> {}]
           r == [id |-> id, w |-> w, file |-> state_file]
           q == push_event(r, "Spawning", "Spawning")
<1>1. Commit(id, q)
  BY DEF worker_create
<1>2. w \in Worker
  <2>1. /\ 0 \in 0..MaxDeliveries /\ "Spawning" \in WorkerStatus
        /\ NoPrompt \in WorkerPrompts \cup {NoPrompt} /\ {} \in SUBSET EvidenceEvents
        /\ "None" \in WorkerFailureKind \cup {"None"} /\ FALSE \in BOOLEAN
    BY WorkerAssumption DEF WorkerStatus
  <2> QED BY Zenon, <2>1 DEF Worker
<1>3. /\ w.prompt_in_flight = FALSE /\ w.prompt_sent = FALSE /\ w.replay_prompt = NoPrompt
  BY Zenon
<1> HIDE DEF w
<1>4. r \in CallRecord /\ r.id = id /\ r.w = w
  BY <1>2 DEF CallRecord, WorkerIInv
<1> HIDE DEF r
<1>5. Pushed(q, r, "Spawning", "Spawning")
  BY <1>4, PushEvent DEF WorkerStatus
<1> HIDE DEF q
<1>6. WorkerOK(q.w)
  BY <1>3, <1>4, <1>5 DEF WorkerOK, Pushed, WorkerFields
<1>7. CallOK(q) /\ q.id = id
  BY <1>4, <1>5, <1>6, PushedOK DEF Pushed
<1> QED BY <1>1, <1>7, CommitKeeps

LEMMA SendPromptKeeps ==
  ASSUME WorkerIInv, NEW id \in WorkerIds, NEW p \in WorkerPrompts \cup {NoPrompt},
         NEW receipt \in BOOLEAN, send_prompt(id, p, receipt)
  PROVE  WorkerIInv'
<1> DEFINE next == IF p # NoPrompt THEN p ELSE workers[id].replay_prompt
           r == Loaded(id)
           n == r.w.attempts + 1
           a == [r EXCEPT !.w.attempts = n]
           b == [a EXCEPT !.w.prompt_in_flight = TRUE]
           c == [b EXCEPT !.w.prompt_sent = TRUE]
           d == [c EXCEPT !.w.last_prompt = next]
           e == [d EXCEPT !.w.expected_receipt = receipt]
           f == [e EXCEPT !.w.replay_prompt = NoPrompt]
           g == [f EXCEPT !.w.last_error = "None"]
           q == push_event(g, "Running", "Running")
<1>1. Known(id) /\ workers[id].attempts < MaxDeliveries /\ Commit(id, q)
  BY DEF send_prompt
<1>2. CallOK(r) /\ r.id = id /\ r.w = workers[id]
  BY <1>1, LoadedOK
<1>3. r \in CallRecord /\ r.w \in Worker
  BY <1>2 DEF CallOK, CallRecord
<1>4. next \in WorkerPrompts \cup {NoPrompt} /\ n \in 0..MaxDeliveries /\ n > 0
  <2>1. r.w.attempts \in 0..MaxDeliveries /\ r.w.replay_prompt \in WorkerPrompts \cup {NoPrompt}
    BY <1>3 DEF Worker
  <2> QED BY <2>1, <1>1, <1>2, WorkerAssumption
<1> HIDE DEF next, n, r
<1>5. Sets(a, r, "attempts", n)
  BY <1>3, <1>4, SetAttempts
<1> HIDE DEF a
<1>6. Sets(b, a, "prompt_in_flight", TRUE)
  BY <1>5, SetPromptInFlight DEF Sets
<1> HIDE DEF b
<1>7. Sets(c, b, "prompt_sent", TRUE)
  BY <1>6, SetPromptSent DEF Sets
<1> HIDE DEF c
<1>8. Sets(d, c, "last_prompt", next)
  BY <1>4, <1>7, SetLastPrompt DEF Sets
<1> HIDE DEF d
<1>9. Sets(e, d, "expected_receipt", receipt)
  BY <1>8, SetExpectedReceipt DEF Sets
<1> HIDE DEF e
<1>10. Sets(f, e, "replay_prompt", NoPrompt)
  BY <1>9, SetReplayPrompt DEF Sets
<1> HIDE DEF f
<1>11. Sets(g, f, "last_error", "None")
  BY <1>10, SetLastError DEF Sets
<1> HIDE DEF g
<1>12. Pushed(q, g, "Running", "Running")
  BY <1>11, PushEvent DEF Sets, WorkerStatus
<1> HIDE DEF q
<1>13. /\ q.w.attempts = n /\ q.w.prompt_in_flight = TRUE /\ q.w.prompt_sent = TRUE
       /\ q.w.replay_prompt = NoPrompt /\ q.w.status = "Running"
  BY <1>5, <1>6, <1>7, <1>8, <1>9, <1>10, <1>11, <1>12 DEF Sets, Pushed, WorkerFields
<1>14. WorkerOK(q.w)
  BY <1>4, <1>13 DEF WorkerOK
<1>15. q.id = id
  BY <1>2, <1>5, <1>6, <1>7, <1>8, <1>9, <1>10, <1>11, <1>12 DEF Sets, Pushed
<1> QED BY <1>1, <1>12, <1>14, <1>15, PushedOK, CommitKeeps

LEMMA RestartKeeps ==
  ASSUME WorkerIInv, NEW id \in WorkerIds, worker_restart(id)
  PROVE  WorkerIInv'
<1> DEFINE r == Loaded(id)
           a == [r EXCEPT !.w.trust_gate_cleared = FALSE]
           b == [a EXCEPT !.w.last_prompt = NoPrompt]
           c == [b EXCEPT !.w.replay_prompt = NoPrompt]
           d == [c EXCEPT !.w.last_error = "None"]
           e == [d EXCEPT !.w.attempts = 0]
           f == [e EXCEPT !.w.prompt_in_flight = FALSE]
           g == [f EXCEPT !.w.prompt_sent = FALSE]
           q == push_event(g, "Restarted", "Spawning")
<1>1. Known(id) /\ Commit(id, q)
  BY DEF worker_restart
<1>2. r \in CallRecord /\ r.id = id
  BY <1>1, LoadedOK DEF CallOK
<1> HIDE DEF r
<1>3. Sets(a, r, "trust_gate_cleared", FALSE)
  BY <1>2, SetTrustGateCleared
<1> HIDE DEF a
<1>4. Sets(b, a, "last_prompt", NoPrompt)
  BY <1>3, SetLastPrompt DEF Sets
<1> HIDE DEF b
<1>5. Sets(c, b, "replay_prompt", NoPrompt)
  BY <1>4, SetReplayPrompt DEF Sets
<1> HIDE DEF c
<1>6. Sets(d, c, "last_error", "None")
  BY <1>5, SetLastError DEF Sets
<1> HIDE DEF d
<1>7. Sets(e, d, "attempts", 0)
  <2>1. 0 \in 0..MaxDeliveries
    BY WorkerAssumption
  <2> QED BY <2>1, <1>6, SetAttempts DEF Sets
<1> HIDE DEF e
<1>8. Sets(f, e, "prompt_in_flight", FALSE)
  BY <1>7, SetPromptInFlight DEF Sets
<1> HIDE DEF f
<1>9. Sets(g, f, "prompt_sent", FALSE)
  BY <1>8, SetPromptSent DEF Sets
<1> HIDE DEF g
<1>10. Pushed(q, g, "Restarted", "Spawning")
  BY <1>9, PushEvent DEF Sets, WorkerStatus
<1> HIDE DEF q
<1>11. /\ q.w.prompt_in_flight = FALSE /\ q.w.prompt_sent = FALSE
       /\ q.w.replay_prompt = NoPrompt /\ q.w.status = "Spawning"
  BY <1>5, <1>6, <1>7, <1>8, <1>9, <1>10 DEF Sets, Pushed, WorkerFields
<1>12. WorkerOK(q.w)
  BY <1>11 DEF WorkerOK
<1>13. q.id = id
  BY <1>2, <1>3, <1>4, <1>5, <1>6, <1>7, <1>8, <1>9, <1>10 DEF Sets, Pushed
<1> QED BY <1>1, <1>10, <1>12, <1>13, PushedOK, CommitKeeps

LEMMA TerminateKeeps ==
  ASSUME WorkerIInv, NEW id \in WorkerIds, worker_terminate(id)
  PROVE  WorkerIInv'
<1> DEFINE r == Loaded(id)
           a == [r EXCEPT !.w.prompt_in_flight = FALSE]
           q == push_event(a, "Finished", "Finished")
<1>1. Known(id) /\ Commit(id, q)
  BY DEF worker_terminate
<1>2. r \in CallRecord /\ r.id = id /\ WorkerOK(r.w)
  BY <1>1, LoadedOK DEF CallOK
<1> HIDE DEF r
<1>3. Sets(a, r, "prompt_in_flight", FALSE)
  BY <1>2, SetPromptInFlight
<1> HIDE DEF a
<1>4. Pushed(q, a, "Finished", "Finished")
  BY <1>3, PushEvent DEF Sets, WorkerStatus
<1> HIDE DEF q
<1>5. WorkerOK(q.w)
  BY <1>2, <1>3, <1>4 DEF WorkerOK, Sets, Pushed, WorkerFields
<1>6. q.id = id
  BY <1>2, <1>3, <1>4 DEF Sets, Pushed
<1> QED BY <1>1, <1>4, <1>5, <1>6, PushedOK, CommitKeeps

LEMMA CompletionKeeps ==
  ASSUME WorkerIInv, NEW id \in WorkerIds, NEW failed \in BOOLEAN, observe_completion(id, failed)
  PROVE  WorkerIInv'
<1> DEFINE r == Loaded(id)
           a == [r EXCEPT !.w.prompt_in_flight = FALSE]
           e == IF failed THEN "Provider" ELSE "None"
           b == [a EXCEPT !.w.last_error = e]
           st == IF failed THEN "Failed" ELSE "Finished"
           q == push_event(b, st, st)
<1>1. Known(id) /\ Commit(id, q)
  BY DEF observe_completion
<1>2. r \in CallRecord /\ r.id = id /\ WorkerOK(r.w)
  BY <1>1, LoadedOK DEF CallOK
<1>3. /\ e \in WorkerFailureKind \cup {"None"} /\ st \in WorkerStatus
      /\ st \in {"Failed", "Finished"} /\ (st = "Failed" => e = "Provider")
  BY DEF WorkerFailureKind, WorkerStatus
<1> HIDE DEF r, e, st
<1>4. Sets(a, r, "prompt_in_flight", FALSE)
  BY <1>2, SetPromptInFlight
<1> HIDE DEF a
<1>5. Sets(b, a, "last_error", e)
  BY <1>3, <1>4, SetLastError DEF Sets
<1> HIDE DEF b
<1>6. Pushed(q, b, st, st)
  BY <1>3, <1>5, PushEvent DEF Sets
<1> HIDE DEF q
<1>7. WorkerOK(q.w)
  BY <1>2, <1>3, <1>4, <1>5, <1>6 DEF WorkerOK, Sets, Pushed, WorkerFields
<1>8. q.id = id
  BY <1>2, <1>4, <1>5, <1>6 DEF Sets, Pushed
<1> QED BY <1>1, <1>6, <1>7, <1>8, PushedOK, CommitKeeps

LEMMA StartupTimeoutKeeps ==
  ASSUME WorkerIInv, NEW id \in WorkerIds, observe_startup_timeout(id)
  PROVE  WorkerIInv'
<1> DEFINE r == Loaded(id)
           a == [r EXCEPT !.w.last_error = "StartupNoEvidence"]
           b == [a EXCEPT !.w.prompt_in_flight = FALSE]
           q == push_event(b, "StartupNoEvidence", "Failed")
<1>1. Known(id) /\ Commit(id, q)
  BY DEF observe_startup_timeout
<1>2. r \in CallRecord /\ r.id = id /\ WorkerOK(r.w)
  BY <1>1, LoadedOK DEF CallOK
<1> HIDE DEF r
<1>3. Sets(a, r, "last_error", "StartupNoEvidence")
  BY <1>2, SetLastError DEF WorkerFailureKind
<1> HIDE DEF a
<1>4. Sets(b, a, "prompt_in_flight", FALSE)
  BY <1>3, SetPromptInFlight DEF Sets
<1> HIDE DEF b
<1>5. Pushed(q, b, "StartupNoEvidence", "Failed")
  BY <1>4, PushEvent DEF Sets, WorkerStatus
<1> HIDE DEF q
<1>6. WorkerOK(q.w)
  BY <1>2, <1>3, <1>4, <1>5 DEF WorkerOK, Sets, Pushed, WorkerFields
<1>7. q.id = id
  BY <1>2, <1>3, <1>4, <1>5 DEF Sets, Pushed
<1> QED BY <1>1, <1>5, <1>6, <1>7, PushedOK, CommitKeeps

LEMMA WorkerStep ==
  ASSUME WorkerIInv, WorkerNext \/ UNCHANGED workerVars
  PROVE  WorkerIInv'
<1>1. ASSUME NEW id \in WorkerIds, NEW s, worker_observe(id, s) PROVE WorkerIInv'
  <2>1. Known(id) /\ Commit(id, observe(Loaded(id), s))
    BY <1>1 DEF worker_observe
  <2>2. CallOK(observe(Loaded(id), s)) /\ observe(Loaded(id), s).id = id
    BY <2>1, LoadedOK, ObserveOK
  <2> QED BY <2>1, <2>2, CommitKeeps
<1>2. ASSUME NEW id \in WorkerIds, resolve_trust(id) PROVE WorkerIInv'
  <2>1. Known(id) /\ Commit(id, resolve(Loaded(id)))
    BY <1>2 DEF resolve_trust
  <2>2. CallOK(resolve(Loaded(id))) /\ resolve(Loaded(id)).id = id
    BY <2>1, LoadedOK, ResolveOK
  <2> QED BY <2>1, <2>2, CommitKeeps
<1>3. ASSUME NEW id \in WorkerIds, WorkerTools(id) \/ observe_startup_timeout(id)
      PROVE  WorkerIInv'
  <2>1. CASE \E trusted, auto \in BOOLEAN : worker_create(id, trusted, auto)
    BY <2>1, CreateKeeps
  <2>2. CASE \E s \in WorkerScreens : worker_observe(id, s)
    BY <2>2, <1>1
  <2>3. CASE resolve_trust(id)
    BY <2>3, <1>2
  <2>4. CASE \E p \in WorkerPrompts \cup {NoPrompt}, receipt \in BOOLEAN : send_prompt(id, p, receipt)
    BY <2>4, SendPromptKeeps
  <2>5. CASE worker_restart(id)
    BY <2>5, RestartKeeps
  <2>6. CASE worker_terminate(id)
    BY <2>6, TerminateKeeps
  <2>7. CASE \E failed \in BOOLEAN : observe_completion(id, failed)
    BY <2>7, CompletionKeeps
  <2>8. CASE observe_startup_timeout(id)
    BY <2>8, StartupTimeoutKeeps
  <2> QED BY <1>3, <2>1, <2>2, <2>3, <2>4, <2>5, <2>6, <2>7, <2>8 DEF WorkerTools
<1>4. CASE UNCHANGED workerVars
  BY <1>4 DEF workerVars, WorkerIInv, Known, WorkerOK, FileShows
<1> QED BY <1>3, <1>4 DEF WorkerNext

LEMMA WorkerStart == WorkerInit => WorkerIInv
BY DEF WorkerInit, WorkerIInv, Known, StateFiles

\* A startup timeout is blamed on a prompt only if one was sent, and on a gate
\* exactly when the worker stands before it.
BlamesTheCause(w, class) ==
  /\ class \in {"PromptAcceptanceTimeout", "PromptMisdelivery"} => w.attempts > 0
  /\ \A gate \in EvidenceEvents : class = gate <=> w.status = gate

LEMMA Blame ==
  ASSUME NEW w \in Worker, WorkerOK(w), NEW mcp \in BOOLEAN, NEW l \in BOOLEAN
  PROVE  BlamesTheCause(w, classify_startup_failure(w, TRUE, mcp, l))
<1> PICK class : class = classify_startup_failure(w, TRUE, mcp, l)
  OBVIOUS
<1> SUFFICES BlamesTheCause(w, class)
  OBVIOUS
<1>1. /\ w.status = "TrustRequired" => "TrustRequired" \in w.events
      /\ w.status = "ToolPermissionRequired" => "ToolPermissionRequired" \in w.events
      /\ w.prompt_sent => w.attempts > 0
  BY DEF WorkerOK
<1>2. CASE w.status = "TrustRequired"
  <2>1. class = "TrustRequired"
    BY <1>1, <1>2 DEF classify_startup_failure
  <2> QED BY <1>2, <2>1 DEF EvidenceEvents, BlamesTheCause
<1>3. CASE w.status = "ToolPermissionRequired"
  <2>1. class = "ToolPermissionRequired"
    BY <1>1, <1>3 DEF classify_startup_failure
  <2> QED BY <1>3, <2>1 DEF EvidenceEvents, BlamesTheCause
<1>4. CASE w.status \notin {"TrustRequired", "ToolPermissionRequired"}
  <2>1. \/ class \in {"PromptAcceptanceTimeout", "PromptMisdelivery"} /\ w.prompt_sent
        \/ class \in {"WorkerCrashed", "Unknown"}
    BY <1>4 DEF classify_startup_failure
  <2> QED BY <1>1, <1>4, <2>1 DEF EvidenceEvents, BlamesTheCause
<1> QED BY <1>2, <1>3, <1>4

LEMMA WorkersSound == WorkerIInv => WorkerBootSound
<1> SUFFICES ASSUME WorkerIInv PROVE WorkerBootSound
  OBVIOUS
<1>1. /\ workers \in [WorkerIds -> Worker \cup {NoWorker}] /\ state_file \in StateFiles
      /\ \A id \in WorkerIds : Known(id) => workers[id] \in Worker /\ WorkerOK(workers[id])
  BY DEF WorkerIInv, Known
<1>2. state_file # NoFile =>
        /\ state_file.worker_id \in WorkerIds
        /\ Known(state_file.worker_id) /\ FileShows(state_file, workers[state_file.worker_id])
        /\ state_file.is_ready \in BOOLEAN
  BY <1>1 DEF WorkerIInv, StateFiles
<1>3. WorkerTypeOK
  BY <1>1, <1>2 DEF WorkerTypeOK
<1>4. NoPromptBehindAnother /\ ReplayIsTheLostPrompt
  BY <1>1 DEF NoPromptBehindAnother, ReplayIsTheLostPrompt, WorkerOK
<1>5. BlockedForItsReason
  <2> SUFFICES ASSUME NEW id \in WorkerIds, Known(id), await_ready(workers[id]).blocked
               PROVE  workers[id].last_error \in
                        (CASE workers[id].status = "TrustRequired" -> {"TrustGate"}
                           [] workers[id].status = "ToolPermissionRequired" -> {"ToolPermissionGate"}
                           [] OTHER -> {"PromptDelivery", "Provider", "StartupNoEvidence"})
    BY DEF BlockedForItsReason
  <2>1. workers[id].status \in {"TrustRequired", "ToolPermissionRequired", "Failed"}
    BY Zenon DEF await_ready
  <2>2. WorkerOK(workers[id])
    BY <1>1
  <2> QED BY <2>1, <2>2 DEF WorkerOK
<1>6. FileTellsReadiness
  BY <1>2 DEF FileTellsReadiness, FileShows
<1>7. TimeoutBlamesTheCause
  <2>1. \A id \in WorkerIds, mcp, l \in BOOLEAN : Known(id) =>
          BlamesTheCause(workers[id], classify_startup_failure(workers[id], TRUE, mcp, l))
    BY <1>1, Blame
  <2> QED BY Zenon, <2>1 DEF TimeoutBlamesTheCause, BlamesTheCause
<1> QED BY <1>3, <1>4, <1>5, <1>6, <1>7 DEF WorkerBootSound

\* Whatever the screens of the workers show and in whatever order they are read:
\* no prompt is sent behind another, a replayed prompt is the one that was lost, a
\* worker is blocked for the reason it shows, worker-state.json tells when it is
\* ready, and a startup timeout blames what was seen (worker_boot.rs).
THEOREM WorkersBootSafely == PartSpec => []WorkerBootChecked
<1>1. PartInit => WorkerIInv
  BY WorkerStart DEF PartInit
<1>2. WorkerIInv /\ [PartNext]_partVars => WorkerIInv'
  BY OtherSteps, WorkerStep
<1>3. WorkerIInv => WorkerBootChecked
  BY WorkersSound DEF WorkerBootChecked
<1> QED BY <1>1, <1>2, <1>3, PTL DEF PartSpec

-----------------------------------------------------------------------------
(* Sub-agents *)

AgentPhases == {"idle", "turn", "append", "list", "disable", "write", "done"}

AgentThread ==
  [phase : AgentPhases, status : {"None", "completed", "failed"},
   error : AgentErrors \cup {{}}, result : AgentResults \cup {{}},
   todo : SUBSET CronIds, disabled : SUBSET CronIds]

CronEntries ==
  [state : {"unused", "entry", "deleted"}, enabled : BOOLEAN, mentions : SUBSET AgentIds]

AgentTypes ==
  /\ agents \in [AgentIds -> AgentThread]
  /\ manifests = [a \in AgentIds |-> manifests[a]]
  /\ outputs \in [AgentIds -> Seq({"completed", "failed"})]
  /\ crons \in [CronIds -> CronEntries]
  /\ faults \in 0..MaxIoFaults

\* An entry that was switched off stays so: it can only be deleted, and ids are
\* not used again.
Off(cron) == cron.state # "unused" /\ ~cron.enabled

\* An error classified as an MCP failure shows in the derived state.
McpShown(m) ==
  m.status = "failed" /\ m.class \in {"McpHandshake", "McpStartup"} =>
    m.derived \in {"degraded_mcp", "blocked_background_job", "blocked_merge_conflict"}

Ended(m) == m.status \in {"completed", "failed"}

\* What a thread t, its manifest m, its output o and the cron entries es have to do
\* with each other: the output tells what the thread is about to put in the manifest.
ThreadOK(t, m, o, es) ==
  /\ t.phase = "idle" => m.status = "None"
  /\ t.phase \in {"turn", "append", "list", "disable", "write"} => m.status = "running"
  /\ t.phase = "done" => m.status \in {"running", "completed", "failed"}
  /\ t.phase \in {"append", "list", "disable", "write"} => t.status \in {"completed", "failed"}
  /\ t.phase \in {"list", "disable"} => t.status = "completed"
  /\ t.phase \in {"list", "disable", "write"} => o # <<>> /\ Last(o) = t.status
  /\ \A c \in t.todo : es[c].state # "unused"
  /\ \A c \in t.disabled : Off(es[c])
  /\ Ended(m) =>
       /\ o # <<>> /\ Last(o) = m.status
       /\ \A c \in m.disabled : c \in CronIds /\ Off(es[c])
       /\ McpShown(m)

AgentIInv ==
  /\ AgentTypes
  /\ \A a \in AgentIds : ThreadOK(agents[a], manifests[a], outputs[a], crons)

LEMMA LeastOfEleven ==
  ASSUME NEW F \in SUBSET (1..11), F # {}
  PROVE  \E i \in F : \A j \in F : i <= j
<1> SUFFICES ASSUME \A i \in F : \E j \in F : ~(i <= j) PROVE FALSE
  OBVIOUS
<1>1. \A i \in F : i > 1
  OBVIOUS
<1>2. \A i \in F : i > 2
  BY <1>1
<1>3. \A i \in F : i > 3
  BY <1>2
<1>4. \A i \in F : i > 4
  BY <1>3
<1>5. \A i \in F : i > 5
  BY <1>4
<1>6. \A i \in F : i > 6
  BY <1>5
<1>7. \A i \in F : i > 7
  BY <1>6
<1>8. \A i \in F : i > 8
  BY <1>7
<1>9. \A i \in F : i > 9
  BY <1>8
<1>10. \A i \in F : i > 10
  BY <1>9
<1>11. \A i \in F : i > 11
  BY <1>10
<1>12. PICK i \in F : i > 11
  BY <1>11
<1> QED
  BY <1>12

LEMMA McpReadings ==
  ASSUME NEW error, classify_lane_failure(error) \in {"McpHandshake", "McpStartup"}
  PROVE  "mcp" \in error \/ "mcp_handshake" \in error
<1> DEFINE order == <<"prompt_deliver", "trust", "stale_branch", "gateway", "compile", "test",
                      "tool_failed", "workspace_mismatch", "plugin", "mcp_handshake", "mcp">>
           class == <<"PromptDelivery", "TrustGate", "BranchDivergence", "GatewayRouting",
                      "Compile", "Test", "ToolRuntime", "WorkspaceMismatch", "PluginStartup",
                      "McpHandshake", "McpStartup">>
           found == {i \in 1..Len(order) : order[i] \in error}
           first == CHOOSE i \in found : \A j \in found : i <= j
<1>2. classify_lane_failure(error) = IF found = {} THEN "Infra" ELSE class[first]
  BY Zenon DEF classify_lane_failure
<1>3. found # {} /\ class[first] \in {"McpHandshake", "McpStartup"}
  BY <1>2
<1>4. first \in found
  <2>1. \E i \in found : \A j \in found : i <= j
    <3>1. Len(order) = 11
      OBVIOUS
    <3>2. found \in SUBSET (1..11)
      BY <3>1
    <3> HIDE DEF found
    <3> QED
      BY <1>3, <3>2, LeastOfEleven
  <2> HIDE DEF found
  <2> QED
    BY <2>1
<1>5. first \in 1..11 /\ order[first] \in error
  <2> HIDE DEF first
  <2>1. Len(order) = 11
    OBVIOUS
  <2> QED
    BY <1>4, <2>1
<1> HIDE DEF first
<1>6. first = 10 \/ first = 11
  BY <1>3, <1>5
<1> QED
  BY <1>5, <1>6

LEMMA TerminalShowsMcp ==
  ASSUME NEW p PROVE McpShown(TerminalManifest(p))
<1> SUFFICES ASSUME p.status = "failed",
                    classify_lane_failure(p.error) \in {"McpHandshake", "McpStartup"}
             PROVE  derive_agent_state(p.status, p.result, p.error) \in
                      {"degraded_mcp", "blocked_background_job", "blocked_merge_conflict"}
  BY DEF McpShown, TerminalManifest
<1>1. Mentions(p.error, {"mcp", "mcp_handshake"})
  BY McpReadings DEF Mentions
<1> QED
  BY <1>1 DEF derive_agent_state

LEMMA AgentStart == AgentInit => AgentIInv
<1> SUFFICES ASSUME AgentInit PROVE AgentIInv
  OBVIOUS
<1>1. Idle \in AgentThread /\ NoCron \in CronEntries
  BY DEF Idle, AgentThread, AgentPhases, NoCron, CronEntries
<1>2. AgentTypes
  BY <1>1, AgentAssumption DEF AgentInit, AgentTypes
<1>3. ASSUME NEW a \in AgentIds PROVE ThreadOK(agents[a], manifests[a], outputs[a], crons)
  BY DEF AgentInit, ThreadOK, Idle, NoManifest, Ended
<1> QED
  BY <1>2, <1>3 DEF AgentIInv

\* The cron entries only come to an end.
CronsOnlyEnd ==
  /\ crons' \in [CronIds -> CronEntries]
  /\ \A c \in CronIds : /\ crons[c].state # "unused" => crons'[c].state # "unused"
                        /\ Off(crons[c]) => Off(crons'[c])

LEMMA CronsEnd ==
  ASSUME NEW t \in AgentThread, NEW m, NEW o, ThreadOK(t, m, o, crons), CronsOnlyEnd
  PROVE  ThreadOK(t, m, o, crons')
<1>1. \A c \in t.todo : c \in CronIds /\ crons[c].state # "unused"
  BY DEF ThreadOK, AgentThread
<1>2. \A c \in t.disabled : c \in CronIds /\ Off(crons[c])
  BY DEF ThreadOK, AgentThread
<1>3. \A c \in t.todo : crons'[c].state # "unused"
  BY <1>1 DEF CronsOnlyEnd
<1>4. \A c \in t.disabled : Off(crons'[c])
  BY <1>2 DEF CronsOnlyEnd
<1>5. Ended(m) => \A c \in m.disabled : c \in CronIds /\ Off(crons'[c])
  BY DEF ThreadOK, CronsOnlyEnd
<1> QED
  BY <1>3, <1>4, <1>5 DEF ThreadOK

\* A step of the agent a.
LEMMA OneAgent ==
  ASSUME AgentIInv, NEW a \in AgentIds,
         agents' = [agents EXCEPT ![a] = agents'[a]], agents'[a] \in AgentThread,
         manifests' = [manifests EXCEPT ![a] = manifests'[a]],
         outputs' = [outputs EXCEPT ![a] = outputs'[a]],
         outputs'[a] \in Seq({"completed", "failed"}),
         CronsOnlyEnd, faults' \in 0..MaxIoFaults,
         ThreadOK(agents'[a], manifests'[a], outputs'[a], crons')
  PROVE  AgentIInv'
<1>1. AgentTypes'
  <2>1. manifests' = [b \in AgentIds |-> manifests'[b]]
    BY DEF AgentIInv, AgentTypes
  <2>2. agents' \in [AgentIds -> AgentThread]
    BY DEF AgentIInv, AgentTypes
  <2>3. outputs' \in [AgentIds -> Seq({"completed", "failed"})]
    BY DEF AgentIInv, AgentTypes
  <2> QED
    BY <2>1, <2>2, <2>3 DEF AgentTypes, CronsOnlyEnd
<1>2. ASSUME NEW b \in AgentIds, b # a
      PROVE  ThreadOK(agents'[b], manifests'[b], outputs'[b], crons')
  <2>1. agents'[b] = agents[b] /\ manifests'[b] = manifests[b] /\ outputs'[b] = outputs[b]
    BY <1>2 DEF AgentIInv, AgentTypes
  <2>2. agents[b] \in AgentThread /\ ThreadOK(agents[b], manifests[b], outputs[b], crons)
    BY DEF AgentIInv, AgentTypes
  <2>3. ThreadOK(agents[b], manifests[b], outputs[b], crons')
    BY <2>2, CronsEnd
  <2> QED
    BY <2>1, <2>3
<1>3. \A b \in AgentIds : ThreadOK(agents'[b], manifests'[b], outputs'[b], crons')
  BY <1>2
<1> QED
  BY <1>1, <1>3 DEF AgentIInv

\* Steps that leave manifests, outputs or crons alone.
LEMMA SameManifest ==
  ASSUME AgentIInv, manifests' = manifests, NEW a \in AgentIds
  PROVE  manifests' = [manifests EXCEPT ![a] = manifests'[a]]
BY DEF AgentIInv, AgentTypes

LEMMA SameOutput ==
  ASSUME AgentIInv, outputs' = outputs, NEW a \in AgentIds
  PROVE  /\ outputs' = [outputs EXCEPT ![a] = outputs'[a]]
         /\ outputs'[a] \in Seq({"completed", "failed"})
BY DEF AgentIInv, AgentTypes

LEMMA SameCrons ==
  ASSUME AgentIInv, crons' = crons PROVE CronsOnlyEnd
BY DEF AgentIInv, AgentTypes, CronsOnlyEnd

LEMMA Faults ==
  ASSUME AgentIInv, Fault \/ NoFault PROVE faults' \in 0..MaxIoFaults
BY AgentAssumption DEF AgentIInv, AgentTypes, Fault, NoFault

LEMMA AgentFacts ==
  ASSUME AgentIInv, NEW a \in AgentIds
  PROVE  /\ agents[a] \in AgentThread /\ ThreadOK(agents[a], manifests[a], outputs[a], crons)
         /\ outputs[a] \in Seq({"completed", "failed"})
         /\ DOMAIN agents = AgentIds /\ DOMAIN manifests = AgentIds /\ DOMAIN outputs = AgentIds
BY DEF AgentIInv, AgentTypes

LEMMA StartKeeps ==
  ASSUME AgentIInv, NEW a \in AgentIds, NEW spawned \in BOOLEAN, execute_agent(a, spawned)
  PROVE  AgentIInv'
<1> DEFINE t == IF spawned THEN [Idle EXCEPT !.phase = "turn"]
                ELSE [Idle EXCEPT !.phase = "append", !.status = "failed"]
<1>1. /\ t \in AgentThread /\ t.phase \in {"turn", "append"} /\ t.todo = {} /\ t.disabled = {}
      /\ (t.phase = "append" => t.status = "failed")
  BY DEF Idle, AgentThread, AgentPhases
<1> HIDE DEF t
<1>2. /\ agents' = [agents EXCEPT ![a] = t] /\ manifests' = [manifests EXCEPT ![a] = Running(a)]
      /\ UNCHANGED <<outputs, crons, faults>>
  BY DEF execute_agent, t
<1>3. agents'[a] = t /\ manifests'[a] = Running(a)
  BY <1>2, AgentFacts
<1>4. ThreadOK(agents'[a], manifests'[a], outputs'[a], crons')
  BY <1>1, <1>3 DEF ThreadOK, Running, Ended
<1>5. faults' \in 0..MaxIoFaults
  BY <1>2, Faults DEF NoFault
<1> QED
  BY <1>1, <1>2, <1>3, <1>4, <1>5, SameOutput, SameCrons, OneAgent

LEMMA TurnEndKeeps ==
  ASSUME AgentIInv, NEW a \in AgentIds,
         \/ \E result \in AgentResults : agent_turn_ends(a, result)
         \/ \E error \in AgentErrors : agent_turn_fails(a, error)
  PROVE  AgentIInv'
<1>1. /\ agents[a].phase = "turn" /\ UNCHANGED <<manifests, outputs, crons, faults>>
      /\ agents' = [agents EXCEPT ![a] = agents'[a]]
  BY AgentFacts DEF agent_turn_ends, agent_turn_fails
<1>2. /\ agents'[a] \in AgentThread /\ agents'[a].phase = "append"
      /\ agents'[a].status \in {"completed", "failed"}
      /\ agents'[a].todo = agents[a].todo /\ agents'[a].disabled = agents[a].disabled
  <2>1. ASSUME NEW result \in AgentResults, agent_turn_ends(a, result)
        PROVE  agents'[a] = [agents[a] EXCEPT !.phase = "append", !.status = "completed",
                                              !.result = result]
    BY <2>1, AgentFacts DEF agent_turn_ends
  <2>2. ASSUME NEW error \in AgentErrors, agent_turn_fails(a, error)
        PROVE  agents'[a] = [agents[a] EXCEPT !.phase = "append", !.status = "failed",
                                              !.error = error]
    BY <2>2, AgentFacts DEF agent_turn_fails
  <2>3. agents[a] \in AgentThread
    BY AgentFacts
  <2>4. CASE \E result \in AgentResults : agent_turn_ends(a, result)
    <3>1. PICK result \in AgentResults : agent_turn_ends(a, result)
      BY <2>4
    <3> QED
      BY <2>1, <2>3, <3>1, ZenonT(30) DEF AgentThread, AgentPhases
  <2>5. CASE \E error \in AgentErrors : agent_turn_fails(a, error)
    <3>1. PICK error \in AgentErrors : agent_turn_fails(a, error)
      BY <2>5
    <3> QED
      BY <2>2, <2>3, <3>1, ZenonT(30) DEF AgentThread, AgentPhases
  <2> QED
    BY <2>4, <2>5
<1>3. ThreadOK(agents'[a], manifests'[a], outputs'[a], crons')
  BY <1>1, <1>2, AgentFacts DEF ThreadOK, Ended
<1>4. faults' \in 0..MaxIoFaults
  BY <1>1, Faults DEF NoFault
<1> QED
  BY <1>1, <1>2, <1>3, <1>4, SameManifest, SameOutput, SameCrons, OneAgent

\* A write that fails leaves the thread to record a failure, or gives up.
LEMMA FailedWrite ==
  ASSUME AgentIInv, NEW a \in AgentIds, PersistFails(a), agents[a].phase \in {"append", "write"},
         UNCHANGED <<manifests, outputs, crons>>, Fault
  PROVE  AgentIInv'
<1>1. agents' = [agents EXCEPT ![a] = agents'[a]]
  BY AgentFacts DEF PersistFails
<1>2. /\ agents'[a] \in AgentThread
      /\ \/ /\ agents'[a].phase = "append" /\ agents'[a].status = "failed"
            /\ agents'[a].todo = {} /\ agents'[a].disabled = {}
         \/ /\ agents'[a].phase = "done"
            /\ agents'[a].todo = agents[a].todo /\ agents'[a].disabled = agents[a].disabled
  <2>1. agents'[a] = IF agents[a].status = "completed"
                     THEN [Idle EXCEPT !.phase = "append", !.status = "failed"]
                     ELSE [agents[a] EXCEPT !.phase = "done"]
    BY AgentFacts DEF PersistFails
  <2>2. agents[a] \in AgentThread
    BY AgentFacts
  <2>3. CASE agents[a].status = "completed"
    BY <2>1, <2>3 DEF AgentThread, AgentPhases, Idle
  <2>4. CASE agents[a].status # "completed"
    BY <2>1, <2>2, <2>4 DEF AgentThread, AgentPhases
  <2> QED
    BY <2>3, <2>4
<1>3. ThreadOK(agents'[a], manifests'[a], outputs'[a], crons')
  BY <1>2, AgentFacts DEF ThreadOK, Ended
<1> QED
  BY <1>1, <1>2, <1>3, Faults, SameManifest, SameOutput, SameCrons, OneAgent

LEMMA AppendKeeps ==
  ASSUME AgentIInv, NEW a \in AgentIds, append_agent_output(a) PROVE AgentIInv'
<1>1. agents[a].phase = "append" /\ UNCHANGED <<manifests, crons>>
  BY DEF append_agent_output
<1>2. CASE /\ NoFault /\ outputs' = [outputs EXCEPT ![a] = Append(@, agents[a].status)]
           /\ agents' = [agents EXCEPT ![a].phase =
                           IF agents[a].status = "completed" THEN "list" ELSE "write"]
  <2>1. /\ agents' = [agents EXCEPT ![a] = agents'[a]]
        /\ agents'[a] = [agents[a] EXCEPT !.phase =
                           IF agents[a].status = "completed" THEN "list" ELSE "write"]
        /\ outputs' = [outputs EXCEPT ![a] = outputs'[a]]
        /\ outputs'[a] = Append(outputs[a], agents[a].status)
    BY <1>2, AgentFacts
  <2>2. agents[a].status \in {"completed", "failed"}
    BY <1>1, AgentFacts DEF ThreadOK
  <2>3. outputs'[a] \in Seq({"completed", "failed"}) /\ outputs'[a] # <<>>
        /\ Last(outputs'[a]) = agents[a].status
    <3>1. outputs[a] \in Seq({"completed", "failed"})
      BY AgentFacts
    <3> HIDE DEF AgentIInv
    <3>2. ASSUME NEW q \in Seq({"completed", "failed"}), NEW x \in {"completed", "failed"}
          PROVE  /\ Append(q, x) \in Seq({"completed", "failed"}) /\ Append(q, x) # <<>>
                 /\ Append(q, x)[Len(Append(q, x))] = x
      OBVIOUS
    <3> QED
      BY <2>1, <2>2, <3>1, <3>2 DEF Last
  <2>4. /\ agents'[a] \in AgentThread /\ agents'[a].status = agents[a].status
        /\ agents'[a].phase = IF agents[a].status = "completed" THEN "list" ELSE "write"
        /\ agents'[a].todo = agents[a].todo /\ agents'[a].disabled = agents[a].disabled
    BY <2>1, AgentFacts DEF AgentThread, AgentPhases
  <2>5. ThreadOK(agents'[a], manifests'[a], outputs'[a], crons')
    BY <1>1, <2>2, <2>3, <2>4, AgentFacts DEF ThreadOK, Ended
  <2> QED
    BY <1>1, <1>2, <2>1, <2>3, <2>4, <2>5, Faults, SameManifest, SameCrons, OneAgent
<1>3. CASE Fault /\ PersistFails(a) /\ UNCHANGED outputs
  BY <1>1, <1>3, FailedWrite
<1> QED
  BY <1>2, <1>3 DEF append_agent_output

LEMMA MatchKeeps ==
  ASSUME AgentIInv, NEW a \in AgentIds, cron_match(a) PROVE AgentIInv'
<1> DEFINE found == {c \in CronIds : Cron(c) /\ crons[c].enabled /\ a \in crons[c].mentions}
<1>1. /\ agents[a].phase = "list" /\ UNCHANGED <<manifests, outputs, crons, faults>>
      /\ agents' = [agents EXCEPT ![a] = agents'[a]]
      /\ agents'[a] = [agents[a] EXCEPT !.phase = "disable", !.todo = found]
  BY AgentFacts DEF cron_match
<1>2. found \subseteq CronIds /\ \A c \in found : crons[c].state # "unused"
  BY DEF Cron
<1> HIDE DEF found
<1>3. /\ agents'[a] \in AgentThread /\ agents'[a].phase = "disable" /\ agents'[a].todo = found
      /\ agents'[a].disabled = agents[a].disabled /\ agents'[a].status = agents[a].status
  BY <1>1, <1>2, AgentFacts DEF AgentThread, AgentPhases
<1>4. ThreadOK(agents'[a], manifests'[a], outputs'[a], crons')
  BY <1>1, <1>2, <1>3, AgentFacts DEF ThreadOK, Ended
<1>5. faults' \in 0..MaxIoFaults
  BY <1>1, Faults DEF NoFault
<1> QED
  BY <1>1, <1>3, <1>4, <1>5, SameManifest, SameOutput, SameCrons, OneAgent

LEMMA DisableKeeps ==
  ASSUME AgentIInv, NEW a \in AgentIds, disable_matching_crons(a) PROVE AgentIInv'
<1>1. agents[a].phase = "disable" /\ UNCHANGED <<manifests, outputs, faults>>
  BY DEF disable_matching_crons
<1>2. faults' \in 0..MaxIoFaults
  BY <1>1, Faults DEF NoFault
<1>3. ASSUME NEW c \in agents[a].todo,
             agents' = [agents EXCEPT ![a].todo = @ \ {c},
                          ![a].disabled = IF Cron(c) THEN @ \cup {c} ELSE @],
             crons' = IF Cron(c) THEN [crons EXCEPT ![c].enabled = FALSE] ELSE crons
      PROVE  AgentIInv'
  <2>1. c \in CronIds /\ crons \in [CronIds -> CronEntries]
    BY <1>3, AgentFacts DEF AgentThread, AgentIInv, AgentTypes
  <2>2. /\ agents' = [agents EXCEPT ![a] = agents'[a]]
        /\ agents'[a] = [agents[a] EXCEPT !.todo = @ \ {c},
                                          !.disabled = IF Cron(c) THEN @ \cup {c} ELSE @]
    BY <1>3, AgentFacts
  <2>3. /\ agents'[a] \in AgentThread /\ agents'[a].phase = "disable"
        /\ agents'[a].status = agents[a].status /\ agents'[a].todo = agents[a].todo \ {c}
        /\ agents'[a].disabled = IF Cron(c) THEN agents[a].disabled \cup {c}
                                 ELSE agents[a].disabled
    <3>1. agents[a] \in AgentThread
      BY AgentFacts
    <3>2. CASE Cron(c)
      <4>1. agents'[a] = [agents[a] EXCEPT !.todo = @ \ {c}, !.disabled = @ \cup {c}]
        BY <2>2, <3>2
      <4> DEFINE more == agents[a].disabled \cup {c}
                 left == agents[a].todo \ {c}
      <4>2. more \in SUBSET CronIds /\ left \in SUBSET CronIds
        BY <2>1, <3>1 DEF AgentThread
      <4>3. agents'[a] = [agents[a] EXCEPT !.todo = left, !.disabled = more]
        BY <4>1
      <4> HIDE DEF more, left
      <4>4. /\ agents'[a] \in AgentThread /\ agents'[a].phase = "disable"
            /\ agents'[a].status = agents[a].status /\ agents'[a].todo = left
            /\ agents'[a].disabled = more
        BY <1>1, <3>1, <4>2, <4>3 DEF AgentThread
      <4> QED
        BY <3>2, <4>4 DEF more, left
    <3>3. CASE ~Cron(c)
      <4>1. agents'[a] = [agents[a] EXCEPT !.todo = @ \ {c}, !.disabled = @]
        BY <2>2, <3>3
      <4> QED
        BY <1>1, <2>1, <3>1, <3>3, <4>1 DEF AgentThread
    <3> QED
      BY <3>2, <3>3
  <2>4. CronsOnlyEnd /\ (Cron(c) => Off(crons'[c]))
    <3>1. CASE Cron(c)
      <4>1. crons' = [crons EXCEPT ![c].enabled = FALSE] /\ crons[c].state = "entry"
        BY <1>3, <3>1 DEF Cron
      <4>2. /\ crons'[c].state = "entry" /\ crons'[c].enabled = FALSE
            /\ crons' \in [CronIds -> CronEntries]
            /\ \A d \in CronIds \ {c} : crons'[d] = crons[d]
        BY <2>1, <4>1 DEF CronEntries
      <4> QED
        BY <4>1, <4>2 DEF CronsOnlyEnd, Off
    <3>2. CASE ~Cron(c)
      BY <1>3, <3>2, SameCrons
    <3> QED
      BY <3>1, <3>2
  <2>5. ThreadOK(agents[a], manifests[a], outputs[a], crons')
    BY <2>4, AgentFacts, CronsEnd
  <2>6. ThreadOK(agents'[a], manifests'[a], outputs'[a], crons')
    BY <1>1, <2>3, <2>4, <2>5 DEF ThreadOK, Ended
  <2> QED
    BY <1>1, <1>2, <2>2, <2>3, <2>4, <2>6, SameManifest, SameOutput, OneAgent
<1>4. ASSUME agents' = [agents EXCEPT ![a].phase = "write"], crons' = crons
      PROVE  AgentIInv'
  <2>1. /\ agents' = [agents EXCEPT ![a] = agents'[a]]
        /\ agents'[a] = [agents[a] EXCEPT !.phase = "write"]
    BY <1>4, AgentFacts
  <2>2. /\ agents'[a] \in AgentThread /\ agents'[a].phase = "write"
        /\ agents'[a].status = agents[a].status /\ agents'[a].todo = agents[a].todo
        /\ agents'[a].disabled = agents[a].disabled
    BY <2>1, AgentFacts DEF AgentThread, AgentPhases
  <2>3. ThreadOK(agents'[a], manifests'[a], outputs'[a], crons')
    BY <1>1, <1>4, <2>2, AgentFacts DEF ThreadOK, Ended
  <2> QED
    BY <1>1, <1>2, <1>4, <2>1, <2>2, <2>3, SameManifest, SameOutput, SameCrons, OneAgent
<1> QED
  BY <1>3, <1>4 DEF disable_matching_crons

LEMMA WriteKeeps ==
  ASSUME AgentIInv, NEW a \in AgentIds, write_agent_manifest(a) PROVE AgentIInv'
<1>1. agents[a].phase = "write" /\ UNCHANGED <<outputs, crons>>
  BY DEF write_agent_manifest
<1>2. CASE /\ NoFault /\ manifests' = [manifests EXCEPT ![a] = TerminalManifest(agents[a])]
           /\ agents' = [agents EXCEPT ![a].phase = "done"]
  <2>1. /\ agents' = [agents EXCEPT ![a] = agents'[a]]
        /\ agents'[a] = [agents[a] EXCEPT !.phase = "done"]
        /\ manifests' = [manifests EXCEPT ![a] = manifests'[a]]
        /\ manifests'[a] = TerminalManifest(agents[a])
    BY <1>2, AgentFacts
  <2>2. /\ agents'[a] \in AgentThread /\ agents'[a].phase = "done"
        /\ agents'[a].todo = agents[a].todo /\ agents'[a].disabled = agents[a].disabled
    BY <2>1, AgentFacts DEF AgentThread, AgentPhases
  <2>3. /\ manifests'[a].status = agents[a].status /\ manifests'[a].disabled = agents[a].disabled
        /\ McpShown(manifests'[a])
    BY <2>1, TerminalShowsMcp DEF TerminalManifest
  <2>4. agents[a].disabled \subseteq CronIds
    BY AgentFacts DEF AgentThread
  <2>5. ThreadOK(agents'[a], manifests'[a], outputs'[a], crons')
    BY <1>1, <2>2, <2>3, <2>4, AgentFacts DEF ThreadOK, Ended
  <2> QED
    BY <1>1, <1>2, <2>1, <2>2, <2>5, Faults, SameOutput, SameCrons, OneAgent
<1>3. CASE Fault /\ PersistFails(a) /\ UNCHANGED manifests
  BY <1>1, <1>3, FailedWrite
<1> QED
  BY <1>2, <1>3 DEF write_agent_manifest

LEMMA CronKeeps ==
  ASSUME AgentIInv, NEW c \in CronIds,
         cron_delete(c) \/ \E mentions \in SUBSET AgentIds : cron_create(c, mentions)
  PROVE  AgentIInv'
<1>1. UNCHANGED <<agents, manifests, outputs, faults>>
  BY DEF cron_delete, cron_create
<1>2. CronsOnlyEnd
  <2>1. crons \in [CronIds -> CronEntries]
    BY DEF AgentIInv, AgentTypes
  <2>2. CASE cron_delete(c)
    <3> DEFINE gone == [NoCron EXCEPT !.state = "deleted"]
    <3>1. gone \in CronEntries /\ gone.state = "deleted" /\ gone.enabled = FALSE
      BY DEF NoCron, CronEntries
    <3> HIDE DEF gone
    <3>2. crons' = [crons EXCEPT ![c] = gone]
      BY <2>2 DEF cron_delete, gone
    <3>3. /\ crons' \in [CronIds -> CronEntries] /\ crons'[c] = gone
          /\ \A d \in CronIds \ {c} : crons'[d] = crons[d]
      BY <2>1, <3>1, <3>2
    <3> QED
      BY <3>1, <3>3 DEF CronsOnlyEnd, Off
  <2>3. CASE \E mentions \in SUBSET AgentIds : cron_create(c, mentions)
    <3>1. PICK mentions \in SUBSET AgentIds : cron_create(c, mentions)
      BY <2>3
    <3>2. /\ crons[c].state = "unused"
          /\ crons' = [crons EXCEPT ![c] = [state |-> "entry", enabled |-> TRUE,
                                            mentions |-> mentions]]
      BY <3>1 DEF cron_create, NoCron
    <3>3. crons' \in [CronIds -> CronEntries]
      BY <2>1, <3>2 DEF CronEntries
    <3>4. \A d \in CronIds \ {c} : crons'[d] = crons[d]
      BY <2>1, <3>2
    <3> QED
      BY <3>2, <3>3, <3>4 DEF CronsOnlyEnd, Off
  <2> QED
    BY <2>2, <2>3
<1>3. ASSUME NEW b \in AgentIds
      PROVE  ThreadOK(agents[b], manifests[b], outputs[b], crons')
  BY <1>2, AgentFacts, CronsEnd
<1>4. AgentTypes'
  BY <1>1, <1>2 DEF AgentIInv, AgentTypes, CronsOnlyEnd
<1> QED
  BY <1>1, <1>3, <1>4 DEF AgentIInv

\* The end of an agent that is recorded stays recorded as it is.
RecordedOnce ==
  \A a \in AgentIds : manifests[a].status \in {"completed", "failed"} => manifests'[a] = manifests[a]

LEMMA EndStays ==
  ASSUME AgentIInv, NEW a \in AgentIds, agents[a].phase # "done",
         NEW m, manifests' = [manifests EXCEPT ![a] = m]
  PROVE  RecordedOnce
<1>1. ~Ended(manifests[a])
  BY AgentFacts DEF ThreadOK, Ended, AgentThread, AgentPhases
<1>2. \A b \in AgentIds : b # a => manifests'[b] = manifests[b]
  BY AgentFacts
<1> QED
  BY <1>1, <1>2 DEF RecordedOnce, Ended

LEMMA AgentStepKeeps ==
  ASSUME AgentIInv, NEW a \in AgentIds, AgentStep(a) PROVE AgentIInv' /\ RecordedOnce
<1>1. CASE \/ \E result \in AgentResults : agent_turn_ends(a, result)
           \/ \E error \in AgentErrors : agent_turn_fails(a, error)
  <2>1. manifests' = manifests
    BY <1>1 DEF agent_turn_ends, agent_turn_fails
  <2> QED
    BY <1>1, <2>1, TurnEndKeeps DEF RecordedOnce
<1>2. CASE append_agent_output(a)
  BY <1>2, AppendKeeps DEF RecordedOnce, append_agent_output
<1>3. CASE cron_match(a)
  BY <1>3, MatchKeeps DEF RecordedOnce, cron_match
<1>4. CASE disable_matching_crons(a)
  BY <1>4, DisableKeeps DEF RecordedOnce, disable_matching_crons
<1>5. CASE write_agent_manifest(a)
  <2>1. agents[a].phase # "done"
    BY <1>5 DEF write_agent_manifest
  <2>2. manifests' = manifests \/ manifests' = [manifests EXCEPT ![a] = TerminalManifest(agents[a])]
    BY <1>5 DEF write_agent_manifest
  <2>3. RecordedOnce
    <3>1. CASE manifests' = manifests
      BY <3>1 DEF RecordedOnce
    <3>2. CASE manifests' = [manifests EXCEPT ![a] = TerminalManifest(agents[a])]
      BY <2>1, <3>2, EndStays
    <3> QED
      BY <2>2, <3>1, <3>2
  <2> QED
    BY <1>5, <2>3, WriteKeeps
<1> QED
  BY <1>1, <1>2, <1>3, <1>4, <1>5 DEF AgentStep

LEMMA AgentsStep ==
  ASSUME AgentIInv, AgentNext \/ UNCHANGED agentVars PROVE AgentIInv' /\ [RecordedOnce]_agentVars
<1>1. CASE \E a \in AgentIds : AgentStep(a)
  BY <1>1, AgentStepKeeps
<1>2. ASSUME NEW a \in AgentIds, NEW spawned \in BOOLEAN, execute_agent(a, spawned)
      PROVE  AgentIInv' /\ RecordedOnce
  <2>1. agents[a].phase # "done" /\ manifests' = [manifests EXCEPT ![a] = Running(a)]
    BY <1>2 DEF execute_agent
  <2>2. RecordedOnce
    BY <2>1, EndStays
  <2> QED
    BY <1>2, <2>2, StartKeeps
<1>3. ASSUME NEW c \in CronIds,
             cron_delete(c) \/ \E mentions \in SUBSET AgentIds : cron_create(c, mentions)
      PROVE  AgentIInv' /\ RecordedOnce
  <2>1. manifests' = manifests
    BY <1>3 DEF cron_delete, cron_create
  <2> QED
    BY <1>3, <2>1, CronKeeps DEF RecordedOnce
<1>4. CASE ProcessKilled \/ UNCHANGED agentVars
  <2>1. UNCHANGED <<agents, manifests, outputs, crons, faults>>
    BY <1>4 DEF ProcessKilled, agentVars
  <2> QED
    BY <2>1 DEF AgentIInv, AgentTypes, RecordedOnce
<1> QED
  BY <1>1, <1>2, <1>3, <1>4, Zenon DEF AgentNext

\* Sub-agents (tools/src/lib.rs, execute_agent and persist_agent_terminal_state), however
\* their steps, the cron tools, failing writes and a kill interleave: a manifest that tells
\* an end is backed by the output file, a cron entry it reports as disabled is off, an
\* error classified as an MCP failure shows in the derived state, and an end is recorded
\* once.
THEOREM AgentsEndInOrder == PartSpec => AgentJobsSound
<1>1. PartInit => AgentIInv
  BY AgentStart DEF PartInit
<1>2. AgentIInv /\ [PartNext]_partVars => AgentIInv' /\ [RecordedOnce]_agentVars
  <2> SUFFICES ASSUME AgentIInv, [PartNext]_partVars
               PROVE  AgentIInv' /\ [RecordedOnce]_agentVars
    OBVIOUS
  <2>1. AgentNext \/ UNCHANGED agentVars
    BY Zenon DEF PartNext, partVars
  <2> QED
    BY <2>1, AgentsStep
<1>3. AgentIInv => /\ AgentTypeOK /\ ManifestBackedByOutput /\ ReportedCronsAreOff
                   /\ McpFailureShowsAsDegraded
  <2> SUFFICES ASSUME AgentIInv
               PROVE  /\ AgentTypeOK /\ ManifestBackedByOutput /\ ReportedCronsAreOff
                      /\ McpFailureShowsAsDegraded
    OBVIOUS
  <2>1. AgentTypeOK
    <3>1. ASSUME NEW a \in AgentIds
          PROVE  /\ agents[a].phase \in AgentPhases
                 /\ manifests[a].status \in {"None", "running", "completed", "failed"}
                 /\ agents[a].todo \subseteq CronIds /\ agents[a].disabled \subseteq CronIds
      <4>1. agents[a] \in AgentThread /\ ThreadOK(agents[a], manifests[a], outputs[a], crons)
        BY AgentFacts
      <4> QED
        BY <4>1 DEF AgentThread, AgentPhases, ThreadOK
    <3> QED
      BY <3>1 DEF AgentIInv, AgentTypes, AgentTypeOK, AgentPhases
  <2>2. ManifestBackedByOutput
    BY AgentFacts DEF ThreadOK, Ended, ManifestBackedByOutput
  <2>3. ReportedCronsAreOff
    BY AgentFacts DEF ThreadOK, Ended, Off, ReportedCronsAreOff
  <2>4. McpFailureShowsAsDegraded
    BY AgentFacts DEF ThreadOK, Ended, McpShown, McpFailureShowsAsDegraded
  <2> QED
    BY <2>1, <2>2, <2>3, <2>4
<1>4. PartSpec => [][RecordedOnce]_agentVars
  BY <1>1, <1>2, PTL DEF PartSpec
<1>5. PartSpec => EndIsRecordedOnce
  BY <1>4 DEF EndIsRecordedOnce, RecordedOnce
<1> QED
  BY <1>1, <1>2, <1>3, <1>5, PTL DEF PartSpec, AgentJobsSound
=============================================================================
