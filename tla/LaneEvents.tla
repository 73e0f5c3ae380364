----------------------------- MODULE LaneEvents -----------------------------
(***************************************************************************)
(* The events a lane reports (runtime/src/lane_events.rs) and what a reader *)
(* makes of a burst of them: reconcile_terminal_events, which must name one *)
(* outcome however the events arrive, dedupe_terminal_events, and           *)
(* dedupe_superseded_commit_events, which a manifest is written through.    *)
(* Between the lane and the reader events are delayed, reordered, repeated. *)
(***************************************************************************)
EXTENDS Naturals, Sequences, FiniteSets, SequencesExt

CONSTANTS MaxLaneEvents,     \* events the lane emits
          MaxLaneDeliveries  \* deliveries, repetitions included

VARIABLES laneSent,  \* the events in the order they were built
          laneInbox  \* what the reader got, in the order it got it

laneVars == <<laneSent, laneInbox>>

NoLaneData == "none"
LaneDatas == {NoLaneData, "d1", "d2"}
LaneFailureClasses == {"Compile", "Test"}

-----------------------------------------------------------------------------
(* Building events *)

is_terminal_event(name) == name \in {"Finished", "Failed", "Superseded", "Closed", "Merged"}

classify_event_terminality(name) ==
  IF is_terminal_event(name) THEN "Terminal" ELSE IF name = "Reconciled" THEN "Uncertainty" ELSE "Advisory"

\* A digest of the name, the status and the data: not of the failure class.
compute_event_fingerprint(name, status, data) == <<name, status, data>>

NoFingerprint == <<>>
LaneEvent(name, status, class, data, seq) ==
  [name |-> name, status |-> status, class |-> class, data |-> data, seq |-> seq, fp |-> NoFingerprint]
build_terminal(event) ==
  [event EXCEPT !.fp = compute_event_fingerprint(event.name, event.status, event.data)]

LaneSeq == Len(laneSent) + 1
Emit(event) ==
  /\ Len(laneSent) < MaxLaneEvents
  /\ laneSent' = Append(laneSent, event)
  /\ UNCHANGED laneInbox

LaneInit == laneSent = <<>> /\ laneInbox = <<>>

EmitBlocked(class) == Emit(LaneEvent("Blocked", "Blocked", class, NoLaneData, LaneSeq))
EmitFinished(data) == Emit(build_terminal(LaneEvent("Finished", "Completed", "none", data, LaneSeq)))
EmitFailed(class) == Emit(build_terminal(LaneEvent("Failed", "Failed", class, NoLaneData, LaneSeq)))
\* Built without a fingerprint: LaneEventBuilder::build.
EmitMerged == Emit(LaneEvent("Merged", "Merged", "none", NoLaneData, LaneSeq))
\* The transport reports that it lost the lane.
EmitReconciled == Emit(LaneEvent("Reconciled", "Reconciled", "none", NoLaneData, LaneSeq))
\* The data of a commit: its canonical commit (data) and whether it was superseded (class).
EmitCommit(commit, superseded) ==
  Emit(LaneEvent("CommitCreated", "Completed", IF superseded THEN "superseded" ELSE "none", commit, LaneSeq))

\* Any event, at any time, any number of times.
DeliverLaneEvent(i) ==
  /\ Len(laneInbox) < MaxLaneDeliveries
  /\ laneInbox' = Append(laneInbox, laneSent[i])
  /\ UNCHANGED laneSent

LaneNext ==
  \/ \E c \in LaneFailureClasses : EmitBlocked(c) \/ EmitFailed(c)
  \/ \E d \in LaneDatas : EmitFinished(d)
  \/ EmitMerged \/ EmitReconciled
  \/ \E commit \in {"d1", "d2"}, superseded \in BOOLEAN : EmitCommit(commit, superseded)
  \/ \E i \in 1..Len(laneSent) : DeliverLaneEvent(i)

-----------------------------------------------------------------------------
(* What the reader makes of them *)

events_materially_differ(a, b) ==
  a.name # b.name \/ a.status # b.status \/ a.class # b.class \/ a.data # b.data

SameFingerprint(a, b) == a.fp # NoFingerprint /\ b.fp # NoFingerprint /\ a.fp = b.fp

\* Mutant: events are taken as they arrive.
sorted_by_arrival(events) == events
sorted_by_seq(events) == SortSeq(events, LAMBDA a, b : a.seq < b.seq)

NoTerminal == [name |-> "none"]
ReconcileStep(acc, event) ==
  CASE classify_event_terminality(event.name) = "Terminal" ->
         IF acc.last = NoTerminal \/ (~ SameFingerprint(event, acc.last) /\ events_materially_differ(acc.last, event))
           THEN [acc EXCEPT !.last = event] ELSE acc
    [] classify_event_terminality(event.name) = "Uncertainty" ->
         [acc EXCEPT !.uncertain = @ \/ acc.last # NoTerminal, !.rest = Append(@, event)]
    [] OTHER -> [acc EXCEPT !.rest = Append(@, event)]

\* The outcome, with Reconciled in place of a terminal event the transport died after.
reconcile_terminal_events(events) ==
  LET acc == FoldLeft(ReconcileStep, [last |-> NoTerminal, uncertain |-> FALSE, rest |-> <<>>],
                      sorted_by_seq(events))
  IN [terminal |-> IF acc.uncertain THEN [acc.last EXCEPT !.name = "Reconciled", !.status = "Reconciled"]
                   ELSE acc.last,
      rest |-> acc.rest]

DedupeStep(acc, event) ==
  IF is_terminal_event(event.name) /\ event.fp # NoFingerprint
    THEN IF event.fp \in acc.seen THEN acc
         ELSE [seen |-> acc.seen \cup {event.fp}, kept |-> Append(acc.kept, event)]
    ELSE [acc EXCEPT !.kept = Append(@, event)]
dedupe_terminal_events(events) == FoldLeft(DedupeStep, [seen |-> {}, kept |-> <<>>], events).kept

\* keep[index] of dedupe_superseded_commit_events, in its pass over the list.
dedupe_superseded_commit_events(events) ==
  LET Step(acc, i) ==
        LET e == events[i] IN
        IF e.name # "CommitCreated" THEN acc
        ELSE IF e.class = "superseded" THEN [acc EXCEPT !.keep[i] = FALSE]
        ELSE LET previous == acc.latest[e.data] IN
             [latest |-> [acc.latest EXCEPT ![e.data] = i],
              keep |-> IF previous = 0 THEN acc.keep ELSE [acc.keep EXCEPT ![previous] = FALSE]]
  IN FoldLeft(Step, [latest |-> [d \in LaneDatas |-> 0], keep |-> [i \in 1..Len(events) |-> TRUE]],
              [i \in 1..Len(events) |-> i]).keep
KeptEvents(events) ==
  LET keep == dedupe_superseded_commit_events(events)
      kept == SelectSeq([i \in 1..Len(events) |-> i], LAMBDA i : keep[i])
  IN [k \in 1..Len(kept) |-> events[kept[k]]]

-----------------------------------------------------------------------------
(* Properties *)

Delivered == Range(laneInbox)
DeliveredTerminals == {e \in Delivered : e.name \in {"Finished", "Failed", "Merged"}}
LatestTerminal == CHOOSE e \in DeliveredTerminals : \A f \in DeliveredTerminals : f.seq <= e.seq

\* Whatever the order of arrival and however often an event is delivered, the outcome
\* reported is that of the last terminal event the lane emitted among those delivered,
\* or uncertain when the transport was lost after one of them.
OutcomeIsTheLatest ==
  LET outcome == reconcile_terminal_events(laneInbox).terminal
      lost == \E r \in Delivered, t \in DeliveredTerminals : r.name = "Reconciled" /\ t.seq < r.seq
  IN IF DeliveredTerminals = {} THEN outcome.name = "none"
     ELSE /\ outcome.data = LatestTerminal.data
          /\ outcome.name = IF lost THEN "Reconciled" ELSE LatestTerminal.name
          /\ outcome.status = IF lost THEN "Reconciled" ELSE LatestTerminal.status

\* A burst is not shortened by more than repetitions: each advisory event and each
\* distinct terminal event that was delivered is still there after the deduplication,
\* and a second deduplication changes nothing.
DedupeLosesNoNews ==
  LET kept == dedupe_terminal_events(laneInbox) IN
  /\ dedupe_terminal_events(kept) = kept
  /\ \A e \in Delivered : \E k \in Range(kept) :
       <<k.name, k.status, k.data>> = <<e.name, e.status, e.data>>
  /\ \A e \in Delivered \ DeliveredTerminals :
       Len(SelectSeq(kept, LAMBDA k : k = e)) = Len(SelectSeq(laneInbox, LAMBDA k : k = e))

\* A manifest names each commit once, by its last report that was not superseded, and
\* writing it again changes nothing: events that are not commits all stay.
ManifestNamesCommitsOnce ==
  LET kept == KeptEvents(laneInbox)
      Live(e) == e.name = "CommitCreated" /\ e.class # "superseded"
      last(commit) == {i \in 1..Len(laneInbox) : Live(laneInbox[i]) /\ laneInbox[i].data = commit}
  IN /\ KeptEvents(kept) = kept
     /\ SelectSeq(kept, LAMBDA e : e.name # "CommitCreated") = SelectSeq(laneInbox, LAMBDA e : e.name # "CommitCreated")
     /\ \A commit \in LaneDatas :
          LET shown == SelectSeq(kept, LAMBDA e : e.name = "CommitCreated" /\ e.data = commit) IN
          IF last(commit) = {} THEN shown = <<>>
          ELSE \E i \in last(commit) : (\A j \in last(commit) : j <= i) /\ shown = <<laneInbox[i]>>

\* Whatever the order and the repetition in which lane events arrive, the
\* outcome is that of the latest terminal event, removing duplicates loses no
\* news, and the ship manifest names every commit once.
LaneEventsSound ==
  /\ OutcomeIsTheLatest
  /\ DedupeLosesNoNews
  /\ ManifestNamesCommitsOnce

=============================================================================
