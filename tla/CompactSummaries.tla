-------------------------- MODULE CompactSummaries --------------------------
(***************************************************************************)
(* What compaction writes down of the messages it removes                  *)
(* (runtime/src/compact.rs).  The summary becomes the first message of the *)
(* session; the next compaction reads it back out of that message's text,  *)
(* line by line, and merges it with the summary of what it removes now.    *)
(* The lines the program writes and the lines of the messages themselves   *)
(* are in one text: only their first characters tell them apart.           *)
(*                                                                         *)
(* A line is its kind, its depth of indentation, the message or number it  *)
(* is about and the names it lists.  A message's text is a sequence of     *)
(* line kinds; "timeline" and "note" are lines that read like the heading  *)
(* of the timeline and the closing note of a summary.  The lines           *)
(* "Summary:" and "Conversation summary:", always first and always skipped,*)
(* are left out, and so are texts with <summary> or <analysis> tags.       *)
(***************************************************************************)
EXTENDS Naturals, Sequences, FiniteSets, SequencesExt, FiniteSetsExt

CONSTANTS
    KeepRecent,     \* CompactionConfig::preserve_recent_messages
    MaxTalk,        \* bound: messages of a conversation
    MaxCompactions  \* bound: compactions of a conversation

VARIABLES
    talk,           \* Session::messages
    compaction,     \* Session::compaction: [count, removed]
    talked,         \* messages so far
    gone,           \* ghost: the messages compaction has removed, in order
    lastGone,       \* ghost: those of the last compaction
    toldFiles,      \* ghost: key files some summary has named
    mimics          \* ghost: a removed text had a line like the timeline's heading

talkVars == <<talk, compaction, talked, gone, lastGone, toldFiles, mimics>>

ShortText == 2      \* 160 characters in the code, here lines
LongText == 3       \* 200 characters
MaxRecent == 1    \* 3 in the code

Entry(kind, depth, n, names) == [kind |-> kind, depth |-> depth, n |-> n, names |-> names]

Spoken(role, text, tools, files) ==
    [role |-> role, text |-> text, tools |-> tools, files |-> files,
     calls |-> role = "assistant" /\ tools # {}, n |-> 0, lines |-> <<>>]

Sayings ==
    {Spoken("user", <<"words">>, {}, {"a.rs"}), Spoken("user", <<"words", "timeline">>, {}, {"b.md"}),
     Spoken("user", <<"todo", "blank", "note">>, {}, {}),
     Spoken("assistant", <<"words">>, {}, {}), Spoken("assistant", <<>>, {"bash"}, {"a.rs", "b.md"})}
Answer == Spoken("tool", <<>>, {"bash"}, {})

TalkInit ==
    /\ talk = <<>> /\ compaction = [count |-> 0, removed |-> 0] /\ talked = 0
    /\ gone = <<>> /\ lastGone = <<>> /\ toldFiles = {} /\ mimics = FALSE

-----------------------------------------------------------------------------
(* The summary of messages. *)

truncate_summary(text, max) == SubSeq(text, 1, IF Len(text) < max THEN Len(text) ELSE max)

\* A text behind a bullet: its further lines start at the margin.
Bullet(kind, depth, n, text) ==
    <<Entry(kind, depth, n, {})>>
    \o [i \in 1..(IF text = <<>> THEN 0 ELSE Len(text) - 1) |-> Entry(text[i + 1], 0, n, {})]

Bullets(ms, depth) ==
    FlattenSeq([i \in DOMAIN ms |-> Bullet("item", depth, ms[i].n,
                                           truncate_summary(ms[i].text, ShortText))])

WithText(ms) == SelectSeq(ms, LAMBDA m : m.text # <<>>)

LastFew(ms, limit) == SubSeq(ms, IF Len(ms) > limit THEN Len(ms) - limit + 1 ELSE 1, Len(ms))

collect_recent_role_summaries(ms, role, limit) ==
    LastFew(SelectSeq(WithText(ms), LAMBDA m : m.role = role), limit)

infer_pending_work(ms) ==
    LastFew(SelectSeq(WithText(ms), LAMBDA m : Contains(m.text, "todo")), MaxRecent)

\* Sorted by name and cut off, here after one file (8 in the code).
collect_key_files(ms) ==
    LET all == UNION {ms[i].files : i \in DOMAIN ms}
    IN  IF "a.rs" \in all THEN {"a.rs"} ELSE all

infer_current_work(ms) == LastFew(WithText(ms), 1)

Section(heading, ms) == IF ms = <<>> THEN <<>> ELSE <<Entry(heading, 0, 0, {})>> \o Bullets(ms, 1)

Names(heading, names) == IF names = {} THEN <<>> ELSE <<Entry(heading, 0, 0, names)>>

summarize_messages(ms) ==
    <<Entry("scope", 0, Len(ms), {})>>
    \o Names("tools", UNION {ms[i].tools : i \in DOMAIN ms})
    \o Section("requests", collect_recent_role_summaries(ms, "user", MaxRecent))
    \o Section("pending", infer_pending_work(ms))
    \o Names("files", collect_key_files(ms))
    \o FlattenSeq([i \in DOMAIN infer_current_work(ms) |->
                      LET m == infer_current_work(ms)[i]
                      IN  Bullet("current", 0, m.n, truncate_summary(m.text, LongText))])
    \o <<Entry("timeline", 0, 0, {})>> \o Bullets(ms, 1)

-----------------------------------------------------------------------------
(* Reading a summary back. *)

Blank(line) == line.kind = "blank"

\* format_compact_summary: of blank lines one behind the other one is kept.
format_compact_summary(lines) ==
    FoldLeft(LAMBDA kept, line : IF Blank(line) /\ kept # <<>> /\ Blank(Last(kept)) THEN kept
                                 ELSE Append(kept, line), <<>>, lines)

TimelineHeading(line) == line.kind = "timeline" /\ line.depth = 0

Before(lines, P(_)) ==
    LET stops == {i \in DOMAIN lines : P(lines[i])}
    IN  IF stops = {} THEN lines ELSE SubSeq(lines, 1, Min(stops) - 1)

Behind(lines, P(_)) == SubSeq(lines, Len(Before(lines, P)) + 2, Len(lines))

\* The lines before the timeline, without blank ones.
extract_summary_highlights(lines) ==
    SelectSeq(Before(format_compact_summary(lines), TimelineHeading), LAMBDA line : ~Blank(line))

\* The lines of the timeline up to a blank one; further headings are skipped.
extract_summary_timeline(lines) ==
    SelectSeq(Before(Behind(format_compact_summary(lines), TimelineHeading), Blank),
              LAMBDA line : ~TimelineHeading(line))

Indented(lines) == [i \in DOMAIN lines |-> [lines[i] EXCEPT !.depth = @ + 1]]

Under(heading, lines) ==
    IF lines = <<>> THEN <<>> ELSE <<Entry(heading, 0, 0, {})>> \o Indented(lines)

\* Mutant: what was compacted before is not carried over.
merge_compact_summaries_new(existing, new) ==
    IF existing = <<>> THEN new
    ELSE Under("new", extract_summary_highlights(new))
         \o Under("timeline", extract_summary_timeline(new))

\* The old highlights and the new ones, each a level deeper, and the new
\* timeline: the old one is dropped.
merge_compact_summaries(existing, new) ==
    IF existing = <<>> THEN new
    ELSE Under("prev", extract_summary_highlights(existing[1]))
         \o Under("new", extract_summary_highlights(new))
         \o Under("timeline", extract_summary_timeline(new))

\* The first message of a compacted session: the summary and a closing note.
get_compact_continuation_message(lines) ==
    [Spoken("system", <<"words">>, {}, {}) EXCEPT
        !.lines = format_compact_summary(lines)
                  \o <<Entry("blank", 0, 0, {}), Entry("note", 0, 0, {})>>]

\* The summary in it ends at the FIRST note behind a blank line.
extract_existing_compacted_summary(ms) ==
    IF ms = <<>> \/ ms[1].role # "system" THEN <<>>
    ELSE LET lines == ms[1].lines
             ends == {i \in 1..(Len(lines) - 1) : Blank(lines[i]) /\ lines[i + 1].kind = "note"
                                                  /\ lines[i + 1].depth = 0}
         IN  <<IF ends = {} THEN lines ELSE SubSeq(lines, 1, Min(ends) - 1)>>

-----------------------------------------------------------------------------
(* compact_session.  When the messages behind the summary are a call and   *)
(* its results, nothing is removed and the summary grows all the same.     *)

\* The first message kept: walked back over results to the call they answer.
KeepFrom(prefix) ==
    LET raw == Len(talk) - KeepRecent + 1
        Result(k) == talk[k].role = "tool"
        safe == {k \in (prefix + 1)..raw :
                    /\ \A j \in (k + 1)..raw : Result(j)
                    /\ \/ ~Result(k) \/ k = prefix + 1}
        paired == {k \in (prefix + 1)..raw :
                    /\ \A j \in (k + 1)..raw : Result(j)
                    /\ k < raw => talk[k].calls}
    IN  Max(IF ~Result(raw) THEN {raw} ELSE IF paired \ {raw} # {} THEN paired \ {raw} ELSE safe)

\* The budget of tokens is not modelled: it may be exceeded at any time.
should_compact(prefix) == Len(talk) - prefix > KeepRecent

record_compaction(n) == compaction' = [count |-> compaction.count + 1, removed |-> n]

CompactSession ==
    LET existing == extract_existing_compacted_summary(talk)
        prefix == Len(existing)
    IN  /\ should_compact(prefix) /\ compaction.count < MaxCompactions
        /\ LET from == KeepFrom(prefix)
               dropped == SubSeq(talk, prefix + 1, from - 1)
               summary == merge_compact_summaries(existing, summarize_messages(dropped))
           IN  /\ talk' = <<get_compact_continuation_message(summary)>>
                          \o SubSeq(talk, from, Len(talk))
               /\ record_compaction(Len(dropped))
               /\ gone' = gone \o dropped
               /\ lastGone' = dropped
               /\ mimics' = (mimics \/ \E i \in DOMAIN dropped : Contains(dropped[i].text, "timeline"))
               /\ toldFiles' = toldFiles \cup collect_key_files(dropped)
    /\ UNCHANGED talked

\* A turn of the conversation; a result follows a call or another result.
Talk(m) ==
    /\ talked < MaxTalk
    /\ m.role = "tool" => talk # <<>> /\ (Last(talk).calls \/ Last(talk).role = "tool")
    /\ talked' = talked + 1
    /\ talk' = Append(talk, [m EXCEPT !.n = talked + 1])
    /\ UNCHANGED <<compaction, gone, lastGone, toldFiles, mimics>>

TalkNext == CompactSession \/ \E m \in Sayings \cup {Answer} : Talk(m)

-----------------------------------------------------------------------------
(* Properties. *)

Compacted == compaction.count > 0
SummaryLines == talk[1].lines
Total(kind) == FoldLeft(LAMBDA sum, line : IF line.kind = kind THEN sum + line.n ELSE sum,
                        0, SummaryLines)
NamedUnder(kind) == UNION {SummaryLines[i].names :
                        i \in {k \in DOMAIN SummaryLines : SummaryLines[k].kind = kind}}

\* However often a session is compacted and whatever its messages say, the
\* scopes its summary tells add up to the messages it no longer has, and every
\* tool they used is named: those lines stand before any text of a message.
ScopesAddUp ==
    Compacted => /\ Total("scope") = Len(gone)
                 /\ NamedUnder("tools") = UNION {gone[i].tools : i \in DOMAIN gone}

\* A key file once told is told by every later summary, unless a message had
\* a line like the timeline's heading, which hides the lines behind it.
FilesStayTold == Compacted /\ ~mimics => toldFiles \subseteq NamedUnder("files")

\* The summary has one timeline, of the messages removed last and in order.
TimelineIsTheLatest ==
    Compacted /\ ~mimics =>
        LET line == extract_summary_timeline(extract_existing_compacted_summary(talk)[1])
            items == SelectSeq(line, LAMBDA l : l.kind = "item")
            all == [i \in DOMAIN lastGone |-> lastGone[i].n]
        IN  IsPrefix([i \in DOMAIN items |-> items[i].n], all)

\* The session is the summary and the untouched rest: nothing in between is
\* dropped without being counted, and no result is kept without its call.
RestIsKept ==
    LET rest == IF Compacted THEN Tail(talk) ELSE talk
    IN  /\ Len(gone) + Len(rest) = talked
        /\ \A i \in DOMAIN rest : rest[i].n = Len(gone) + i
        /\ rest # <<>> => rest[1].role # "tool"

\* Compaction summaries: scopes and tools add up over any number of
\* compactions, told files stay told, the timeline is the latest one and the
\* messages that are not summarised are kept in order with their calls.
CompactSummariesSound == ScopesAddUp /\ FilesStayTold /\ TimelineIsTheLatest /\ RestIsKept
=============================================================================
