----------------------------- MODULE ReviewDesk -----------------------------
(***************************************************************************)
(* Between an assembled chapter and an exported audiobook: the issue rows, *)
(* the readiness run that opens and clears them, the listener's approval   *)
(* of a chapter render, and the export.                                    *)
(*                                                                         *)
(* A readiness run collects all its verdicts from one reading of the       *)
(* project and then works through them, one database session per issue it  *)
(* looks up, opens, reopens or resolves.  Reviewers, other runs, renders   *)
(* that land and exports act between any two of those sessions.            *)
(***************************************************************************)
EXTENDS AudioQa, TLC

CONSTANTS
  Chapters,     \* number of chapters
  Runner,       \* readiness requests in flight
  Asked,        \* scopes they ask about
  Marks,        \* statuses reviewers give an issue
  Watched,      \* checks followed in this instance; the others are passed over
  Movable,      \* facts of the project that change: fact -> set of values
  Take,         \* what a chapter render can sound like
  MaxRenders,   \* renders of one chapter
  MaxExports,
  UserIssue,    \* <<severity, chapter or 0>> a reviewer may report
  MaxUserIssues

Project == 0    \* the scope of a run over the whole project
Chapter == 1..Chapters
Scope == Chapter \cup {Project}
NoChapter == 0  \* an issue that names neither chapter nor segment
Status == {"open", "resolved", "ignored", "locked"}
Severity == {"warning", "blocking", "error"}
Fact == {"source", "chapters", "segments", "parser", "speakers", "narrator", "cast",
         "fallback", "directions", "stale", "segmentAudio", "asr", "rights", "ffmpeg"}

ASSUME ReviewAssumption ==
  /\ Chapters \in Nat \ {0}
  /\ {MaxRenders, MaxExports, MaxUserIssues} \subseteq Nat
  /\ DOMAIN Movable \subseteq Fact /\ Asked \subseteq Scope /\ Marks \subseteq Status
  /\ UserIssue \subseteq Severity \X Scope

VARIABLES
  world,      \* fact -> value; "ok" is what a readiness check hopes for
  renders,    \* chapter -> its succeeded renders, oldest first
  qaDue,      \* renders committed whose QA has not run
  issues,     \* key -> row
  approvals,  \* chapter -> render last attested, 0 for none
  run,        \* runner -> request being served
  reports,    \* scope -> its latest stored report
  export,     \* the export request being served
  dirs,       \* export id -> what is on disk
  packages    \* export ids with a row

vars == <<world, renders, qaDue, issues, approvals, run, reports, export, dirs,
          packages>>

NoRun == [pc |-> "idle", scope |-> Project, todo |-> <<>>, failing |-> {},
          accepted |-> {}, active |-> {}]
NoReport == [status |-> "none", failing |-> {}, accepted |-> {}]
NoExport == [pc |-> "idle", id |-> 0, plan |-> <<>>]

Init ==
  /\ world = [f \in Fact |-> "ok"]
  /\ renders = [c \in Chapter |-> <<>>]
  /\ qaDue = {}
  /\ issues = <<>>
  /\ approvals = [c \in Chapter |-> 0]
  /\ run = [r \in Runner |-> NoRun]
  /\ reports = [s \in Scope |-> NoReport]
  /\ export = NoExport
  /\ dirs = [x \in 1..MaxExports |-> "none"]
  /\ packages = {}
-----------------------------------------------------------------------------
(* Issue rows *)

Active(c) == Last(renders[c])

\* create_issue for findings <<key, severity>> whose keys no row has yet.
Opened(rows, findings, ch) ==
  [k \in DOMAIN rows \cup {f[1] : f \in findings} |->
     IF k \in DOMAIN rows THEN rows[k]
     ELSE [severity |-> (CHOOSE f \in findings : f[1] = k)[2], status |-> "open", chapter |-> ch]]

OpenBlockers(chs) ==
  {k \in DOMAIN issues : /\ issues[k].severity = "blocking"
                         /\ issues[k].status = "open"
                         /\ issues[k].chapter \in chs \cup {NoChapter}}

ScopeChapters(s) == IF s = Project THEN Chapter ELSE {s}
-----------------------------------------------------------------------------
(* The verdicts of a readiness run, in the order they are reported *)

Passed(id) == [id |-> id, ok |-> TRUE, severity |-> "info", chapter |-> NoChapter]
Failed(id, sev, ch) == [id |-> id, ok |-> FALSE, severity |-> sev, chapter |-> ch]
Verdict(id, good, sev, ch) == IF good THEN Passed(id) ELSE Failed(id, sev, ch)
Check(name) == <<name, NoChapter>>
Is(fact, value) == world[fact] = value

TextDrafts ==
  IF Is("source", "none") THEN <<Failed(Check("text_source"), "blocking", NoChapter)>>
  ELSE <<Passed(Check("text_source")),
         Verdict(Check("text_cleaning"), Is("source", "ok"), "warning", NoChapter)>>

StructureDrafts(s) ==
  << Passed(Check("structure_chapters")),
     Verdict(Check("structure_segments"), Is("segments", "ok"),
             IF Is("segments", "none") THEN "blocking" ELSE "warning", s),
     Verdict(Check("structure_warnings"), Is("parser", "ok"), "warning", NoChapter) >>

\* Without segments there is nothing to attribute or to direct.
SpeakerDrafts(s) ==
  IF Is("segments", "none") THEN <<>>
  ELSE <<Verdict(Check("speaker_attribution"), Is("speakers", "ok"), "warning", s)>>

VoiceDrafts(s) ==
  << Verdict(Check("voice_narrator"), Is("narrator", "ok"), "blocking", NoChapter),
     Verdict(Check("voice_character_coverage"), Is("cast", "ok"), "warning", s) >>
  \o (IF Is("segments", "none") THEN <<>>
      ELSE <<Verdict(Check("voice_narrator_fallback_rows"), Is("fallback", "ok"), "warning", s)>>)

DirectionDrafts(s) ==
  IF Is("segments", "none") THEN <<>>
  ELSE <<Verdict(Check("direction_coverage"), Is("directions", "ok"), "warning", s)>>

ApprovalDraft(c) ==
  Verdict(<<"chapter_approval", c>>, approvals[c] = Len(renders[c]), "warning", c)

RenderDrafts(c) ==
  LET take == Active(c)
      bad == ReadinessAudio(take.file, take.analysis, take.declared, take.lufs)
      draft(name, sev) == Verdict(<<name, c>>, <<name, sev>> \notin bad, sev, c)
  IN << draft("chapter_audio", "blocking"), ApprovalDraft(c) >>
     \o (IF take.file # "ok" THEN <<>>
         ELSE << draft("chapter_audio_hot", "warning"),
                 draft("chapter_audio_dead_air", "warning"),
                 draft("chapter_loudness", "warning") >>)

ChapterDrafts(c) ==
  << Verdict(<<"stale_render", c>>, Is("stale", "ok"), "warning", c) >>
  \o (IF renders[c] = <<>> THEN <<Failed(<<"chapter_audio", c>>, "blocking", c)>>
      ELSE RenderDrafts(c))

SegmentAudioDraft == Verdict(Check("segment_audio_missing"), Is("segmentAudio", "ok"), "warning", NoChapter)

\* Silent where the verifier is not configured and never left a result.
AsrDrafts ==
  IF Is("asr", "unconfigured") THEN <<>>
  ELSE <<Verdict(Check("segment_asr_word_match"), Is("asr", "ok"), "warning", NoChapter)>>

AudioDrafts(s) ==
  FlattenSeq([i \in 1..Cardinality(ScopeChapters(s)) |->
                ChapterDrafts(IF s = Project THEN i ELSE s)])
  \o <<SegmentAudioDraft>> \o AsrDrafts

\* A project run counts every open blocker, a chapter run those in its scope.
ExportDrafts(s) ==
  << Verdict(Check("export_rights"), Is("rights", "ok"), "blocking", NoChapter),
     Verdict(Check("export_mastering"), Is("ffmpeg", "ok"), "blocking", NoChapter),
     Verdict(Check("export_blockers"), OpenBlockers(ScopeChapters(s)) = {}, "blocking", NoChapter) >>

Drafts(s) ==
  TextDrafts \o
  (IF Is("chapters", "none")
   THEN <<Failed(Check("structure_chapters"), "blocking", NoChapter)>>
   ELSE StructureDrafts(s) \o SpeakerDrafts(s) \o VoiceDrafts(s) \o DirectionDrafts(s)
        \o AudioDrafts(s) \o ExportDrafts(s))
-----------------------------------------------------------------------------
(* ReadinessService.run *)

\* The verdicts this instance follows.
Following(drafts) ==
  FlattenSeq([i \in DOMAIN drafts |->
                IF drafts[i].id[1] \in Watched THEN <<drafts[i]>> ELSE <<>>])

Key(r, d) == <<"readiness", run[r].scope, d.id>>
Todo(r) == Head(run[r].todo)
Others == <<world, renders, qaDue, approvals, export, dirs, packages>>

\* The verdict at the head is settled with the given resolution status.
Settled(r, status) ==
  LET d == Todo(r)
      q == run[r]
  IN [q EXCEPT !.pc = "checks",
               !.todo = Tail(@),
               !.failing = IF d.ok THEN @ ELSE @ \cup {d.id},
               !.accepted = IF ~d.ok /\ status \in {"ignored", "locked"} THEN @ \cup {d.id} ELSE @,
               !.active = IF ~d.ok /\ status = "open" THEN @ \cup {d.severity} ELSE @]

Begin(r, s) ==
  /\ run[r].pc = "idle"
  /\ run' = [run EXCEPT ![r] = [NoRun EXCEPT !.pc = "checks", !.scope = s,
                                !.todo = Following(Drafts(s))]]
  /\ UNCHANGED <<issues, reports>> /\ UNCHANGED Others

AtCheck(r) == run[r].pc = "checks" /\ run[r].todo # <<>>

\* Variant of Refresh: a resolved issue counts as settled.
RefreshTrusting(r) ==
  /\ AtCheck(r) /\ ~Todo(r).ok
  /\ LET key == Key(r, Todo(r))
     IN /\ key \in DOMAIN issues
        /\ issues' = [issues EXCEPT ![key].severity = Todo(r).severity]
        /\ run' = [run EXCEPT ![r] = Settled(r, issues[key].status)]
  /\ UNCHANGED reports /\ UNCHANGED Others

\* A failing check whose issue exists: its content is refreshed and its status
\* read; a resolved one is to be reopened.
Refresh(r) ==
  /\ AtCheck(r) /\ ~Todo(r).ok
  /\ LET key == Key(r, Todo(r))
     IN /\ key \in DOMAIN issues
        /\ issues' = [issues EXCEPT ![key].severity = Todo(r).severity]
        /\ run' = [run EXCEPT ![r] = IF issues[key].status = "resolved"
                                     THEN [@ EXCEPT !.pc = "reopen"]
                                     ELSE Settled(r, issues[key].status)]
  /\ UNCHANGED reports /\ UNCHANGED Others

\* Variant of Reopen: the report says open, the row keeps "resolved".
ReopenInReport(r) ==
  /\ run[r].pc = "reopen"
  /\ run' = [run EXCEPT ![r] = Settled(r, "open")]
  /\ UNCHANGED <<issues, reports>> /\ UNCHANGED Others

Reopen(r) ==
  /\ run[r].pc = "reopen"
  /\ issues' = [issues EXCEPT ![Key(r, Todo(r))].status = "open"]
  /\ run' = [run EXCEPT ![r] = Settled(r, "open")]
  /\ UNCHANGED reports /\ UNCHANGED Others

\* No issue was found: the insert comes later in the same session, and the
\* column is unique.
LookInVain(r) ==
  /\ AtCheck(r) /\ ~Todo(r).ok
  /\ Key(r, Todo(r)) \notin DOMAIN issues
  /\ run' = [run EXCEPT ![r].pc = "insert"]
  /\ UNCHANGED <<issues, reports>> /\ UNCHANGED Others

Insert(r) ==
  /\ run[r].pc = "insert"
  /\ LET d == Todo(r)
         key == Key(r, d)
     IN IF key \in DOMAIN issues
        THEN /\ run' = [run EXCEPT ![r] = NoRun]
             /\ UNCHANGED issues
        ELSE /\ issues' = Opened(issues, {<<key, d.severity>>}, d.chapter)
             /\ run' = [run EXCEPT ![r] = Settled(r, "open")]
  /\ UNCHANGED reports /\ UNCHANGED Others

\* A passing check: an issue that is not resolved will be.
LookPassed(r) ==
  /\ AtCheck(r) /\ Todo(r).ok
  /\ LET key == Key(r, Todo(r))
     IN run' = [run EXCEPT ![r] = IF key \in DOMAIN issues /\ issues[key].status # "resolved"
                                  THEN [@ EXCEPT !.pc = "resolve"]
                                  ELSE Settled(r, "none")]
  /\ UNCHANGED <<issues, reports>> /\ UNCHANGED Others

\* Variant of Resolve: a risk somebody accepted is left for them to clear.
ResolveOpenOnly(r) ==
  /\ run[r].pc = "resolve"
  /\ issues' = IF issues[Key(r, Todo(r))].status \in {"ignored", "locked"} THEN issues
               ELSE [issues EXCEPT ![Key(r, Todo(r))].status = "resolved"]
  /\ run' = [run EXCEPT ![r] = Settled(r, "none")]
  /\ UNCHANGED reports /\ UNCHANGED Others

Resolve(r) ==
  /\ run[r].pc = "resolve"
  /\ issues' = [issues EXCEPT ![Key(r, Todo(r))].status = "resolved"]
  /\ run' = [run EXCEPT ![r] = Settled(r, "none")]
  /\ UNCHANGED reports /\ UNCHANGED Others

Store(r) ==
  /\ run[r].pc = "checks" /\ run[r].todo = <<>>
  /\ LET q == run[r]
     IN reports' = [reports EXCEPT ![q.scope] =
          [status |-> CASE "blocking" \in q.active -> "blocked"
                        [] "warning" \in q.active -> "needs_review"
                        [] OTHER -> "ready",
           failing |-> q.failing, accepted |-> q.accepted]]
  /\ run' = [run EXCEPT ![r] = NoRun]
  /\ UNCHANGED issues /\ UNCHANGED Others

RunStep(r) == Refresh(r) \/ Reopen(r) \/ LookInVain(r) \/ Insert(r) \/ LookPassed(r)
              \/ Resolve(r) \/ Store(r)
-----------------------------------------------------------------------------
(* Renders, reviewers and the rest of the program *)

Move(f) ==
  /\ \E v \in Movable[f] : world' = [world EXCEPT ![f] = v]
  /\ UNCHANGED <<renders, qaDue, issues, approvals, run, reports, export, dirs, packages>>

\* The end of assemble: the row is committed, then its QA opens issues.
LandRender(c, take) ==
  /\ Len(renders[c]) < MaxRenders
  /\ renders' = [renders EXCEPT ![c] = Append(@, take)]
  /\ qaDue' = qaDue \cup {<<c, Len(renders[c]) + 1>>}
  /\ UNCHANGED <<world, issues, approvals, run, reports, export, dirs, packages>>

QaChapter(due) ==
  /\ LET take == renders[due[1]][due[2]]
         found == ChapterFindings(take.file, take.analysis, take.declared, take.lufs)
     IN issues' = Opened(issues, {<<<<"chapter", due, f[1]>>, f[2]>> : f \in found}, due[1])
  /\ qaDue' = qaDue \ {due}
  /\ UNCHANGED <<world, renders, approvals, run, reports, export, dirs, packages>>

UserIssues == {k \in DOMAIN issues : k[1] = "user"}

CreateIssue(sev, ch) ==
  /\ Cardinality(UserIssues) < MaxUserIssues
  /\ issues' = Opened(issues, {<<<<"user", Cardinality(UserIssues) + 1>>, sev>>}, ch)
  /\ UNCHANGED <<world, renders, qaDue, approvals, run, reports, export, dirs, packages>>

UpdateIssue(k, status) ==
  /\ issues' = [issues EXCEPT ![k].status = status]
  /\ UNCHANGED <<world, renders, qaDue, approvals, run, reports, export, dirs, packages>>

\* The request names a chapter; the render it attests is the active one.
Approve(c) ==
  /\ renders[c] # <<>>
  /\ approvals' = [approvals EXCEPT ![c] = Len(renders[c])]
  /\ UNCHANGED <<world, renders, qaDue, issues, run, reports, export, dirs, packages>>
-----------------------------------------------------------------------------
(* ExportService.export *)

\* _plan finds no blocker; encoded formats need the media tool.
Exportable(sel, encoded) ==
  /\ sel # {} /\ Is("rights", "ok") /\ (encoded => Is("ffmpeg", "ok"))
  /\ OpenBlockers(sel) = {}
  /\ \A c \in sel : renders[c] # <<>> /\ Active(c).file # "missing"

PlanExport(sel, encoded) ==
  /\ export.pc = "idle" /\ export.id < MaxExports
  /\ Exportable(sel, encoded)
  /\ export' = [pc |-> "planned", id |-> export.id + 1,
                plan |-> [c \in sel |-> Len(renders[c])]]
  /\ UNCHANGED <<world, renders, qaDue, issues, approvals, run, reports, dirs, packages>>

Stage ==
  /\ export.pc = "planned"
  /\ dirs' = [dirs EXCEPT ![export.id] = "partial"]
  /\ export' = [export EXCEPT !.pc = "staging"]
  /\ UNCHANGED <<world, renders, qaDue, issues, approvals, run, reports, packages>>

\* Audio, cover, manifest and archive are written; a tool that fails ends the
\* request and leaves the staging directory behind.
Fill(works) ==
  /\ export.pc = "staging"
  /\ dirs' = [dirs EXCEPT ![export.id] = IF works THEN "staged" ELSE @]
  /\ export' = [export EXCEPT !.pc = IF works THEN "staged" ELSE "idle"]
  /\ UNCHANGED <<world, renders, qaDue, issues, approvals, run, reports, packages>>

\* Variant of Publish: the row is written before the directory is renamed.
PublishLate ==
  /\ export.pc = "staged"
  /\ packages' = packages \cup {export.id}
  /\ export' = [export EXCEPT !.pc = "published"]
  /\ UNCHANGED <<world, renders, qaDue, issues, approvals, run, reports, dirs>>

Publish ==
  /\ export.pc = "staged"
  /\ dirs' = [dirs EXCEPT ![export.id] = "root"]
  /\ export' = [export EXCEPT !.pc = "published"]
  /\ UNCHANGED <<world, renders, qaDue, issues, approvals, run, reports, packages>>

Record ==
  /\ export.pc = "published"
  /\ packages' = packages \cup {export.id}
  /\ export' = [export EXCEPT !.pc = "idle"]
  /\ UNCHANGED <<world, renders, qaDue, issues, approvals, run, reports, dirs>>

\* Requests die with the process; nothing is resumed, and what they wrote
\* stays.
Crash ==
  /\ run' = [r \in Runner |-> NoRun]
  /\ export' = [export EXCEPT !.pc = "idle", !.plan = <<>>]
  /\ qaDue' = {}
  /\ UNCHANGED <<world, renders, issues, approvals, reports, dirs, packages>>
-----------------------------------------------------------------------------
ExportStep == Stage \/ (\E works \in BOOLEAN : Fill(works)) \/ Publish \/ Record

Next ==
  \/ \E r \in Runner, s \in Asked : Begin(r, s)
  \/ \E r \in Runner : RunStep(r)
  \/ \E f \in DOMAIN Movable : Move(f)
  \/ \E c \in Chapter, take \in Take : LandRender(c, take)
  \/ \E due \in qaDue : QaChapter(due)
  \/ \E u \in UserIssue : CreateIssue(u[1], u[2])
  \/ \E k \in DOMAIN issues, status \in Marks : UpdateIssue(k, status)
  \/ \E c \in Chapter : Approve(c)
  \/ \E sel \in SUBSET Chapter, encoded \in BOOLEAN : PlanExport(sel, encoded)
  \/ ExportStep
  \/ Crash

\* A request that was accepted is carried on by its thread.
Fairness ==
  /\ \A r \in Runner : WF_vars(RunStep(r))
  /\ \A due \in Chapter \X (1..MaxRenders) : WF_vars(due \in qaDue /\ QaChapter(due))
  /\ WF_vars(ExportStep)

Spec == Init /\ [][Next]_vars /\ Fairness
-----------------------------------------------------------------------------
(* Properties *)

TypeOK ==
  /\ \A k \in DOMAIN issues : issues[k].severity \in Severity /\ issues[k].status \in Status
  /\ \A c \in Chapter : approvals[c] \in 0..Len(renders[c])
  /\ \A r \in Runner : run[r].pc \in {"idle", "checks", "insert", "reopen", "resolve"}
  /\ \A s \in Scope : reports[s].status \in {"none", "blocked", "needs_review", "ready"}
  /\ \A x \in DOMAIN dirs : dirs[x] \in {"none", "partial", "staged", "root"}

\* A report says "ready" only if each check that failed in its run is a risk
\* somebody had accepted: whatever reviewers mark "resolved" meanwhile, a check
\* that still fails is reopened and counts (ReadinessService.run).
ReadyIsEarned ==
  \A s \in Scope : reports[s].status = "ready" => reports[s].failing \subseteq reports[s].accepted

\* An export row names a directory that is complete and in place, whatever
\* fails or crashes on the way (ExportService.export).
RecordedIsComplete == \A x \in packages : dirs[x] = "root"

\* What the desk says of the book is true: its reports and its packages.
DeskIsTrue ==
  /\ TypeOK
  /\ ReadyIsEarned
  /\ RecordedIsComplete

Followed == Check("voice_narrator")
FollowedKey == <<"readiness", Project, Followed>>
ProjectRunStores == \E r \in Runner : /\ run[r].pc = "checks" /\ run[r].todo = <<>>
                                      /\ run[r].scope = Project
IsResolved(k) == k \notin DOMAIN issues \/ issues[k].status = "resolved"

\* A finding that is fixed for good clears itself, accepted risks included, as
\* long as readiness is run again: whatever an older run, or one that
\* collected before the fix, does to the row.
FixedFindingClears ==
  (<>[]Is("narrator", "ok") /\ []<>ProjectRunStores) => []<>IsResolved(FollowedKey)

\* A finding that is not fixed cannot hide behind a stale "resolved": as long
\* as readiness is run again, its row comes back.
FailingIsFlagged ==
  (<>[]~Is("narrator", "ok") /\ []<>ProjectRunStores) => []<>~IsResolved(FollowedKey)
=============================================================================
