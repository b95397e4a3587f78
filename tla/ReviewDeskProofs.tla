-------------------------- MODULE ReviewDeskProofs --------------------------
(***************************************************************************)
(* What readiness and export say of the book, for any number of chapters,  *)
(* requests, reviewers, renders and exports, whatever is followed and      *)
(* whatever changes in between.                                            *)
(***************************************************************************)
EXTENDS ReviewDesk, FiniteSetTheorems, WellFoundedInduction, TLAPS

-----------------------------------------------------------------------------
(* The inductive invariant *)

\* What a verdict that fails can weigh.
Weight == {"blocking", "warning"}
CheckName ==
  {"text_source", "text_cleaning", "structure_chapters",
   "structure_segments", "structure_warnings", "speaker_attribution",
   "voice_narrator", "voice_character_coverage",
   "voice_narrator_fallback_rows", "direction_coverage",
   "chapter_approval", "chapter_audio", "chapter_audio_hot",
   "chapter_audio_dead_air", "chapter_loudness", "stale_render",
   "segment_audio_missing", "segment_asr_word_match", "export_rights",
   "export_mastering", "export_blockers"}
CheckId == CheckName \X Scope

\* A verdict that fails blocks or warns: there is no third kind.
Draft ==
  {d \in [id : CheckId, ok : BOOLEAN, severity : Weight \cup {"info"}, chapter : Scope] :
     ~d.ok => d.severity \in Weight}

IssueRow == [severity : Severity, status : Status, chapter : Scope]
Request == [pc : {"idle", "checks", "insert", "reopen", "resolve"}, scope : Scope,
            todo : Seq(Draft), failing : SUBSET CheckId, accepted : SUBSET CheckId,
            active : SUBSET Weight]
Report == [status : {"none", "blocked", "needs_review", "ready"},
           failing : SUBSET CheckId, accepted : SUBSET CheckId]
Phase == {"idle", "planned", "staging", "staged", "published"}

Types ==
  /\ renders \in [Chapter -> Seq(Take)]
  /\ qaDue \subseteq Chapter \X Nat
  /\ issues \in [DOMAIN issues -> IssueRow]
  /\ approvals \in [Chapter -> Nat]
  /\ \A c \in Chapter : approvals[c] <= Len(renders[c])
  /\ run \in [Runner -> Request]
  /\ reports \in [Scope -> Report]
  /\ export = [pc |-> export.pc, id |-> export.id, plan |-> export.plan]
  /\ export.pc \in Phase /\ export.id \in 0..MaxExports
  /\ dirs \in [1..MaxExports -> {"none", "partial", "staged", "root"}]

\* A request between two sessions still has the verdict in hand that it left
\* the first one for.
InHand(q) ==
  /\ q.pc \in {"insert", "reopen"} => q.todo # <<>> /\ ~Head(q.todo).ok
  /\ q.pc = "resolve" => q.todo # <<>> /\ Head(q.todo).ok

\* A check that failed and was not accepted is counted as active.
Counted(q) == q.active = {} => q.failing \subseteq q.accepted

\* Packages are behind the export being served, and the directory it works on
\* is its own.
ExportIsOwn ==
  /\ packages \subseteq 1..export.id
  /\ export.pc # "idle" => export.id > 0
  /\ export.pc \in {"planned", "staging", "staged"} => export.id \notin packages
  /\ export.pc = "published" => dirs[export.id] = "root"

IInv ==
  /\ Types
  /\ \A r \in Runner : InHand(run[r]) /\ Counted(run[r])
  /\ ReadyIsEarned
  /\ ExportIsOwn
  /\ RecordedIsComplete
-----------------------------------------------------------------------------
(* The sequences the desk puts its verdicts in *)

LEMMA LeastExists ==
  ASSUME NEW S \in SUBSET Nat, S # {}
  PROVE  \E m \in S : \A k \in S : m <= k
<1>1. PICK m \in S : \A k \in S : <<k, m>> \notin OpToRel(<, Nat)
  BY NatLessThanWellFounded, WFMin
<1>2. \A k \in S : m <= k
  <2> SUFFICES ASSUME NEW k \in S PROVE ~(k < m)
    OBVIOUS
  <2>1. <<k, m>> \notin {ss \in Nat \X Nat : ss[1] < ss[2]}
    BY <1>1, Zenon DEF OpToRel
  <2> QED
    BY <2>1
<1> QED
  BY <1>2

\* What FlattenSeq's recursion asks of the first n prefixes of q.
Flattens(f, q, n) ==
  f = [i \in 1..n |-> IF i = 1 THEN q[i] ELSE f[i - 1] \o q[i]]

LEMMA FlatteningExists ==
  ASSUME NEW S, NEW N \in Nat, NEW q \in [1..N -> Seq(S)]
  PROVE  \E f : Flattens(f, q, N)
<1> SUFFICES ASSUME ~\E f : Flattens(f, q, N) PROVE FALSE
  OBVIOUS
<1> PICK bad \in SUBSET Nat : \A n \in Nat : n \in bad <=> n <= N /\ ~\E f : Flattens(f, q, n)
  <2> WITNESS {n \in Nat : n <= N /\ ~\E f : Flattens(f, q, n)} \in SUBSET Nat
  <2> QED
    OBVIOUS
<1>0. bad # {}
  OBVIOUS
<1>1. PICK m \in bad : \A k \in bad : m <= k
  BY <1>0, LeastExists
<1>2. CASE m = 0
  <2>1. Flattens([i \in 1..0 |-> 0], q, 0)
    BY DEF Flattens
  <2> QED
    BY <1>1, <1>2, <2>1
<1>3. CASE m > 0
  <2>1. m \in 1..N /\ m - 1 \in Nat /\ m - 1 \notin bad
    BY <1>1, <1>3
  <2>2. PICK f : Flattens(f, q, m - 1)
    BY <2>1
  <2>3. PICK g : g = [i \in 1..m |-> IF i = m THEN (IF m = 1 THEN q[m] ELSE f[m - 1] \o q[m])
                                     ELSE f[i]]
    OBVIOUS
  <2>4. ASSUME NEW i \in 1..m
        PROVE  g[i] = IF i = 1 THEN q[i] ELSE g[i - 1] \o q[i]
    <3>1. CASE i = m
      BY <2>1, <2>3, <3>1, <1>3
    <3>2. CASE i < m
      <4>0. i \in 1..(m - 1)
        BY <2>1, <3>2
      <4>1. f[i] = IF i = 1 THEN q[i] ELSE f[i - 1] \o q[i]
        BY <2>2, <4>0 DEF Flattens
      <4>2. g[i] = f[i] /\ (i > 1 => g[i - 1] = f[i - 1])
        BY <2>1, <2>3, <3>2
      <4> QED
        BY <4>1, <4>2
    <3> QED
      BY <3>1, <3>2, <2>1
  <2>5. Flattens(g, q, m)
    <3> PICK h : h = [i \in 1..m |-> IF i = 1 THEN q[i] ELSE g[i - 1] \o q[i]]
      OBVIOUS
    <3>1. g = h
      BY <2>3, <2>4
    <3> QED
      BY <3>1 DEF Flattens
  <2> QED
    BY <1>1, <2>5
<1> QED
  BY <1>1, <1>2, <1>3

\* Sequences put end to end hold what they held.
LEMMA FlattenTyped ==
  ASSUME NEW S, NEW N \in Nat, NEW q \in [1..N -> Seq(S)]
  PROVE  FlattenSeq(q) \in Seq(S)
<1>1. q \in Seq(Seq(S)) /\ Len(q) = N
  OBVIOUS
<1>2. CASE N = 0
  BY <1>1, <1>2 DEF FlattenSeq
<1>3. CASE N > 0
  <2>1. PICK f : f = CHOOSE g : Flattens(g, q, N)
    OBVIOUS
  <2>2. Flattens(f, q, N)
    BY <2>1, FlatteningExists
  <2>3. FlattenSeq(q) = f[N]
    BY <1>1, <1>3, <2>1 DEF FlattenSeq, Flattens
  <2> SUFFICES ASSUME f[N] \notin Seq(S) PROVE FALSE
    BY <2>3
  <2> PICK bad \in SUBSET Nat : \A i \in Nat : i \in bad <=> i \in 1..N /\ f[i] \notin Seq(S)
    <3> WITNESS {i \in Nat : i \in 1..N /\ f[i] \notin Seq(S)} \in SUBSET Nat
    <3> QED
      OBVIOUS
  <2>4. bad # {}
    BY <1>3
  <2>5. PICK m \in bad : \A k \in bad : m <= k
    BY <2>4, LeastExists
  <2>6. m = 1 \/ (m - 1 \in 1..N /\ f[m - 1] \in Seq(S))
    BY <2>5
  <2>7. f[m] = IF m = 1 THEN q[m] ELSE f[m - 1] \o q[m]
    BY <2>2 DEF Flattens
  <2>8. m \in 1..N /\ q[m] \in Seq(S) /\ f[m] \notin Seq(S)
    BY <2>5
  <2>9. CASE m = 1
    BY <2>7, <2>8, <2>9
  <2>10. CASE m # 1
    <3>1. f[m] = f[m - 1] \o q[m] /\ f[m - 1] \in Seq(S)
      BY <2>6, <2>7, <2>10
    <3> QED
      BY <3>1, <2>8
  <2> QED
    BY <2>9, <2>10
<1> QED
  BY <1>2, <1>3
-----------------------------------------------------------------------------
(* Verdicts *)

LEMMA CheckTyped ==
  ASSUME NEW name \in CheckName
  PROVE  Check(name) \in CheckId /\ \A c \in Chapter : <<name, c>> \in CheckId
BY DEF Check, CheckId, Scope, Project, NoChapter

LEMMA VerdictTyped ==
  ASSUME NEW id \in CheckId, NEW sev \in Weight, NEW ch \in Scope, NEW good \in BOOLEAN
  PROVE  /\ Passed(id) \in Draft
         /\ Failed(id, sev, ch) \in Draft
         /\ Verdict(id, good, sev, ch) \in Draft
<1>1. Passed(id) \in Draft
  BY DEF Passed, Draft, NoChapter, Scope, Project
<1>2. Failed(id, sev, ch) \in Draft
  BY DEF Failed, Draft
<1> QED
  BY <1>1, <1>2 DEF Verdict

\* The scope a verdict may name when its issue belongs to no chapter.
LEMMA NoChapterIsScope == NoChapter \in Scope /\ Project \in Scope /\ Chapter \subseteq Scope
BY DEF NoChapter, Scope, Project

LEMMA CheckVerdictTyped ==
  ASSUME NEW name \in CheckName, NEW sev \in Weight, NEW ch \in Scope, NEW good \in BOOLEAN
  PROVE  /\ Passed(Check(name)) \in Draft
         /\ Failed(Check(name), sev, ch) \in Draft
         /\ Verdict(Check(name), good, sev, ch) \in Draft
BY CheckTyped, VerdictTyped

LEMMA FewTyped ==
  ASSUME NEW a \in Draft, NEW b \in Draft, NEW c \in Draft
  PROVE  /\ <<>> \in Seq(Draft) /\ <<a>> \in Seq(Draft)
         /\ <<a, b>> \in Seq(Draft) /\ <<a, b, c>> \in Seq(Draft)
OBVIOUS

LEMMA ProjectDrafts ==
  ASSUME NEW s \in Scope
  PROVE  /\ TextDrafts \in Seq(Draft)
         /\ StructureDrafts(s) \in Seq(Draft)
         /\ SpeakerDrafts(s) \in Seq(Draft)
         /\ VoiceDrafts(s) \in Seq(Draft)
         /\ DirectionDrafts(s) \in Seq(Draft)
         /\ AsrDrafts \in Seq(Draft)
         /\ SegmentAudioDraft \in Draft
         /\ ExportDrafts(s) \in Seq(Draft)
<1> "blocking" \in Weight /\ "warning" \in Weight
  BY DEF Weight
<1> NoChapter \in Scope
  BY NoChapterIsScope
<1>1. TextDrafts \in Seq(Draft)
  <2>1. Failed(Check("text_source"), "blocking", NoChapter) \in Draft
    BY CheckVerdictTyped DEF CheckName
  <2>2. Passed(Check("text_source")) \in Draft
    BY CheckVerdictTyped DEF CheckName
  <2>3. Verdict(Check("text_cleaning"), Is("source", "ok"), "warning", NoChapter) \in Draft
    BY CheckVerdictTyped DEF CheckName, Is
  <2> QED
    BY <2>1, <2>2, <2>3, FewTyped DEF TextDrafts
<1>2. StructureDrafts(s) \in Seq(Draft)
  <2>1. Passed(Check("structure_chapters")) \in Draft
    BY CheckVerdictTyped DEF CheckName
  <2>2. PICK sev \in Weight : sev = IF Is("segments", "none") THEN "blocking" ELSE "warning"
    OBVIOUS
  <2>3. Verdict(Check("structure_segments"), Is("segments", "ok"), sev, s) \in Draft
    BY CheckVerdictTyped DEF CheckName, Is
  <2>4. Verdict(Check("structure_warnings"), Is("parser", "ok"), "warning", NoChapter) \in Draft
    BY CheckVerdictTyped DEF CheckName, Is
  <2> QED
    BY <2>1, <2>2, <2>3, <2>4, FewTyped DEF StructureDrafts
<1>3. SpeakerDrafts(s) \in Seq(Draft)
  <2>1. Verdict(Check("speaker_attribution"), Is("speakers", "ok"), "warning", s) \in Draft
    BY CheckVerdictTyped DEF CheckName, Is
  <2> QED
    BY <2>1, FewTyped DEF SpeakerDrafts
<1>4. VoiceDrafts(s) \in Seq(Draft)
  <2>1. Verdict(Check("voice_narrator"), Is("narrator", "ok"), "blocking", NoChapter) \in Draft
    BY CheckVerdictTyped DEF CheckName, Is
  <2>2. Verdict(Check("voice_character_coverage"), Is("cast", "ok"), "warning", s) \in Draft
    BY CheckVerdictTyped DEF CheckName, Is
  <2>3. Verdict(Check("voice_narrator_fallback_rows"), Is("fallback", "ok"), "warning", s) \in Draft
    BY CheckVerdictTyped DEF CheckName, Is
  <2> QED
    BY <2>1, <2>2, <2>3, FewTyped DEF VoiceDrafts
<1>5. DirectionDrafts(s) \in Seq(Draft)
  <2>1. Verdict(Check("direction_coverage"), Is("directions", "ok"), "warning", s) \in Draft
    BY CheckVerdictTyped DEF CheckName, Is
  <2> QED
    BY <2>1, FewTyped DEF DirectionDrafts
<1>6. AsrDrafts \in Seq(Draft)
  <2>1. Verdict(Check("segment_asr_word_match"), Is("asr", "ok"), "warning", NoChapter) \in Draft
    BY CheckVerdictTyped DEF CheckName, Is
  <2> QED
    BY <2>1, FewTyped DEF AsrDrafts
<1>7. SegmentAudioDraft \in Draft
  BY CheckVerdictTyped DEF CheckName, SegmentAudioDraft, Is
<1>8. ExportDrafts(s) \in Seq(Draft)
  <2>1. Verdict(Check("export_rights"), Is("rights", "ok"), "blocking", NoChapter) \in Draft
    BY CheckVerdictTyped DEF CheckName, Is
  <2>2. Verdict(Check("export_mastering"), Is("ffmpeg", "ok"), "blocking", NoChapter) \in Draft
    BY CheckVerdictTyped DEF CheckName, Is
  <2>3. Verdict(Check("export_blockers"), OpenBlockers(ScopeChapters(s)) = {}, "blocking",
                NoChapter) \in Draft
    BY CheckVerdictTyped DEF CheckName
  <2> QED
    BY <2>1, <2>2, <2>3, FewTyped DEF ExportDrafts
<1> QED
  BY <1>1, <1>2, <1>3, <1>4, <1>5, <1>6, <1>7, <1>8

LEMMA ChapterDraftsTyped ==
  ASSUME NEW c \in Chapter
  PROVE  ChapterDrafts(c) \in Seq(Draft)
<1> "blocking" \in Weight /\ "warning" \in Weight /\ c \in Scope
  BY NoChapterIsScope DEF Weight
<1>1. ApprovalDraft(c) \in Draft
  BY CheckTyped, VerdictTyped DEF CheckName, ApprovalDraft
<1>2. RenderDrafts(c) \in Seq(Draft)
  <2> DEFINE take == Active(c)
             bad == ReadinessAudio(take.file, take.analysis, take.declared, take.lufs)
             draft(name, sev) == Verdict(<<name, c>>, <<name, sev>> \notin bad, sev, c)
  <2> HIDE DEF bad
  <2>1. /\ draft("chapter_audio", "blocking") \in Draft
        /\ draft("chapter_audio_hot", "warning") \in Draft
        /\ draft("chapter_audio_dead_air", "warning") \in Draft
        /\ draft("chapter_loudness", "warning") \in Draft
    BY CheckTyped, VerdictTyped DEF CheckName
  <2>2. RenderDrafts(c) = << draft("chapter_audio", "blocking"), ApprovalDraft(c) >>
          \o (IF take.file # "ok" THEN <<>>
              ELSE << draft("chapter_audio_hot", "warning"),
                      draft("chapter_audio_dead_air", "warning"),
                      draft("chapter_loudness", "warning") >>)
    BY DEF RenderDrafts, bad
  <2> HIDE DEF draft, take
  <2> QED
    BY <1>1, <2>1, <2>2
<1>3. Verdict(<<"stale_render", c>>, Is("stale", "ok"), "warning", c) \in Draft
  BY CheckTyped, VerdictTyped DEF CheckName, Is
<1>4. Failed(<<"chapter_audio", c>>, "blocking", c) \in Draft
  BY CheckTyped, VerdictTyped DEF CheckName
<1> QED
  BY <1>2, <1>3, <1>4 DEF ChapterDrafts

LEMMA ScopeSize ==
  ASSUME NEW s \in Scope
  PROVE  /\ Cardinality(ScopeChapters(s)) \in Nat
         /\ \A i \in 1..Cardinality(ScopeChapters(s)) : (IF s = Project THEN i ELSE s) \in Chapter
<1> Chapters \in Nat
  BY ReviewAssumption
<1>1. CASE s = Project
  <2>1. Cardinality(1..Chapters) = Chapters
    BY FS_Interval
  <2> QED
    BY <1>1, <2>1 DEF ScopeChapters, Chapter
<1>2. CASE s # Project
  <2>1. Cardinality({s}) = 1
    BY FS_Singleton
  <2> QED
    BY <1>2, <2>1 DEF ScopeChapters, Scope
<1> QED
  BY <1>1, <1>2

\* Whatever a readiness run collects is a sequence of verdicts.
LEMMA DraftsTyped ==
  ASSUME NEW s \in Scope
  PROVE  Drafts(s) \in Seq(Draft)
<1> "blocking" \in Weight /\ "warning" \in Weight
  BY DEF Weight
<1>1. AudioDrafts(s) \in Seq(Draft)
  <2>1. PICK q : q = [i \in 1..Cardinality(ScopeChapters(s)) |->
                        ChapterDrafts(IF s = Project THEN i ELSE s)]
    OBVIOUS
  <2>2. q \in [1..Cardinality(ScopeChapters(s)) -> Seq(Draft)]
    BY <2>1, ScopeSize, ChapterDraftsTyped
  <2>3. FlattenSeq(q) \in Seq(Draft)
    BY <2>2, ScopeSize, FlattenTyped
  <2>4. AudioDrafts(s) = FlattenSeq(q) \o <<SegmentAudioDraft>> \o AsrDrafts
    BY <2>1 DEF AudioDrafts
  <2> QED
    BY <2>3, <2>4, ProjectDrafts
<1>2. Failed(Check("structure_chapters"), "blocking", NoChapter) \in Draft
  BY CheckTyped, VerdictTyped, NoChapterIsScope DEF CheckName
<1> QED
  BY <1>1, <1>2, ProjectDrafts DEF Drafts

LEMMA FollowingTyped ==
  ASSUME NEW drafts \in Seq(Draft)
  PROVE  Following(drafts) \in Seq(Draft)
<1>1. PICK q : q = [i \in DOMAIN drafts |->
                      IF drafts[i].id[1] \in Watched THEN <<drafts[i]>> ELSE <<>>]
  OBVIOUS
<1>2. q \in [1..Len(drafts) -> Seq(Draft)] /\ Len(drafts) \in Nat
  BY <1>1
<1>3. Following(drafts) = FlattenSeq(q)
  BY <1>1 DEF Following
<1> QED
  BY <1>2, <1>3, FlattenTyped
-----------------------------------------------------------------------------
(* Issue rows *)

LEMMA OpenedTyped ==
  ASSUME issues \in [DOMAIN issues -> IssueRow], NEW findings, NEW ch \in Scope,
         \A f \in findings : f[2] \in Severity
  PROVE  Opened(issues, findings, ch) \in [DOMAIN Opened(issues, findings, ch) -> IssueRow]
<1>1. PICK rows : rows = Opened(issues, findings, ch)
  OBVIOUS
<1>2. rows = [k \in DOMAIN rows |-> rows[k]]
  BY <1>1 DEF Opened
<1>3. ASSUME NEW k \in DOMAIN rows
      PROVE  rows[k] \in IssueRow
  <2>1. CASE k \in DOMAIN issues
    BY <1>1, <2>1 DEF Opened
  <2>2. CASE k \notin DOMAIN issues
    <3>1. PICK g : g = CHOOSE f \in findings : f[1] = k
      OBVIOUS
    <3>2. g \in findings
      BY <1>1, <2>2, <3>1 DEF Opened
    <3>3. rows[k] = [severity |-> g[2], status |-> "open", chapter |-> ch]
      BY <1>1, <2>2, <3>1 DEF Opened
    <3> QED
      BY <3>2, <3>3 DEF IssueRow, Status
  <2> QED
    BY <2>1, <2>2
<1> QED
  BY <1>1, <1>2, <1>3

LEMMA MarkedTyped ==
  ASSUME issues \in [DOMAIN issues -> IssueRow], NEW k, NEW status \in Status, NEW sev \in Severity
  PROVE  /\ [issues EXCEPT ![k].status = status]
              \in [DOMAIN [issues EXCEPT ![k].status = status] -> IssueRow]
         /\ [issues EXCEPT ![k].severity = sev]
              \in [DOMAIN [issues EXCEPT ![k].severity = sev] -> IssueRow]
<1>1. ASSUME NEW row \in IssueRow
      PROVE  [row EXCEPT !.status = status] \in IssueRow /\ [row EXCEPT !.severity = sev] \in IssueRow
  BY DEF IssueRow
<1> QED
  BY <1>1

\* QA reports what blocks and what is worth a look.
LEMMA FindingsTyped ==
  ASSUME NEW file, NEW a, NEW declared, NEW lufs
  PROVE  \A f \in ChapterFindings(file, a, declared, lufs) : f[2] \in Weight
<1>1. \A f \in AudioRules(file, a, declared, 0) : f[2] \in Weight
  BY DEF AudioRules, Weight
<1> QED
  BY <1>1 DEF ChapterFindings, Weight
-----------------------------------------------------------------------------
(* Requests *)

RunsAreFine ==
  /\ run \in [Runner -> Request]
  /\ \A r \in Runner : InHand(run[r]) /\ Counted(run[r])

LEMMA NoRunTyped == NoRun \in Request /\ InHand(NoRun) /\ Counted(NoRun)
BY NoChapterIsScope DEF NoRun, Request, InHand, Counted

LEMMA RunSet ==
  ASSUME RunsAreFine, NEW r \in Runner, NEW q \in Request, InHand(q), Counted(q),
         run' = [run EXCEPT ![r] = q]
  PROVE  RunsAreFine'
BY DEF RunsAreFine

\* A request that moves on with the verdict in hand.
LEMMA MovesOn ==
  ASSUME RunsAreFine, NEW r \in Runner, run[r].todo # <<>>, NEW pc \in {"insert", "reopen", "resolve"},
         pc = "resolve" <=> Todo(r).ok
  PROVE  LET q == [run[r] EXCEPT !.pc = pc] IN q \in Request /\ InHand(q) /\ Counted(q)
<1>1. run[r] \in Request /\ Counted(run[r]) /\ Todo(r) \in Draft
  BY DEF RunsAreFine, Todo, Request
<1>2. PICK q : q = [run[r] EXCEPT !.pc = pc]
  OBVIOUS
<1>3. q = [pc |-> pc, scope |-> run[r].scope, todo |-> run[r].todo, failing |-> run[r].failing,
           accepted |-> run[r].accepted, active |-> run[r].active]
  BY <1>1, <1>2 DEF Request
<1>4. q \in Request /\ q.todo = run[r].todo /\ q.pc = pc
  BY <1>1, <1>3 DEF Request
<1>5. InHand(q)
  BY <1>1, <1>4 DEF InHand, Todo, Draft
<1>6. Counted(q)
  BY <1>1, <1>3 DEF Counted
<1> QED
  BY <1>2, <1>4, <1>5, <1>6

\* A verdict that is settled is counted, and the request goes on to the next.
LEMMA SettledTyped ==
  ASSUME RunsAreFine, NEW r \in Runner, run[r].todo # <<>>, NEW status,
         ~Todo(r).ok => status \in {"open", "ignored", "locked"}
  PROVE  Settled(r, status) \in Request /\ InHand(Settled(r, status)) /\ Counted(Settled(r, status))
<1>1. PICK q : q = run[r]
  OBVIOUS
<1>2. PICK d : d = Todo(r)
  OBVIOUS
<1>3. q \in Request /\ Counted(q) /\ d \in Draft /\ Tail(q.todo) \in Seq(Draft)
  BY <1>1, <1>2 DEF RunsAreFine, Todo, Request
<1>4. d.id \in CheckId /\ (~d.ok => d.severity \in Weight) /\ d.ok \in BOOLEAN
  BY <1>3 DEF Draft
<1>5. PICK z : z = Settled(r, status)
  OBVIOUS
<1>6. z = [pc |-> "checks", scope |-> q.scope, todo |-> Tail(q.todo),
           failing |-> IF d.ok THEN q.failing ELSE q.failing \cup {d.id},
           accepted |-> IF ~d.ok /\ status \in {"ignored", "locked"} THEN q.accepted \cup {d.id}
                        ELSE q.accepted,
           active |-> IF ~d.ok /\ status = "open" THEN q.active \cup {d.severity} ELSE q.active]
  BY <1>1, <1>2, <1>3, <1>5 DEF Settled, Request
<1>7. z \in Request
  BY <1>3, <1>4, <1>6 DEF Request
<1>8. InHand(z)
  BY <1>6 DEF InHand
<1>9. Counted(z)
  <2>1. CASE d.ok
    BY <1>3, <1>6, <2>1 DEF Counted
  <2>2. CASE ~d.ok /\ status = "open"
    BY <1>6, <2>2 DEF Counted
  <2>3. CASE ~d.ok /\ status \in {"ignored", "locked"}
    BY <1>3, <1>6, <2>3 DEF Counted, Request
  <2> QED
    BY <1>2, <1>4, <2>1, <2>2, <2>3
<1> QED
  BY <1>5, <1>7, <1>8, <1>9
-----------------------------------------------------------------------------
(* Every step keeps the invariant *)

LEMMA InitIInv == Init => IInv
<1> SUFFICES ASSUME Init PROVE IInv
  OBVIOUS
<1>1. renders \in [Chapter -> Seq(Take)] /\ qaDue \subseteq Chapter \X Nat
  BY DEF Init
<1>2. issues \in [DOMAIN issues -> IssueRow]
  <2>1. issues = <<>>
    BY DEF Init
  <2> QED
    BY <2>1
<1>3. approvals \in [Chapter -> Nat] /\ \A c \in Chapter : approvals[c] <= Len(renders[c])
  BY DEF Init
<1>4. RunsAreFine
  BY NoRunTyped DEF Init, RunsAreFine
<1>5. reports \in [Scope -> Report] /\ ReadyIsEarned
  BY DEF Init, NoReport, Report, ReadyIsEarned
<1>6. export = [pc |-> export.pc, id |-> export.id, plan |-> export.plan]
      /\ export.pc = "idle" /\ export.id = 0 /\ packages = {}
  BY DEF Init, NoExport
<1>7. dirs \in [1..MaxExports -> {"none", "partial", "staged", "root"}]
  BY DEF Init
<1>8. MaxExports \in Nat
  BY ReviewAssumption
<1>9. ExportIsOwn /\ RecordedIsComplete /\ export.pc \in Phase /\ export.id \in 0..MaxExports
  BY <1>6, <1>8 DEF ExportIsOwn, RecordedIsComplete, Phase
<1> QED
  BY <1>1, <1>2, <1>3, <1>4, <1>5, <1>6, <1>7, <1>9 DEF IInv, Types, RunsAreFine

\* A step that leaves renders, approvals, export, directories and packages
\* alone has issues, requests and reports to answer for.
LEMMA DeskKeeps ==
  ASSUME IInv, RunsAreFine', UNCHANGED Others,
         issues' \in [DOMAIN issues' -> IssueRow],
         UNCHANGED reports \/ (reports' \in [Scope -> Report] /\ ReadyIsEarned')
  PROVE  IInv'
<1>1. Types'
  BY DEF IInv, Types, RunsAreFine, Others
<1>2. ReadyIsEarned'
  BY DEF IInv, ReadyIsEarned
<1>3. ExportIsOwn' /\ RecordedIsComplete'
  BY DEF IInv, ExportIsOwn, RecordedIsComplete, Others
<1> QED
  BY <1>1, <1>2, <1>3 DEF IInv, RunsAreFine

LEMMA BeginKeeps ==
  ASSUME IInv, NEW r \in Runner, NEW s \in Asked, Begin(r, s)
  PROVE  IInv'
<1>1. s \in Scope
  BY ReviewAssumption
<1>2. PICK todo \in Seq(Draft) : todo = Following(Drafts(s))
  BY <1>1, DraftsTyped, FollowingTyped
<1>3. PICK q : q = [NoRun EXCEPT !.pc = "checks", !.scope = s, !.todo = todo]
  OBVIOUS
<1>4. q = [pc |-> "checks", scope |-> s, todo |-> todo, failing |-> {}, accepted |-> {}, active |-> {}]
  BY <1>3 DEF NoRun
<1>5. q \in Request /\ InHand(q) /\ Counted(q)
  BY <1>1, <1>4 DEF Request, InHand, Counted
<1>6. run' = [run EXCEPT ![r] = q]
  BY <1>2, <1>3 DEF Begin
<1>7. RunsAreFine'
  BY <1>5, <1>6, RunSet DEF IInv, Types, RunsAreFine
<1> QED
  BY <1>7, DeskKeeps DEF Begin, IInv, Types

LEMMA RefreshKeeps ==
  ASSUME IInv, NEW r \in Runner, Refresh(r)
  PROVE  IInv'
<1>1. RunsAreFine /\ run[r].todo # <<>> /\ ~Todo(r).ok
  BY DEF IInv, Types, RunsAreFine, Refresh, AtCheck
<1>2. Todo(r) \in Draft
  BY <1>1 DEF RunsAreFine, Request, Todo
<1>3. PICK key : key = Key(r, Todo(r))
  OBVIOUS
<1>4. issues \in [DOMAIN issues -> IssueRow] /\ key \in DOMAIN issues /\ issues[key].status \in Status
  BY <1>3 DEF IInv, Types, Refresh, IssueRow
<1>5. issues' \in [DOMAIN issues' -> IssueRow]
  <2>1. Todo(r).severity \in Severity
    BY <1>1, <1>2 DEF Draft, Weight, Severity
  <2> QED
    BY <1>3, <1>4, <2>1, MarkedTyped DEF Refresh, Status
<1>6. RunsAreFine'
  <2>1. CASE issues[key].status = "resolved"
    <3>1. run' = [run EXCEPT ![r] = [run[r] EXCEPT !.pc = "reopen"]]
      BY <1>3, <2>1 DEF Refresh
    <3> QED
      BY <1>1, <3>1, MovesOn, RunSet
  <2>2. CASE issues[key].status # "resolved"
    <3>1. run' = [run EXCEPT ![r] = Settled(r, issues[key].status)]
      BY <1>3, <2>2 DEF Refresh
    <3>2. issues[key].status \in {"open", "ignored", "locked"}
      BY <1>4, <2>2 DEF Status
    <3> QED
      BY <1>1, <3>1, <3>2, SettledTyped, RunSet
  <2> QED
    BY <2>1, <2>2
<1> QED
  BY <1>5, <1>6, DeskKeeps DEF Refresh

LEMMA ReopenKeeps ==
  ASSUME IInv, NEW r \in Runner, Reopen(r)
  PROVE  IInv'
<1>1. RunsAreFine /\ run[r].todo # <<>> /\ ~Todo(r).ok
  BY DEF IInv, Types, RunsAreFine, Reopen, InHand, Todo
<1>2. RunsAreFine'
  BY <1>1, SettledTyped, RunSet DEF Reopen
<1>3. issues' \in [DOMAIN issues' -> IssueRow]
  BY MarkedTyped DEF IInv, Types, Reopen, Status, Severity
<1> QED
  BY <1>2, <1>3, DeskKeeps DEF Reopen

LEMMA LookInVainKeeps ==
  ASSUME IInv, NEW r \in Runner, LookInVain(r)
  PROVE  IInv'
<1>1. RunsAreFine /\ run[r].todo # <<>> /\ ~Todo(r).ok
  BY DEF IInv, Types, RunsAreFine, LookInVain, AtCheck
<1>2. run' = [run EXCEPT ![r] = [run[r] EXCEPT !.pc = "insert"]]
  BY DEF LookInVain
<1>3. RunsAreFine'
  BY <1>1, <1>2, MovesOn, RunSet
<1> QED
  BY <1>3, DeskKeeps DEF LookInVain, IInv, Types

LEMMA InsertKeeps ==
  ASSUME IInv, NEW r \in Runner, Insert(r)
  PROVE  IInv'
<1>1. RunsAreFine /\ run[r].todo # <<>> /\ ~Todo(r).ok
  BY DEF IInv, Types, RunsAreFine, Insert, InHand, Todo
<1>2. PICK d \in Draft : d = Todo(r)
  BY <1>1 DEF RunsAreFine, Request, Todo
<1>3. PICK key : key = Key(r, d)
  OBVIOUS
<1>4. CASE key \in DOMAIN issues
  <2>1. run' = [run EXCEPT ![r] = NoRun] /\ UNCHANGED issues
    BY <1>2, <1>3, <1>4 DEF Insert
  <2>2. RunsAreFine'
    BY <1>1, <2>1, NoRunTyped, RunSet
  <2> QED
    BY <2>1, <2>2, DeskKeeps DEF Insert, IInv, Types
<1>5. CASE key \notin DOMAIN issues
  <2>1. run' = [run EXCEPT ![r] = Settled(r, "open")]
        /\ issues' = Opened(issues, {<<key, d.severity>>}, d.chapter)
    BY <1>2, <1>3, <1>5 DEF Insert
  <2>2. d.severity \in Severity /\ d.chapter \in Scope
    BY <1>1, <1>2 DEF Draft, Weight, Severity
  <2>3. \A f \in {<<key, d.severity>>} : f[2] \in Severity
    BY <2>2
  <2>4. issues' \in [DOMAIN issues' -> IssueRow]
    BY <2>1, <2>2, <2>3, OpenedTyped DEF IInv, Types
  <2>5. RunsAreFine'
    BY <1>1, <2>1, SettledTyped, RunSet
  <2> QED
    BY <2>4, <2>5, DeskKeeps DEF Insert
<1> QED
  BY <1>4, <1>5

LEMMA LookPassedKeeps ==
  ASSUME IInv, NEW r \in Runner, LookPassed(r)
  PROVE  IInv'
<1>1. RunsAreFine /\ run[r].todo # <<>> /\ Todo(r).ok
  BY DEF IInv, Types, RunsAreFine, LookPassed, AtCheck
<1>2. \/ run' = [run EXCEPT ![r] = [run[r] EXCEPT !.pc = "resolve"]]
      \/ run' = [run EXCEPT ![r] = Settled(r, "none")]
  BY DEF LookPassed
<1>3. RunsAreFine'
  BY <1>1, <1>2, MovesOn, SettledTyped, RunSet
<1> QED
  BY <1>3, DeskKeeps DEF LookPassed, IInv, Types

LEMMA ResolveKeeps ==
  ASSUME IInv, NEW r \in Runner, Resolve(r)
  PROVE  IInv'
<1>1. RunsAreFine /\ run[r].todo # <<>> /\ Todo(r).ok
  BY DEF IInv, Types, RunsAreFine, Resolve, InHand, Todo
<1>2. RunsAreFine'
  BY <1>1, SettledTyped, RunSet DEF Resolve
<1>3. issues' \in [DOMAIN issues' -> IssueRow]
  BY MarkedTyped DEF IInv, Types, Resolve, Status, Severity
<1> QED
  BY <1>2, <1>3, DeskKeeps DEF Resolve

\* What is stored says "ready" only when nothing active was counted.
LEMMA StoreKeeps ==
  ASSUME IInv, NEW r \in Runner, Store(r)
  PROVE  IInv'
<1>1. RunsAreFine /\ run[r] \in Request /\ Counted(run[r])
  BY DEF IInv, Types, RunsAreFine
<1>2. RunsAreFine'
  BY <1>1, NoRunTyped, RunSet DEF Store
<1>3. PICK q : q = run[r]
  OBVIOUS
<1>4. PICK report : report = [status |-> CASE "blocking" \in q.active -> "blocked"
                                           [] "warning" \in q.active -> "needs_review"
                                           [] OTHER -> "ready",
                              failing |-> q.failing, accepted |-> q.accepted]
  OBVIOUS
<1>5. reports' = [reports EXCEPT ![q.scope] = report]
  BY <1>3, <1>4 DEF Store
<1>6. report \in Report
  BY <1>1, <1>3, <1>4 DEF Report, Request
<1>7. report.status = "ready" => report.failing \subseteq report.accepted
  <2>1. ASSUME report.status = "ready"
        PROVE  "blocking" \notin q.active /\ "warning" \notin q.active
    BY <1>4, <2>1
  <2>2. q.active \subseteq Weight
    BY <1>1, <1>3 DEF Request
  <2> QED
    BY <1>1, <1>3, <1>4, <2>1, <2>2 DEF Weight, Counted
<1>8. reports' \in [Scope -> Report] /\ ReadyIsEarned'
  BY <1>5, <1>6, <1>7 DEF IInv, Types, ReadyIsEarned
<1> QED
  BY <1>2, <1>8, DeskKeeps DEF Store, IInv, Types

\* A step that leaves requests and reports alone, and no issue ill formed.
LEMMA RestKeeps ==
  ASSUME IInv, UNCHANGED <<run, reports, export, dirs, packages>>,
         issues' \in [DOMAIN issues' -> IssueRow],
         renders' \in [Chapter -> Seq(Take)], qaDue' \subseteq Chapter \X Nat,
         approvals' \in [Chapter -> Nat], \A c \in Chapter : approvals'[c] <= Len(renders'[c])
  PROVE  IInv'
<1>1. Types'
  BY DEF IInv, Types
<1>2. ReadyIsEarned' /\ ExportIsOwn' /\ RecordedIsComplete'
  BY DEF IInv, ReadyIsEarned, ExportIsOwn, RecordedIsComplete
<1> QED
  BY <1>1, <1>2 DEF IInv

LEMMA LandRenderKeeps ==
  ASSUME IInv, NEW c \in Chapter, NEW take \in Take, LandRender(c, take)
  PROVE  IInv'
<1>1. renders \in [Chapter -> Seq(Take)] /\ approvals \in [Chapter -> Nat]
      /\ \A d \in Chapter : approvals[d] <= Len(renders[d])
  BY DEF IInv, Types
<1>2. Append(renders[c], take) \in Seq(Take) /\ Len(Append(renders[c], take)) = Len(renders[c]) + 1
      /\ Len(renders[c]) \in Nat
  BY <1>1
<1>3. renders' = [renders EXCEPT ![c] = Append(renders[c], take)] /\ approvals' = approvals
  BY DEF LandRender
<1>4. renders' \in [Chapter -> Seq(Take)]
  BY <1>1, <1>2, <1>3
<1>5. \A d \in Chapter : approvals'[d] <= Len(renders'[d])
  BY <1>1, <1>2, <1>3
<1>6. qaDue' \subseteq Chapter \X Nat
  BY SMTT(30), <1>2 DEF IInv, Types, LandRender
<1> QED
  BY <1>1, <1>3, <1>4, <1>5, <1>6, RestKeeps DEF LandRender, IInv, Types

LEMMA QaChapterKeeps ==
  ASSUME IInv, NEW due \in qaDue, QaChapter(due)
  PROVE  IInv'
<1>1. due[1] \in Scope /\ qaDue' \subseteq Chapter \X Nat
  BY NoChapterIsScope DEF IInv, Types, QaChapter
<1>2. PICK take : take = renders[due[1]][due[2]]
  OBVIOUS
<1>3. PICK found : found = ChapterFindings(take.file, take.analysis, take.declared, take.lufs)
  OBVIOUS
<1>4. PICK findings : findings = {<<<<"chapter", due, f[1]>>, f[2]>> : f \in found}
  OBVIOUS
<1>5. \A f \in findings : f[2] \in Severity
  BY <1>3, <1>4, FindingsTyped DEF Weight, Severity
<1>6. issues' = Opened(issues, findings, due[1])
  BY <1>2, <1>3, <1>4 DEF QaChapter
<1>7. issues' \in [DOMAIN issues' -> IssueRow]
  BY <1>1, <1>5, <1>6, OpenedTyped DEF IInv, Types
<1> QED
  BY <1>1, <1>7, RestKeeps DEF QaChapter, IInv, Types

LEMMA ReviewersKeep ==
  ASSUME IInv,
         \/ \E f \in DOMAIN Movable : Move(f)
         \/ \E u \in UserIssue : CreateIssue(u[1], u[2])
         \/ \E k \in DOMAIN issues, status \in Marks : UpdateIssue(k, status)
         \/ \E c \in Chapter : Approve(c)
  PROVE  IInv'
<1>1. ASSUME NEW f \in DOMAIN Movable, Move(f)
      PROVE  IInv'
  BY <1>1, RestKeeps DEF Move, IInv, Types
<1>2. ASSUME NEW u \in UserIssue, CreateIssue(u[1], u[2])
      PROVE  IInv'
  <2>1. u[1] \in Severity /\ u[2] \in Scope
    BY ReviewAssumption
  <2>2. PICK key : key = <<"user", Cardinality(UserIssues) + 1>>
    OBVIOUS
  <2>3. issues' = Opened(issues, {<<key, u[1]>>}, u[2])
    BY <1>2, <2>2 DEF CreateIssue
  <2>4. \A f \in {<<key, u[1]>>} : f[2] \in Severity
    BY <2>1
  <2>5. issues' \in [DOMAIN issues' -> IssueRow]
    BY <2>1, <2>3, <2>4, OpenedTyped DEF IInv, Types
  <2> QED
    BY <1>2, <2>5, RestKeeps DEF CreateIssue, IInv, Types
<1>3. ASSUME NEW k \in DOMAIN issues, NEW status \in Marks, UpdateIssue(k, status)
      PROVE  IInv'
  <2>1. status \in Status
    BY ReviewAssumption
  <2>2. issues' \in [DOMAIN issues' -> IssueRow]
    BY <1>3, <2>1, MarkedTyped DEF UpdateIssue, IInv, Types, Severity
  <2> QED
    BY <1>3, <2>2, RestKeeps DEF UpdateIssue, IInv, Types
<1>4. ASSUME NEW c \in Chapter, Approve(c)
      PROVE  IInv'
  <2>1. Len(renders[c]) \in Nat
    BY DEF IInv, Types
  <2>2. approvals' \in [Chapter -> Nat] /\ \A d \in Chapter : approvals'[d] <= Len(renders'[d])
    BY <1>4, <2>1 DEF Approve, IInv, Types
  <2> QED
    BY <1>4, <2>2, RestKeeps DEF Approve, IInv, Types
<1> QED
  BY <1>1, <1>2, <1>3, <1>4

\* A step of the export alone.
LEMMA ExportFrame ==
  ASSUME IInv, UNCHANGED <<renders, qaDue, issues, approvals, run, reports>>,
         NEW pc \in Phase, NEW id \in 0..MaxExports, NEW plan,
         export' = [pc |-> pc, id |-> id, plan |-> plan],
         dirs' \in [1..MaxExports -> {"none", "partial", "staged", "root"}],
         ExportIsOwn', RecordedIsComplete'
  PROVE  IInv'
<1>1. Types'
  BY DEF IInv, Types
<1>2. ReadyIsEarned'
  BY DEF IInv, ReadyIsEarned
<1> QED
  BY <1>1, <1>2 DEF IInv

LEMMA PlanExportKeeps ==
  ASSUME IInv, NEW sel \in SUBSET Chapter, NEW encoded \in BOOLEAN, PlanExport(sel, encoded)
  PROVE  IInv'
<1>1. MaxExports \in Nat /\ export.id \in 0..MaxExports /\ export.id + 1 \in 0..MaxExports
  BY ReviewAssumption DEF IInv, Types, PlanExport
<1>2. PICK plan : export' = [pc |-> "planned", id |-> export.id + 1, plan |-> plan]
  BY DEF PlanExport
<1>3. UNCHANGED <<dirs, packages>>
  BY DEF PlanExport
<1>4. ExportIsOwn' /\ RecordedIsComplete'
  BY <1>1, <1>2, <1>3 DEF IInv, ExportIsOwn, RecordedIsComplete
<1> QED
  BY <1>1, <1>2, <1>3, <1>4, ExportFrame DEF PlanExport, Phase, IInv, Types

\* The directory of an export is its own until it is in place, and only then
\* is there a row.
LEMMA ExportStepKeeps ==
  ASSUME IInv, ExportStep
  PROVE  IInv'
<1>1. /\ MaxExports \in Nat /\ export.id \in 0..MaxExports
      /\ export = [pc |-> export.pc, id |-> export.id, plan |-> export.plan]
      /\ dirs \in [1..MaxExports -> {"none", "partial", "staged", "root"}]
      /\ ExportIsOwn /\ RecordedIsComplete
  BY ReviewAssumption DEF IInv, Types
<1>2. CASE Stage
  <2>1. export' = [pc |-> "staging", id |-> export.id, plan |-> export.plan]
    BY <1>1, <1>2 DEF Stage
  <2>2. ExportIsOwn' /\ RecordedIsComplete'
    BY <1>1, <1>2, <2>1 DEF Stage, ExportIsOwn, RecordedIsComplete
  <2> QED
    BY <1>1, <1>2, <2>1, <2>2, ExportFrame DEF Stage, Phase
<1>3. ASSUME NEW works \in BOOLEAN, Fill(works)
      PROVE  IInv'
  <2>1. PICK pc \in {"staged", "idle"} : export' = [pc |-> pc, id |-> export.id, plan |-> export.plan]
    BY <1>1, <1>3 DEF Fill
  <2>2. dirs' \in [1..MaxExports -> {"none", "partial", "staged", "root"}]
    BY <1>1, <1>3 DEF Fill
  <2>3. ExportIsOwn' /\ RecordedIsComplete'
    BY <1>1, <1>3, <2>1 DEF Fill, ExportIsOwn, RecordedIsComplete
  <2> QED
    BY <1>1, <1>3, <2>1, <2>2, <2>3, ExportFrame DEF Fill, Phase
<1>4. CASE Publish
  <2>1. export' = [pc |-> "published", id |-> export.id, plan |-> export.plan]
    BY <1>1, <1>4 DEF Publish
  <2>2. ExportIsOwn' /\ RecordedIsComplete'
    BY <1>1, <1>4, <2>1 DEF Publish, ExportIsOwn, RecordedIsComplete
  <2> QED
    BY <1>1, <1>4, <2>1, <2>2, ExportFrame DEF Publish, Phase
<1>5. CASE Record
  <2>1. export' = [pc |-> "idle", id |-> export.id, plan |-> export.plan]
    BY <1>1, <1>5 DEF Record
  <2>2. ExportIsOwn' /\ RecordedIsComplete'
    BY <1>1, <1>5, <2>1 DEF Record, ExportIsOwn, RecordedIsComplete
  <2> QED
    BY <1>1, <1>5, <2>1, <2>2, ExportFrame DEF Record, Phase
<1> QED
  BY <1>2, <1>3, <1>4, <1>5 DEF ExportStep

LEMMA CrashKeeps ==
  ASSUME IInv, Crash
  PROVE  IInv'
<1>1. export' = [pc |-> "idle", id |-> export.id, plan |-> <<>>]
  BY DEF IInv, Types, Crash
<1>2. RunsAreFine'
  BY NoRunTyped DEF Crash, RunsAreFine
<1>3. Types'
  BY <1>1, <1>2 DEF IInv, Types, Crash, RunsAreFine, Phase
<1>4. ReadyIsEarned' /\ ExportIsOwn' /\ RecordedIsComplete'
  BY <1>1 DEF IInv, Crash, ReadyIsEarned, ExportIsOwn, RecordedIsComplete
<1> QED
  BY <1>2, <1>3, <1>4 DEF IInv, RunsAreFine

LEMMA NextIInv == IInv /\ [Next]_vars => IInv'
<1> SUFFICES ASSUME IInv, [Next]_vars PROVE IInv'
  OBVIOUS
<1>1. ASSUME NEW r \in Runner, RunStep(r)
      PROVE  IInv'
  BY <1>1, RefreshKeeps, ReopenKeeps, LookInVainKeeps, InsertKeeps, LookPassedKeeps,
     ResolveKeeps, StoreKeeps DEF RunStep
<1>2. CASE UNCHANGED vars
  BY <1>2 DEF vars, IInv, Types, InHand, Counted, ReadyIsEarned, ExportIsOwn, RecordedIsComplete
<1>3. CASE Next
  <2>1. CASE \E r \in Runner, s \in Asked : Begin(r, s)
    BY <2>1, BeginKeeps
  <2>2. CASE \E c \in Chapter, take \in Take : LandRender(c, take)
    BY <2>2, LandRenderKeeps
  <2>3. CASE \E due \in qaDue : QaChapter(due)
    BY <2>3, QaChapterKeeps
  <2>4. CASE \E sel \in SUBSET Chapter, encoded \in BOOLEAN : PlanExport(sel, encoded)
    BY <2>4, PlanExportKeeps
  <2> QED
    BY <1>1, <1>3, <2>1, <2>2, <2>3, <2>4, ReviewersKeep, ExportStepKeeps, CrashKeeps DEF Next
<1> QED
  BY <1>2, <1>3

\* Whatever readiness runs, reviewers, renders, exports and crashes do in
\* between, the desk stays as the parts of IInv describe it.
THEOREM Invariance == Spec => []IInv
<1>1. Init => IInv
  BY InitIInv
<1>2. IInv /\ [Next]_vars => IInv'
  BY NextIInv
<1> QED
  BY <1>1, <1>2, PTL DEF Spec

\* A report that says "ready" was earned, a package that has a row is complete
\* and in place, and rows, approvals and reports are what they should be
\* (ReadinessService.run, ExportService.export).
THEOREM DeskStaysTrue == Spec => []DeskIsTrue
<1>1. IInv => DeskIsTrue
  <2> SUFFICES ASSUME IInv PROVE TypeOK
    BY DEF IInv, DeskIsTrue
  <2>1. \A k \in DOMAIN issues : issues[k].severity \in Severity /\ issues[k].status \in Status
    BY DEF IInv, Types, IssueRow
  <2>2. \A c \in Chapter : approvals[c] \in 0..Len(renders[c])
    <3> SUFFICES ASSUME NEW c \in Chapter PROVE approvals[c] \in 0..Len(renders[c])
      OBVIOUS
    <3>1. approvals[c] \in Nat /\ Len(renders[c]) \in Nat /\ approvals[c] <= Len(renders[c])
      BY DEF IInv, Types
    <3> QED
      BY <3>1
  <2>3. \A r \in Runner : run[r].pc \in {"idle", "checks", "insert", "reopen", "resolve"}
    BY DEF IInv, Types, Request
  <2>4. \A s \in Scope : reports[s].status \in {"none", "blocked", "needs_review", "ready"}
    BY DEF IInv, Types, Report
  <2>5. \A x \in DOMAIN dirs : dirs[x] \in {"none", "partial", "staged", "root"}
    BY DEF IInv, Types
  <2> QED
    BY <2>1, <2>2, <2>3, <2>4, <2>5 DEF TypeOK
<1> QED
  BY <1>1, Invariance, PTL
=============================================================================
