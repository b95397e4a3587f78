-------------------------- MODULE SpeakerDeskProofs --------------------------
(***************************************************************************)
(* The locks and the review tasks of SpeakerDesk hold, for any book, cast, *)
(* answers, edits and bounds.                                              *)
(***************************************************************************)
EXTENDS SpeakerDesk, SequenceTheorems, TLAPS

TaskRow == [open : BOOLEAN, members : SUBSET DOMAIN lines]

Shapes ==
  /\ DOMAIN rows = DOMAIN lines
  /\ \A i \in DOMAIN lines : DOMAIN rows[i] = DOMAIN NoRow
  /\ DOMAIN job = DOMAIN Idle
  /\ job.flagged \subseteq DOMAIN lines
  /\ tasks \in Seq(TaskRow)
  /\ edits \in Nat
  /\ DOMAIN session = Sessions /\ session["run"].tells = {}

Listed(i) == \E t \in DOMAIN tasks : tasks[t].open /\ i \in tasks[t].members

\* Only the reviewer's session writes a lock, only the run's a tier or a task.
OwnColumns ==
  \A s \in Sessions : \A i \in DOMAIN lines : i \in DOMAIN session[s].sets =>
    /\ s # "desk" => "locked" \notin DOMAIN session[s].sets[i]
    /\ s # "run" => "tier" \notin DOMAIN session[s].sets[i] /\ "task" \notin DOMAIN session[s].sets[i]

Claim(t, i) == t # 0 => t \in DOMAIN tasks /\ i \in tasks[t].members

\* A row's task has the row among its members, and so will it once the run's
\* session has committed.
ClaimsHold == \A i \in DOMAIN lines : Claim(rows[i].task, i) /\ Claim(Landed("run", i).task, i)

\* Between the tiers and the end of a run the flagged rows are known to it.
FlaggedAreKnown ==
  job.phase \in {"fold", "link"} => \A i \in DOMAIN lines : Landed("run", i).tier = "flag" => i \in job.flagged

TaskIsReady ==
  job.phase = "link" =>
    /\ job.task \in DOMAIN tasks
    /\ job.flagged \subseteq tasks[job.task].members
    /\ job.listed => tasks[job.task].open

\* The run says that all is listed only once it is.
ListedIsTrue ==
  job.listed =>
    /\ job.phase \in {"idle", "link"}
    /\ job.phase = "idle" => \A i \in DOMAIN lines : Landed("run", i).tier = "flag" => Listed(i)

\* Only a reviewer approves what the tiers have flagged.
UnsureStays ==
  (edits = 0 /\ (job.phase \in {"fold", "link"} \/ job.listed)) =>
    \A i \in DOMAIN lines : Landed("run", i).tier = "flag" => Landed("run", i).status = "needs_review"

ConfirmedByEdit == pending # {} \/ Open("desk") \/ Open("word") => edits > 0

IInv ==
  /\ Shapes /\ OwnColumns /\ ClaimsHold /\ FlaggedAreKnown /\ TaskIsReady /\ ListedIsTrue
  /\ UnsureStays /\ ConfirmedByEdit
-----------------------------------------------------------------------------
LEMMA InitIInv == Init => IInv
<1> SUFFICES ASSUME Init PROVE IInv
  OBVIOUS
<1>1. Shapes
  BY DEF Init, Shapes, TaskRow, Idle, Sessions, Closed
<1>2. OwnColumns /\ ConfirmedByEdit
  BY DEF Init, OwnColumns, Closed, ConfirmedByEdit, Open, Sessions
<1>3. \A i \in DOMAIN lines : rows[i].task = 0 /\ Landed("run", i) = rows[i]
  BY DEF Init, Landed, Closed, Sessions, NoRow
<1>4. ClaimsHold
  BY <1>3 DEF ClaimsHold, Claim
<1>5. FlaggedAreKnown /\ TaskIsReady /\ ListedIsTrue /\ UnsureStays
  BY DEF Init, FlaggedAreKnown, TaskIsReady, ListedIsTrue, UnsureStays, Idle
<1> QED
  BY <1>1, <1>2, <1>4, <1>5 DEF IInv

LEMMA RowColumns ==
  DOMAIN NoRow = {"who", "name", "sure", "tally", "method", "status", "locked", "tier", "task"}
  BY Zenon DEF NoRow

\* What a session is about to write once it has read.
LEMMA OpensFacts ==
  ASSUME Shapes, NEW s \in Sessions, NEW sets, NEW tells, Opens(s, sets, tells)
  PROVE  /\ DOMAIN session' = Sessions
         /\ \A t \in Sessions : t # s => session'[t] = session[t]
         /\ \A i : i \in DOMAIN session'[s].sets <=> i \in DOMAIN sets /\ DOMAIN sets[i] # {}
         /\ \A i \in DOMAIN session'[s].sets : session'[s].sets[i] = sets[i]
         /\ session'[s].tells = tells
<1>1. /\ DOMAIN session' = Sessions /\ \A t \in Sessions : t # s => session'[t] = session[t]
      /\ session'[s] = [sets |-> [i \in {k \in DOMAIN sets : DOMAIN sets[k] # {}} |-> sets[i]], tells |-> tells]
  BY DEF Opens, Shapes
<1>2. session'[s].sets = [i \in {k \in DOMAIN sets : DOMAIN sets[k] # {}} |-> sets[i]] /\ session'[s].tells = tells
  BY <1>1
<1> QED
  BY <1>1, <1>2

\* A row after a commit has the columns of a row.
LEMMA LandedFacts ==
  ASSUME Shapes, NEW s, NEW i \in DOMAIN lines
  PROVE  /\ DOMAIN Landed(s, i) = DOMAIN NoRow
         /\ i \notin DOMAIN session[s].sets => Landed(s, i) = rows[i]
         /\ \A f \in DOMAIN NoRow :
              /\ i \in DOMAIN session[s].sets /\ f \notin DOMAIN session[s].sets[i] => Landed(s, i)[f] = rows[i][f]
              /\ i \in DOMAIN session[s].sets /\ f \in DOMAIN session[s].sets[i] =>
                   Landed(s, i)[f] = session[s].sets[i][f]
  BY DEF Landed, Over, Shapes

LEMMA ChangedFacts ==
  ASSUME NEW was, NEW new
  PROVE  /\ DOMAIN Changed(was, new) = {f \in DOMAIN NoRow : new[f] # was[f]}
         /\ \A f \in DOMAIN Changed(was, new) : Changed(was, new)[f] = new[f]
         /\ DOMAIN Noted(was, new) \subseteq DOMAIN Changed(was, new) \cup {"tally"}
         /\ \A f \in DOMAIN Noted(was, new) : Noted(was, new)[f] = new[f]
  BY DEF Changed, Noted

\* Upsert writes to its row only when that is not locked, and never its lock,
\* its tier or its task (SpeakerAttributionRepository.upsert).
LEMMA UpsertFacts ==
  ASSUME Shapes, NEW i, NEW r, Upsert(i, r)
  PROVE  /\ DOMAIN session' = Sessions /\ session'["run"].tells = {}
         /\ \A t \in Sessions : t # "run" => session'[t] = session[t]
         /\ \A k \in DOMAIN session'["run"].sets :
              /\ k = i /\ ~rows[k].locked
              /\ k \in DOMAIN lines => \A f \in {"locked", "tier", "task"} : f \notin DOMAIN session'["run"].sets[k]
<1>1. Opens("run", [k \in {l \in {i} : ~rows[l].locked} |-> Noted(rows[k], Assigned(rows[k], r))], {})
  BY DEF Upsert
<1>2. "run" \in Sessions
  BY DEF Sessions
<1>3. ASSUME NEW k \in DOMAIN session'["run"].sets
      PROVE  k = i /\ ~rows[k].locked /\ session'["run"].sets[k] = Noted(rows[k], Assigned(rows[k], r))
  BY SMTT(30), <1>1, <1>2, OpensFacts
<1>4. ASSUME NEW k \in DOMAIN lines, NEW f \in {"locked", "tier", "task"}
      PROVE  f \notin DOMAIN Noted(rows[k], Assigned(rows[k], r))
  <2>1. DOMAIN rows[k] = DOMAIN NoRow
    BY DEF Shapes
  <2>2. Assigned(rows[k], r)[f] = rows[k][f]
    BY <2>1, RowColumns DEF Assigned
  <2>3. f # "tally" /\ f \notin DOMAIN Changed(rows[k], Assigned(rows[k], r))
    BY <2>2 DEF Changed
  <2> QED
    BY <2>3 DEF Noted
<1> QED
  BY SMTT(30), <1>1, <1>2, <1>3, <1>4, OpensFacts

\* A step of the run outside the tiers moves no task and lists nothing.
LEMMA RunStep ==
  ASSUME IInv, Shapes', OwnColumns', UNCHANGED <<lines, rows, tasks, pending, edits>>,
         session'["desk"] = session["desk"], session'["word"] = session["word"],
         \A i \in DOMAIN lines : Landed("run", i)'.task \in {rows[i].task, Landed("run", i).task},
         job'.phase \notin {"fold", "link"}, ~job'.listed
  PROVE  IInv'
<1>1. ClaimsHold'
  BY DEF IInv, ClaimsHold, Claim
<1>2. FlaggedAreKnown' /\ TaskIsReady' /\ ListedIsTrue' /\ UnsureStays' /\ ConfirmedByEdit'
  BY DEF IInv, FlaggedAreKnown, TaskIsReady, ListedIsTrue, UnsureStays, ConfirmedByEdit, Open
<1> QED
  BY <1>1, <1>2 DEF IInv

\* The same for a step that opens no session, and for one that upserts.
LEMMA QuietStep ==
  ASSUME IInv, UNCHANGED <<lines, rows, tasks, session, pending, edits>>,
         DOMAIN job' = DOMAIN Idle, job'.flagged \subseteq DOMAIN lines,
         job'.phase \notin {"fold", "link"}, ~job'.listed
  PROVE  IInv'
<1>1. Shapes' /\ OwnColumns'
  BY DEF IInv, Shapes, TaskRow, OwnColumns
<1>2. \A i \in DOMAIN lines : Landed("run", i)' = Landed("run", i)
  BY DEF Landed, Over
<1> QED
  BY <1>1, <1>2, RunStep

LEMMA UpsertStep ==
  ASSUME IInv, UNCHANGED <<lines, rows, tasks, pending, edits>>, NEW i, NEW r, Upsert(i, r),
         DOMAIN job' = DOMAIN Idle, job'.flagged \subseteq DOMAIN lines,
         job'.phase \notin {"fold", "link"}, ~job'.listed
  PROVE  IInv'
<1>1. Shapes'
  BY UpsertFacts DEF IInv, Shapes, TaskRow
<1>2. OwnColumns'
  BY UpsertFacts DEF IInv, OwnColumns
<1>3. ASSUME NEW k \in DOMAIN lines PROVE Landed("run", k)'.task = rows[k].task
  <2>1. k \in DOMAIN session'["run"].sets => "task" \notin DOMAIN session'["run"].sets[k]
    BY UpsertFacts DEF IInv
  <2> QED
    BY <2>1, RowColumns DEF Landed, Over
<1> QED
  BY <1>1, <1>2, <1>3, UpsertFacts, RunStep DEF IInv, Sessions

LEMMA JobFacts ==
  ASSUME IInv
  PROVE  /\ DOMAIN job = {"phase", "mode", "at", "index", "seen", "targets", "plan", "flagged", "task", "listed"}
         /\ job.flagged \subseteq DOMAIN lines
         /\ job.phase \notin {"idle", "link"} => ~job.listed
  BY DEF IInv, Shapes, Idle, ListedIsTrue

LEMMA ClosingPhase == Closing \in {"tier", "idle"}
  BY DEF Closing
-----------------------------------------------------------------------------
LEMMA StartIInv == ASSUME IInv, NEW m \in Modes, Start(m) PROVE IInv'
<1>1. DOMAIN job' = DOMAIN Idle /\ job'.flagged \subseteq DOMAIN lines /\ job'.phase = "rules" /\ ~job'.listed
  BY DEF Start, Idle
<1> QED
  BY <1>1, QuietStep DEF Start

LEMMA RuleIInv == ASSUME IInv, Rule PROVE IInv'
<1>1. PICK index :
        /\ Upsert(job.at, Deterministic(lines, job.at, index))
        /\ job' = [job EXCEPT !.index = index, !.at = IF job.at = Len(lines) THEN 0 ELSE job.at + 1,
                     !.phase = CASE ~(job.at = Len(lines)) -> "rules"
                                 [] job.at = Len(lines) /\ job.mode = "none" -> Closing
                                 [] job.at = Len(lines) /\ job.mode = "v1" -> "ask"
                                 [] OTHER -> "read"]
  BY DEF Rule
<1>2. job.phase = "rules" /\ UNCHANGED <<lines, rows, tasks, pending, edits>>
  BY DEF Rule
<1>3. DOMAIN job' = DOMAIN Idle /\ job'.flagged = job.flagged /\ job'.listed = job.listed
  BY <1>1, JobFacts DEF Idle
<1>4. job'.phase \in {"rules", "tier", "idle", "ask", "read"}
  BY <1>1, ClosingPhase, JobFacts
<1> QED
  BY <1>1, <1>2, <1>3, <1>4, JobFacts, UpsertStep

LEMMA ReadIInv == ASSUME IInv, Read PROVE IInv'
<1>1. DOMAIN job' = DOMAIN Idle /\ job'.flagged = job.flagged /\ job'.listed = job.listed /\ job'.phase = "circuit"
  BY JobFacts DEF Read, Idle
<1> QED
  BY <1>1, JobFacts, QuietStep DEF Read

LEMMA CircuitIInv == ASSUME IInv, Circuit PROVE IInv'
<1>1. /\ DOMAIN job' = DOMAIN Idle /\ job'.flagged = job.flagged /\ job'.listed = job.listed
      /\ job'.phase \in {"circuit", "ask", "tier", "idle"}
      /\ job.phase = "circuit" /\ UNCHANGED <<lines, rows, tasks, pending, edits>>
  BY JobFacts, ClosingPhase DEF Circuit, Idle
<1>2. CASE UNCHANGED session
  BY <1>1, <1>2, JobFacts, QuietStep
<1>3. CASE Upsert(job.at, [Written(job.seen[job.at]) EXCEPT !.method = "det_shortcircuit"])
  BY <1>1, <1>3, JobFacts, UpsertStep
<1> QED
  BY <1>2, <1>3 DEF Circuit

LEMMA AskV1IInv == ASSUME IInv, AskV1 PROVE IInv'
<1>1. PICK windows, plan : job' = [job EXCEPT !.phase = IF windows = <<>> THEN Closing ELSE "apply", !.plan = plan]
  BY DEF AskV1
<1>2. /\ DOMAIN job' = DOMAIN Idle /\ job'.flagged = job.flagged /\ job'.listed = job.listed
      /\ job'.phase \in {"apply", "tier", "idle"}
  BY <1>1, JobFacts, ClosingPhase DEF Idle
<1>3. job.phase = "ask" /\ UNCHANGED <<lines, rows, tasks, session, pending, edits>>
  BY DEF AskV1
<1> QED
  BY SMTT(30), <1>2, <1>3, JobFacts, QuietStep

LEMMA AskV2IInv == ASSUME IInv, AskV2 PROVE IInv'
<1>1. PICK plan : job' = [job EXCEPT !.phase = "apply", !.targets = <<>>, !.plan = plan]
  BY DEF AskV2
<1>2. DOMAIN job' = DOMAIN Idle /\ job'.flagged = job.flagged /\ job'.listed = job.listed /\ job'.phase = "apply"
  BY <1>1, JobFacts DEF Idle
<1>3. job.phase = "ask" /\ UNCHANGED <<lines, rows, tasks, session, pending, edits>>
  BY DEF AskV2
<1> QED
  BY SMTT(30), <1>2, <1>3, JobFacts, QuietStep

LEMMA ApplyIInv == ASSUME IInv, Apply PROVE IInv'
<1>1. job.phase \in {"apply", "repair"} /\ UNCHANGED <<lines, rows, tasks, pending, edits>>
  BY DEF Apply
<1>2. /\ DOMAIN job' = DOMAIN Idle /\ job'.flagged = job.flagged /\ job'.listed = job.listed
      /\ job'.phase \in {"apply", "repair", "reduce", "tier", "idle"}
  BY <1>1, JobFacts, ClosingPhase DEF Apply, Idle
<1>3. CASE UNCHANGED session
  BY <1>1, <1>2, <1>3, JobFacts, QuietStep
<1>4. CASE Upsert(Head(job.plan).line, Head(job.plan).row)
  BY <1>1, <1>2, <1>4, JobFacts, UpsertStep
<1> QED
  BY <1>3, <1>4 DEF Apply

LEMMA ReduceIInv == ASSUME IInv, Reduce PROVE IInv'
<1>1. PICK plan : job' = [job EXCEPT !.phase = "repair", !.plan = plan]
  BY DEF Reduce
<1>2. DOMAIN job' = DOMAIN Idle /\ job'.flagged = job.flagged /\ job'.listed = job.listed /\ job'.phase = "repair"
  BY SMTT(30), <1>1, JobFacts DEF Idle
<1>3. job.phase = "reduce" /\ UNCHANGED <<lines, rows, tasks, session, pending, edits>>
  BY DEF Reduce
<1> QED
  BY SMTT(30), <1>2, <1>3, JobFacts, QuietStep

LEMMA StopIInv == ASSUME IInv, Stop PROVE IInv'
<1>1. DOMAIN job' = DOMAIN Idle /\ job'.flagged \subseteq DOMAIN lines /\ job'.phase = "idle" /\ ~job'.listed
  BY DEF Stop, Idle
<1>2. /\ UNCHANGED <<lines, rows, tasks, pending, edits>>
      /\ session' = [session EXCEPT !["run"] = Closed]
  BY DEF Stop
<1>3. /\ DOMAIN session' = Sessions /\ session'["run"].tells = {} /\ session'["desk"] = session["desk"] /\ session'["word"] = session["word"]
      /\ \A i : i \notin DOMAIN session'["run"].sets
  BY <1>2 DEF IInv, Shapes, Sessions, Closed
<1>4. Shapes' /\ OwnColumns'
  BY <1>1, <1>2, <1>3 DEF IInv, Shapes, TaskRow, OwnColumns, Sessions
<1>5. \A i \in DOMAIN lines : Landed("run", i)' = rows[i]
  BY <1>2, <1>3 DEF Landed
<1> QED
  BY <1>1, <1>2, <1>3, <1>4, <1>5, RunStep
-----------------------------------------------------------------------------
\* A locked row is not queued (classify_decision).
LEMMA LockedIsNotQueued == ASSUME NEW row, row.locked PROVE ~Class(row).queue
  BY DEF Class, Classify

\* What the tiers make of a row: queued rows are flagged, no other is, and the
\* task of a row is kept or dropped (ConfidenceReviewService.apply).
LEMMA TieredFacts ==
  ASSUME Shapes, NEW i \in DOMAIN lines
  PROVE  /\ \A f \in DOMAIN NoRow \ {"tier", "status", "task"} : Tiered(rows[i])[f] = rows[i][f]
         /\ Tiered(rows[i]).task \in {0, rows[i].task}
         /\ rows[i].locked => Tiered(rows[i]).status = rows[i].status
         /\ Tiered(rows[i]).tier = "flag" => Class(rows[i]).queue /\ Tiered(rows[i]).status = "needs_review"
<1>1. DOMAIN rows[i] = DOMAIN NoRow
  BY DEF Shapes
<1>2. CASE Class(rows[i]).queue
  <2>1. Tiered(rows[i]) = [rows[i] EXCEPT !.tier = "flag", !.status = "needs_review"]
    BY <1>2 DEF Tiered
  <2>2. ~rows[i].locked
    BY <1>2, LockedIsNotQueued
  <2> QED
    BY <1>1, <1>2, <2>1, <2>2, RowColumns
<1>3. CASE ~Class(rows[i]).queue
  <2>1. Tiered(rows[i]) = [rows[i] EXCEPT !.tier = Class(rows[i]).tier, !.task = 0]
    BY <1>3 DEF Tiered
  <2>2. Class(rows[i]).tier # "flag"
    BY <1>3 DEF Class, Classify
  <2> QED
    BY <1>1, <2>1, <2>2, RowColumns
<1> QED
  BY <1>2, <1>3

\* A row with what differs from it written over it is the new row.
LEMMA OverChanged ==
  ASSUME NEW was, NEW new, NEW f \in DOMAIN NoRow
  PROVE  Over(Changed(was, new), was)[f] = new[f]
  BY DEF Over, Changed

LEMMA TierLands ==
  ASSUME IInv, Tier, NEW i \in DOMAIN lines
  PROVE  /\ ~Exists(i) => Landed("run", i)' = rows[i]
         /\ Exists(i) => \A f \in DOMAIN NoRow : Landed("run", i)'[f] = Tiered(rows[i])[f]
<1> DEFINE sets == [k \in {k \in DOMAIN lines : Exists(k)} |-> Changed(rows[k], Tiered(rows[k]))]
<1>1. Opens("run", sets, {}) /\ UNCHANGED rows
  BY DEF Tier
<1>2. /\ \A k : k \in DOMAIN session'["run"].sets <=> k \in DOMAIN sets /\ DOMAIN sets[k] # {}
      /\ \A k \in DOMAIN session'["run"].sets : session'["run"].sets[k] = sets[k]
  <2>1. Shapes /\ "run" \in Sessions
    BY DEF IInv, Sessions
  <2> HIDE DEF sets
  <2> QED
    BY <1>1, <2>1, OpensFacts
<1>3. CASE ~Exists(i)
  <2>1. i \notin DOMAIN sets
    BY <1>3
  <2> QED
    BY <1>1, <1>2, <1>3, <2>1 DEF Landed
<1>4. CASE Exists(i)
  <2>1. i \in DOMAIN sets /\ sets[i] = Changed(rows[i], Tiered(rows[i]))
    BY <1>4
  <2> HIDE DEF sets
  <2>2. CASE DOMAIN sets[i] # {}
    <3>1. Landed("run", i)' = Over(Changed(rows[i], Tiered(rows[i])), rows[i])
      BY <1>1, <1>2, <2>1, <2>2 DEF Landed
    <3> QED
      BY <1>4, <3>1, OverChanged
  <2>3. CASE DOMAIN sets[i] = {}
    <3>1. Landed("run", i)' = rows[i]
      BY <1>1, <1>2, <2>3 DEF Landed
    <3>2. \A f \in DOMAIN NoRow : rows[i][f] = Tiered(rows[i])[f]
      BY <2>1, <2>3 DEF Changed
    <3> QED
      BY <1>4, <3>1, <3>2
  <2> QED
    BY <2>2, <2>3
<1> QED
  BY <1>3, <1>4

\* The tiers' session writes no lock, and goes for rows of the book.
LEMMA TierColumns ==
  ASSUME IInv, Tier
  PROVE  /\ DOMAIN session' = Sessions /\ session'["run"].tells = {}
         /\ \A t \in Sessions : t # "run" => session'[t] = session[t]
         /\ \A k \in DOMAIN lines \cap DOMAIN session'["run"].sets :
              "locked" \notin DOMAIN session'["run"].sets[k]
<1> DEFINE sets == [k \in {k \in DOMAIN lines : Exists(k)} |-> Changed(rows[k], Tiered(rows[k]))]
<1>1. Opens("run", sets, {}) /\ Shapes /\ "run" \in Sessions
  BY DEF Tier, IInv, Sessions
<1>2. \A k \in DOMAIN sets : k \in DOMAIN lines /\ sets[k] = Changed(rows[k], Tiered(rows[k]))
  OBVIOUS
<1>3. ASSUME NEW k \in DOMAIN lines PROVE "locked" \notin DOMAIN Changed(rows[k], Tiered(rows[k]))
  <2>1. Tiered(rows[k]).locked = rows[k].locked
    BY <1>1, TieredFacts, RowColumns
  <2> QED
    BY <2>1 DEF Changed
<1> HIDE DEF sets
<1>4. /\ DOMAIN session' = Sessions /\ session'["run"].tells = {}
      /\ \A t \in Sessions : t # "run" => session'[t] = session[t]
      /\ \A k \in DOMAIN session'["run"].sets : k \in DOMAIN sets /\ session'["run"].sets[k] = sets[k]
  BY <1>1, OpensFacts
<1> QED
  BY <1>2, <1>3, <1>4

LEMMA TierIInv == ASSUME IInv, Tier PROVE IInv'
<1>1. PICK queued : queued = {i \in DOMAIN lines : Exists(i) /\ Class(rows[i]).queue}
  OBVIOUS
<1>2. /\ job.phase = "tier" /\ UNCHANGED <<lines, rows, tasks, pending, edits>>
      /\ job' = [job EXCEPT !.flagged = queued, !.listed = queued = {},
                  !.phase = IF queued = {} THEN "idle" ELSE "fold"]
  BY <1>1 DEF Tier
<1>3. ASSUME NEW i \in DOMAIN lines
      PROVE  /\ Landed("run", i)'.task \in {0, rows[i].task}
             /\ Landed("run", i)'.tier = "flag" => i \in queued /\ Landed("run", i)'.status = "needs_review"
  <2>1. CASE ~Exists(i)
    <3>1. Landed("run", i)' = rows[i] /\ rows[i] = NoRow
      BY <2>1, TierLands DEF Exists
    <3>2. NoRow.tier = "none"
      BY Zenon DEF NoRow
    <3> QED
      BY <3>1, <3>2
  <2>2. CASE Exists(i)
    <3>1. \A f \in {"task", "tier", "status"} : Landed("run", i)'[f] = Tiered(rows[i])[f]
      BY <2>2, TierLands, RowColumns
    <3>2. Shapes
      BY DEF IInv
    <3> QED
      BY <1>1, <2>2, <3>1, <3>2, TieredFacts
  <2> QED
    BY <2>1, <2>2
<1>4. /\ DOMAIN job' = DOMAIN Idle /\ job'.flagged = queued /\ job'.phase \in {"idle", "fold"}
      /\ job'.listed <=> queued = {}
      /\ job'.phase = "idle" <=> queued = {}
  BY <1>2, JobFacts DEF Idle
<1>5. Shapes'
  BY <1>1, <1>2, <1>4, TierColumns DEF IInv, Shapes, TaskRow
<1>6. OwnColumns'
  <2> SUFFICES ASSUME NEW s \in Sessions, NEW i \in DOMAIN lines, i \in DOMAIN session'[s].sets
               PROVE  /\ s # "desk" => "locked" \notin DOMAIN session'[s].sets[i]
                      /\ s # "run" => "tier" \notin DOMAIN session'[s].sets[i] /\ "task" \notin DOMAIN session'[s].sets[i]
    BY <1>2 DEF OwnColumns
  <2>1. CASE s = "run"
    BY <2>1, TierColumns
  <2>2. CASE s # "run"
    BY <2>2, TierColumns DEF IInv, OwnColumns
  <2> QED
    BY <2>1, <2>2
<1>7. ClaimsHold'
  BY <1>2, <1>3 DEF IInv, ClaimsHold, Claim
<1>8. FlaggedAreKnown' /\ TaskIsReady' /\ UnsureStays'
  BY <1>2, <1>3, <1>4 DEF FlaggedAreKnown, TaskIsReady, UnsureStays
<1>9. ConfirmedByEdit'
  BY <1>2, TierColumns DEF IInv, ConfirmedByEdit, Open, Sessions
<1>10. ListedIsTrue'
  BY <1>2, <1>3, <1>4 DEF ListedIsTrue
<1> QED
  BY <1>5, <1>6, <1>7, <1>8, <1>9, <1>10 DEF IInv

LEMMA FoldIInv == ASSUME IInv, Fold PROVE IInv'
<1>1. job.phase = "fold" /\ UNCHANGED <<lines, rows, session, pending, edits>>
  BY DEF Fold
<1>2. PICK t :
        /\ job' = [job EXCEPT !.phase = "link", !.listed = TRUE, !.task = t]
        /\ tasks' \in Seq(TaskRow)
        /\ t \in DOMAIN tasks' /\ tasks'[t].open /\ job.flagged \subseteq tasks'[t].members
        /\ \A u \in DOMAIN tasks : u \in DOMAIN tasks' /\ tasks[u].members \subseteq tasks'[u].members
  <2>0. tasks \in Seq(TaskRow) /\ job.flagged \subseteq DOMAIN lines
    BY DEF IInv, Shapes
  <2>1. CASE OpenTask = {}
    <3>1. /\ tasks' = Append(tasks, [open |-> TRUE, members |-> job.flagged])
          /\ job' = [job EXCEPT !.phase = "link", !.listed = TRUE, !.task = Len(tasks) + 1]
      BY <2>1 DEF Fold
    <3>2. PICK new \in TaskRow : new = [open |-> TRUE, members |-> job.flagged]
      BY <2>0 DEF TaskRow
    <3>3. /\ tasks' \in Seq(TaskRow) /\ Len(tasks') = Len(tasks) + 1
          /\ tasks'[Len(tasks) + 1] = new /\ \A u \in DOMAIN tasks : u \in DOMAIN tasks' /\ tasks'[u] = tasks[u]
      BY <2>0, <3>1, <3>2
    <3>4. Len(tasks) + 1 \in DOMAIN tasks'
      BY <2>0, <3>3
    <3>5. new.open /\ new.members = job.flagged
      BY <3>2
    <3> QED
      BY <3>1, <3>3, <3>4, <3>5
  <2>2. CASE OpenTask # {}
    <3>1. PICK t \in OpenTask : /\ tasks' = [tasks EXCEPT ![t].members = @ \cup job.flagged]
                                /\ job' = [job EXCEPT !.phase = "link", !.listed = TRUE, !.task = t]
      BY <2>2 DEF Fold
    <3>2. t \in DOMAIN tasks /\ tasks[t].open
      BY <3>1 DEF OpenTask
    <3>a. tasks[t] \in TaskRow
      BY <2>0, <3>2
    <3>3. PICK new \in TaskRow : new = [tasks[t] EXCEPT !.members = @ \cup job.flagged]
      BY <2>0, <3>a DEF TaskRow
    <3>4. new.open = tasks[t].open /\ new.members = tasks[t].members \cup job.flagged
      BY <3>a, <3>3 DEF TaskRow
    <3>5. tasks' = [tasks EXCEPT ![t] = new]
      BY <2>0, <3>1, <3>2, <3>3
    <3>6. tasks' \in Seq(TaskRow) /\ DOMAIN tasks' = DOMAIN tasks /\ tasks'[t] = new
          /\ \A u \in DOMAIN tasks : u # t => tasks'[u] = tasks[u]
      BY <2>0, <3>2, <3>5
    <3> QED
      BY <3>1, <3>2, <3>4, <3>6
  <2> QED
    BY <2>1, <2>2
<1>3. /\ DOMAIN job' = DOMAIN Idle /\ job'.flagged = job.flagged /\ job'.phase = "link"
      /\ job'.task = t
  BY <1>2, JobFacts DEF Idle
<1>a. \A i \in DOMAIN lines : Landed("run", i)' = Landed("run", i)
  BY <1>1 DEF Landed, Over
<1>4. Shapes' /\ OwnColumns'
  BY <1>1, <1>2, <1>3 DEF IInv, Shapes, TaskRow, OwnColumns
<1>5. ClaimsHold'
  BY <1>1, <1>2, <1>a DEF IInv, ClaimsHold, Claim
<1>6. FlaggedAreKnown' /\ UnsureStays' /\ ConfirmedByEdit'
  BY <1>1, <1>3, <1>a DEF IInv, FlaggedAreKnown, UnsureStays, ConfirmedByEdit, Open
<1>7. TaskIsReady' /\ ListedIsTrue'
  BY <1>2, <1>3 DEF TaskIsReady, ListedIsTrue
<1> QED
  BY <1>4, <1>5, <1>6, <1>7 DEF IInv

LEMMA LinkIInv == ASSUME IInv, ~Open("run"), Link PROVE IInv'
<1> DEFINE linked(k) == [rows[k] EXCEPT !.task = job.task]
           sets == [k \in {k \in job.flagged : ~rows[k].locked} |-> Changed(rows[k], linked(k))]
<1>1. /\ job.phase = "link" /\ UNCHANGED <<lines, rows, tasks, pending, edits>>
      /\ Opens("run", sets, {})
      /\ job' = [Idle EXCEPT !.listed = job.listed]
  BY DEF Link
<1>2. DOMAIN job' = DOMAIN Idle /\ job'.flagged = {} /\ job'.phase = "idle" /\ job'.listed = job.listed
  BY <1>1 DEF Idle
<1>3. \A k \in DOMAIN sets : k \in job.flagged /\ sets[k] = Changed(rows[k], linked(k))
  OBVIOUS
<1>4. ASSUME NEW k \in DOMAIN lines
      PROVE  /\ DOMAIN Changed(rows[k], linked(k)) \subseteq {"task"}
             /\ \A f \in DOMAIN Changed(rows[k], linked(k)) : Changed(rows[k], linked(k))[f] = job.task
  <2>1. DOMAIN rows[k] = DOMAIN NoRow
    BY DEF IInv, Shapes
  <2> QED
    BY <2>1, RowColumns DEF Changed
<1>5. job.flagged \subseteq DOMAIN lines
  BY JobFacts
<1> HIDE DEF sets, linked
<1>6. /\ DOMAIN session' = Sessions /\ session'["run"].tells = {}
      /\ \A t \in Sessions : t # "run" => session'[t] = session[t]
      /\ \A k \in DOMAIN session'["run"].sets : k \in DOMAIN sets /\ session'["run"].sets[k] = sets[k]
  <2>1. Shapes /\ "run" \in Sessions
    BY DEF IInv, Sessions
  <2> QED
    BY <1>1, <2>1, OpensFacts
<1>7. \A k \in DOMAIN session'["run"].sets :
        /\ k \in job.flagged /\ DOMAIN session'["run"].sets[k] \subseteq {"task"}
        /\ \A f \in DOMAIN session'["run"].sets[k] : session'["run"].sets[k][f] = job.task
  BY <1>3, <1>4, <1>5, <1>6
<1>8. ASSUME NEW i \in DOMAIN lines
      PROVE  /\ Landed("run", i)'.tier = rows[i].tier /\ Landed("run", i)'.status = rows[i].status
             /\ Landed("run", i)'.task = rows[i].task \/ (i \in job.flagged /\ Landed("run", i)'.task = job.task)
  <2>1. CASE i \notin DOMAIN session'["run"].sets
    BY <1>1, <2>1 DEF Landed
  <2>2. CASE i \in DOMAIN session'["run"].sets
    <3>1. Landed("run", i)' = Over(session'["run"].sets[i], rows[i])
      BY <1>1, <2>2 DEF Landed
    <3> QED
      BY <1>7, <2>2, <3>1, RowColumns DEF Over
  <2> QED
    BY <2>1, <2>2
<1>9. Shapes'
  BY <1>1, <1>2, <1>6 DEF IInv, Shapes, TaskRow
<1>10. OwnColumns'
  <2> SUFFICES ASSUME NEW s \in Sessions, NEW i \in DOMAIN lines, i \in DOMAIN session'[s].sets
               PROVE  /\ s # "desk" => "locked" \notin DOMAIN session'[s].sets[i]
                      /\ s # "run" => "tier" \notin DOMAIN session'[s].sets[i] /\ "task" \notin DOMAIN session'[s].sets[i]
    BY <1>1 DEF OwnColumns
  <2>1. CASE s = "run"
    BY <1>7, <2>1
  <2>2. CASE s # "run"
    BY <1>6, <2>2 DEF IInv, OwnColumns
  <2> QED
    BY <2>1, <2>2
<1>11. ClaimsHold'
  BY <1>1, <1>8 DEF IInv, ClaimsHold, Claim, TaskIsReady
<1>a. \A i \in DOMAIN lines : rows[i].tier = Landed("run", i).tier /\ rows[i].status = Landed("run", i).status
  <2>1. \A i : i \notin DOMAIN session["run"].sets
    BY DEF Open, Closed
  <2> QED
    BY <2>1 DEF Landed
<1>12. FlaggedAreKnown' /\ TaskIsReady'
  BY <1>2 DEF FlaggedAreKnown, TaskIsReady
<1>14. ListedIsTrue' /\ UnsureStays'
  BY <1>1, <1>2, <1>8, <1>a DEF IInv, FlaggedAreKnown, TaskIsReady, ListedIsTrue, UnsureStays, Listed
<1>13. ConfirmedByEdit'
  BY <1>1, <1>6 DEF IInv, ConfirmedByEdit, Open, Sessions
<1> QED
  BY <1>9, <1>10, <1>11, <1>12, <1>13, <1>14 DEF IInv

-----------------------------------------------------------------------------
\* A session of the reviewer, or of a confirmation on its way, opens.
LEMMA HandOpens ==
  ASSUME IInv, UNCHANGED <<lines, rows, tasks, job>>, edits' \in Nat, edits' > 0,
         NEW s \in {"desk", "word"}, NEW sets, NEW tells, Opens(s, sets, tells),
         \A i \in DOMAIN lines \cap DOMAIN sets :
           /\ "tier" \notin DOMAIN sets[i] /\ "task" \notin DOMAIN sets[i]
           /\ s = "word" => "locked" \notin DOMAIN sets[i]
  PROVE  IInv'
<1>1. /\ DOMAIN session' = Sessions /\ session'["run"] = session["run"]
      /\ \A t \in Sessions : t # s => session'[t] = session[t]
      /\ \A i \in DOMAIN session'[s].sets : i \in DOMAIN sets /\ session'[s].sets[i] = sets[i]
  <2>1. Shapes /\ s \in Sessions /\ "run" \in Sessions
    BY DEF IInv, Sessions
  <2> QED
    BY <2>1, OpensFacts
<1>2. Shapes'
  BY <1>1 DEF IInv, Shapes, TaskRow
<1>3. OwnColumns'
  BY <1>1 DEF IInv, OwnColumns
<1>4. \A i \in DOMAIN lines : Landed("run", i)' = Landed("run", i)
  BY <1>1 DEF Landed, Over
<1>5. ClaimsHold'
  BY <1>4 DEF IInv, ClaimsHold, Claim
<1>6. FlaggedAreKnown' /\ TaskIsReady' /\ ListedIsTrue'
  BY <1>4 DEF IInv, FlaggedAreKnown, TaskIsReady, ListedIsTrue, Listed
<1>7. UnsureStays' /\ ConfirmedByEdit'
  BY DEF UnsureStays, ConfirmedByEdit
<1> QED
  BY <1>2, <1>3, <1>5, <1>6, <1>7 DEF IInv

LEMMA EditIInv == ASSUME IInv, NEW i \in DOMAIN lines, NEW e \in Edits, Edit(i, e) PROVE IInv'
<1> DEFINE who == IF e.set THEN e.who ELSE rows[i].who
           status == IF e.status = "" THEN rows[i].status ELSE e.status
           locked == IF e.lock = {} THEN rows[i].locked ELSE TRUE \in e.lock
           row == [rows[i] EXCEPT !.who = who, !.status = status, !.locked = locked]
           sets == [k \in {i} |-> Changed(rows[k], row)]
<1>1. PICK tells : Opens("desk", sets, tells)
  BY Zenon DEF Edit
<1> HIDE DEF who, status, locked
<1>2. UNCHANGED <<lines, rows, tasks, job>> /\ edits' = edits + 1
  BY DEF Edit
<1>3. edits' \in Nat /\ edits' > 0
  BY <1>2 DEF IInv, Shapes
<1>4. ASSUME NEW k \in DOMAIN lines \cap DOMAIN sets
      PROVE  "tier" \notin DOMAIN sets[k] /\ "task" \notin DOMAIN sets[k]
  <2>1. k = i /\ DOMAIN rows[i] = DOMAIN NoRow
    BY DEF IInv, Shapes
  <2> QED
    BY <2>1, RowColumns DEF Changed
<1>5. Opens("desk", sets, tells)
  BY <1>1
<1> HIDE DEF sets
<1> QED
  BY <1>2, <1>3, <1>4, <1>5, HandOpens

LEMMA PropagateIInv == ASSUME IInv, NEW p \in pending, Propagate(p) PROVE IInv'
<1> DEFINE takes(i) == /\ Exists(i) /\ i # p.from /\ ~rows[i].locked /\ rows[i].name = p.name
                       /\ rows[i].who = Nobody \/ rows[i].status = "needs_review"
           taught(i) == [rows[i] EXCEPT !.who = p.who, !.status = "approved", !.sure = Greater(@, NarrationSure)]
           sets == [i \in {k \in DOMAIN lines : takes(k)} |-> Noted(rows[i], taught(i))]
<1>1. UNCHANGED <<lines, rows, tasks, job, edits>> /\ Opens("word", sets, {})
  BY DEF Propagate
<1>2. edits' \in Nat /\ edits' > 0
  BY <1>1 DEF IInv, Shapes, ConfirmedByEdit
<1>3. ASSUME NEW k \in DOMAIN lines \cap DOMAIN sets
      PROVE  "tier" \notin DOMAIN sets[k] /\ "task" \notin DOMAIN sets[k] /\ "locked" \notin DOMAIN sets[k]
  <2>1. DOMAIN rows[k] = DOMAIN NoRow /\ sets[k] = Noted(rows[k], taught(k))
    BY DEF IInv, Shapes
  <2>2. \A f \in {"tier", "task", "locked"} : taught(k)[f] = rows[k][f]
    BY <2>1, RowColumns
  <2> HIDE DEF taught, sets
  <2>3. \A f \in {"tier", "task", "locked"} : f \notin DOMAIN Noted(rows[k], taught(k))
    BY <2>2 DEF Noted, Changed
  <2> QED
    BY <2>1, <2>3
<1> HIDE DEF sets
<1> QED
  BY <1>1, <1>2, <1>3, HandOpens

LEMMA SettleIInv == ASSUME IInv, NEW t \in DOMAIN tasks, NEW open \in BOOLEAN, SettleTask(t, open) PROVE IInv'
<1>0. tasks \in Seq(TaskRow)
  BY DEF IInv, Shapes
<1>1. /\ UNCHANGED <<lines, rows, session, pending>> /\ edits' = edits + 1
      /\ tasks' = [tasks EXCEPT ![t].open = open]
      /\ job' = [job EXCEPT !.listed = FALSE]
  BY DEF SettleTask
<1>a. tasks[t] \in TaskRow
  BY <1>0
<1>b. [tasks[t] EXCEPT !.open = TRUE] \in TaskRow /\ [tasks[t] EXCEPT !.open = FALSE] \in TaskRow
  BY <1>a DEF TaskRow
<1>c. [tasks[t] EXCEPT !.open = open].members = tasks[t].members
  BY <1>a DEF TaskRow
<1>2. PICK new \in TaskRow : new = [tasks[t] EXCEPT !.open = open] /\ new.members = tasks[t].members
  <2>1. [tasks[t] EXCEPT !.open = open] \in TaskRow
    <3>1. CASE open = TRUE
      BY <1>b, <3>1
    <3>2. CASE open = FALSE
      BY <1>b, <3>2
    <3> QED
      BY <3>1, <3>2
  <2> QED
    BY <1>c, <2>1
<1>3. tasks' = [tasks EXCEPT ![t] = new]
  BY <1>0, <1>1, <1>2
<1>4. /\ tasks' \in Seq(TaskRow) /\ DOMAIN tasks' = DOMAIN tasks
      /\ \A u \in DOMAIN tasks : tasks'[u].members = tasks[u].members
  BY <1>0, <1>2, <1>3
<1>5. DOMAIN job' = DOMAIN Idle /\ job'.phase = job.phase /\ job'.flagged = job.flagged /\ job'.task = job.task /\ ~job'.listed
  BY <1>1, JobFacts DEF Idle
<1>6. edits' \in Nat /\ edits' > 0
  BY <1>1 DEF IInv, Shapes
<1>a1. \A i \in DOMAIN lines : Landed("run", i)' = Landed("run", i)
  BY <1>1 DEF Landed, Over
<1>7. Shapes' /\ OwnColumns'
  BY <1>1, <1>4, <1>5, <1>6 DEF IInv, Shapes, TaskRow, OwnColumns
<1>8. ClaimsHold'
  BY <1>1, <1>4, <1>a1 DEF IInv, ClaimsHold, Claim
<1>9. FlaggedAreKnown' /\ TaskIsReady' /\ ListedIsTrue'
  BY <1>1, <1>4, <1>5, <1>a1 DEF IInv, FlaggedAreKnown, TaskIsReady, ListedIsTrue
<1>10. UnsureStays' /\ ConfirmedByEdit'
  BY <1>6 DEF UnsureStays, ConfirmedByEdit
<1> QED
  BY <1>7, <1>8, <1>9, <1>10 DEF IInv

-----------------------------------------------------------------------------
LEMMA CommitRows ==
  ASSUME IInv, NEW s \in Sessions, Commit(s)
  PROVE  /\ DOMAIN rows' = DOMAIN lines /\ \A i \in DOMAIN lines : rows'[i] = Landed(s, i)
         /\ UNCHANGED <<lines, tasks, job, edits>>
         /\ DOMAIN session' = Sessions /\ \A t \in Sessions : t # s => session'[t] = session[t]
         /\ session'[s] = Closed /\ session'[s].sets = [i \in {} |-> NoRow] /\ session'[s].tells = {}
         /\ \A i \in DOMAIN lines : DOMAIN rows'[i] = DOMAIN NoRow
<1>1. /\ DOMAIN session' = Sessions /\ \A t \in Sessions : t # s => session'[t] = session[t]
      /\ session'[s] = Closed
  BY DEF Commit, IInv, Shapes
<1>2. \A i \in DOMAIN lines : DOMAIN Landed(s, i) = DOMAIN NoRow
  BY LandedFacts DEF IInv
<1> QED
  BY <1>1, <1>2 DEF Commit, Closed

\* The columns of the run's own stay what its session makes of them, whichever
\* session commits.
LEMMA CommitKeepsRun ==
  ASSUME IInv, NEW s \in Sessions, Commit(s), NEW i \in DOMAIN lines
  PROVE  /\ s = "run" => rows'[i] = Landed("run", i) /\ Landed("run", i)' = Landed("run", i)
         /\ s # "run" =>
              /\ rows'[i].task = rows[i].task
              /\ Landed("run", i)'.tier = Landed("run", i).tier
              /\ Landed("run", i)'.task = Landed("run", i).task
<1>1. CASE s = "run"
  <2>1. i \notin DOMAIN session'["run"].sets
    BY <1>1, CommitRows
  <2> QED
    BY <1>1, <2>1, CommitRows DEF Landed
<1>2. CASE s # "run"
  <2>1. session'["run"] = session["run"] /\ rows'[i] = Landed(s, i)
    BY <1>2, CommitRows DEF Sessions
  <2>2. i \in DOMAIN session[s].sets => "tier" \notin DOMAIN session[s].sets[i] /\ "task" \notin DOMAIN session[s].sets[i]
    BY <1>2 DEF IInv, OwnColumns
  <2>3. rows'[i].tier = rows[i].tier /\ rows'[i].task = rows[i].task
    BY <2>1, <2>2, RowColumns DEF Landed, Over
  <2> QED
    BY <1>2, <2>1, <2>3, RowColumns DEF Landed, Over
<1> QED
  BY <1>1, <1>2

LEMMA CommitIInv == ASSUME IInv, NEW s \in Sessions, Commit(s) PROVE IInv'
<1>1. UNCHANGED <<lines, tasks, job, edits>>
  BY CommitRows
<1>2. Shapes'
  <2>1. \/ s = "run" /\ session'["run"].tells = {}
        \/ s # "run" /\ session'["run"] = session["run"]
    BY CommitRows DEF Sessions
  <2> QED
    BY <1>1, <2>1, CommitRows DEF IInv, Shapes, TaskRow
<1>3. OwnColumns'
  BY CommitRows DEF IInv, OwnColumns
<1>4. \A i \in DOMAIN lines : Landed("run", i)'.tier = Landed("run", i).tier
  BY CommitKeepsRun
<1>5. ClaimsHold'
  BY <1>1, CommitKeepsRun DEF IInv, ClaimsHold, Claim
<1>6. FlaggedAreKnown' /\ TaskIsReady' /\ ListedIsTrue'
  BY <1>1, <1>4 DEF IInv, FlaggedAreKnown, TaskIsReady, ListedIsTrue, Listed
<1>7. s # "run" => edits > 0
  BY DEF Commit, IInv, ConfirmedByEdit, Sessions
<1>8. s = "run" => \A i \in DOMAIN lines : Landed("run", i)' = Landed("run", i)
  BY CommitKeepsRun
<1>9. edits \in Nat
  BY DEF IInv, Shapes
<1>10. UnsureStays'
  <2>1. CASE s = "run"
    BY <1>1, <1>8, <2>1 DEF IInv, UnsureStays
  <2>2. CASE s # "run"
    BY <1>1, <1>7, <1>9, <2>2 DEF UnsureStays
  <2> QED
    BY <2>1, <2>2
<1>11. ConfirmedByEdit'
  <2>1. CASE edits > 0
    BY <1>1, <2>1 DEF ConfirmedByEdit
  <2>2. CASE ~(edits > 0)
    <3>1. s = "run" /\ pending = {} /\ ~Open("desk") /\ ~Open("word")
      BY <1>7, <2>2 DEF IInv, ConfirmedByEdit
    <3>2. session'["desk"] = session["desk"] /\ session'["word"] = session["word"]
      BY <3>1, CommitRows DEF Sessions
    <3>3. session["run"].tells = {}
      BY <2>2 DEF IInv, Shapes
    <3> QED
      BY <3>1, <3>2, <3>3 DEF Commit, ConfirmedByEdit, Open
  <2> QED
    BY <2>1, <2>2
<1> QED
  BY <1>2, <1>3, <1>5, <1>6, <1>10, <1>11 DEF IInv

LEMMA NextIInv == IInv /\ [Next]_vars => IInv'
<1> SUFFICES ASSUME IInv, [Next]_vars PROVE IInv'
  OBVIOUS
<1>1. CASE UNCHANGED vars
  BY <1>1 DEF vars, IInv, Shapes, TaskRow, ClaimsHold, FlaggedAreKnown, TaskIsReady, ListedIsTrue, Listed,
              UnsureStays, ConfirmedByEdit, OwnColumns, Claim, Landed, Over, Open
<1>2. CASE Run
  BY <1>2, StartIInv, RuleIInv, ReadIInv, CircuitIInv, AskV1IInv, AskV2IInv, ApplyIInv, ReduceIInv, TierIInv,
     FoldIInv, LinkIInv DEF Run
<1>3. CASE Next /\ ~Run
  BY <1>3, StopIInv, CommitIInv, EditIInv, PropagateIInv, SettleIInv DEF Next
<1> QED
  BY <1>1, <1>2, <1>3

\* The claims of rows on tasks, and what a run says of its tasks, hold in every
\* reachable state.
THEOREM Invariance == Spec => []IInv
<1>1. Init => IInv
  BY InitIInv
<1>2. IInv /\ [Next]_vars => IInv'
  BY NextIInv
<1> QED
  BY <1>1, <1>2, PTL DEF Spec

\* What the tiers find unsure is listed in an open task and stays unapproved
\* until somebody confirms it (ConfidenceReviewService.apply, fold_review_task).
THEOREM UnsureRowsAreQueued == Spec => []UnsureIsQueued
<1>1. IInv => UnsureIsQueued
  <2> SUFFICES ASSUME IInv PROVE UnsureIsQueued
    OBVIOUS
  <2>1. \A i \in DOMAIN lines : rows[i].task # 0 => i \in tasks[rows[i].task].members
    BY DEF IInv, ClaimsHold, Claim
  <2>2. ASSUME job.phase = "idle", job.listed, ~Open("run"), NEW i \in DOMAIN lines, rows[i].tier = "flag"
        PROVE  /\ \E t \in DOMAIN tasks : tasks[t].open /\ i \in tasks[t].members
               /\ edits = 0 => rows[i].status = "needs_review"
    <3>1. Landed("run", i) = rows[i]
      <4>1. i \notin DOMAIN session["run"].sets
        BY <2>2 DEF Open, Closed
      <4> QED
        BY <4>1 DEF Landed
    <3> QED
      BY <2>2, <3>1 DEF IInv, ListedIsTrue, Listed, UnsureStays
  <2> QED
    BY <2>1, <2>2 DEF UnsureIsQueued
<1> QED
  BY <1>1, Invariance, PTL
-----------------------------------------------------------------------------
LockStep ==
  \A i \in DOMAIN lines : Settled(i) /\ ~ByReviewer => Settled(i)' /\ Written(rows'[i]) = Written(rows[i])

\* What a decision consists of.
Decided == {"who", "name", "sure", "tally", "method", "status"}

LEMMA WrittenFacts ==
  ASSUME NEW a, NEW b
  PROVE  Written(a) = Written(b) <=> \A f \in Decided : a[f] = b[f]
<1>1. Written(a) = Written(b) => \A f \in Decided : a[f] = b[f]
  <2> SUFFICES ASSUME Written(a) = Written(b) PROVE \A f \in Decided : a[f] = b[f]
    OBVIOUS
  <2>1. /\ Written(a).who = a.who /\ Written(a).name = a.name /\ Written(a).sure = a.sure
        /\ Written(a).tally = a.tally /\ Written(a).method = a.method /\ Written(a).status = a.status
    BY DEF Written
  <2>2. /\ Written(b).who = b.who /\ Written(b).name = b.name /\ Written(b).sure = b.sure
        /\ Written(b).tally = b.tally /\ Written(b).method = b.method /\ Written(b).status = b.status
    BY DEF Written
  <2> QED
    BY <2>1, <2>2 DEF Decided
<1>2. (\A f \in Decided : a[f] = b[f]) => Written(a) = Written(b)
  BY DEF Decided, Written
<1> QED
  BY <1>1, <1>2

\* A session that leaves the decision of a locked row leaves it settled.
LEMMA KeepsSettled ==
  ASSUME IInv, NEW i \in DOMAIN lines, Settled(i), rows' = rows,
         \A s \in {"run", "word"} :
           session'[s] = session[s] \/ \A f \in Decided : Landed(s, i)'[f] = rows[i][f]
  PROVE  Settled(i)' /\ Written(rows'[i]) = Written(rows[i])
<1>1. ASSUME NEW s \in {"run", "word"} PROVE Written(Landed(s, i)') = Written(rows'[i])
  <2>1. CASE session'[s] = session[s]
    <3>1. Landed(s, i)' = Landed(s, i)
      BY <2>1 DEF Landed, Over
    <3>2. Written(Landed(s, i)) = Written(rows[i])
      BY DEF Settled, Sessions
    <3> QED
      BY <3>1, <3>2
  <2>2. CASE \A f \in Decided : Landed(s, i)'[f] = rows[i][f]
    BY <2>2, WrittenFacts
  <2> QED
    BY <2>1, <2>2
<1> QED
  BY <1>1 DEF Settled, Sessions

LEMMA UpsertKeepsLocks ==
  ASSUME IInv, UNCHANGED <<lines, rows>>, NEW k, NEW r, Upsert(k, r)
  PROVE  LockStep
<1> SUFFICES ASSUME NEW i \in DOMAIN lines, Settled(i)
             PROVE  Settled(i)' /\ Written(rows'[i]) = Written(rows[i])
  BY DEF LockStep
<1>1. i \notin DOMAIN session'["run"].sets /\ session'["word"] = session["word"]
  BY UpsertFacts DEF IInv, Settled, Sessions
<1>2. Landed("run", i)' = rows[i]
  BY <1>1 DEF Landed
<1> QED
  BY <1>1, <1>2, KeepsSettled

LEMMA TierKeepsLocks == ASSUME IInv, Tier PROVE LockStep
<1> SUFFICES ASSUME NEW i \in DOMAIN lines, Settled(i)
             PROVE  Settled(i)' /\ Written(rows'[i]) = Written(rows[i])
  BY DEF LockStep
<1>1. \A f \in Decided : Tiered(rows[i])[f] = rows[i][f]
  BY TieredFacts, RowColumns DEF IInv, Settled, Decided
<1>2. \A f \in Decided : Landed("run", i)'[f] = rows[i][f]
  BY <1>1, TierLands, RowColumns DEF Decided
<1>3. rows' = rows /\ session'["word"] = session["word"]
  BY TierColumns DEF Tier, Sessions
<1> QED
  BY <1>2, <1>3, KeepsSettled

LEMMA LinkKeepsLocks == ASSUME IInv, Link PROVE LockStep
<1> SUFFICES ASSUME NEW i \in DOMAIN lines, Settled(i)
             PROVE  Settled(i)' /\ Written(rows'[i]) = Written(rows[i])
  BY DEF LockStep
<1> DEFINE sets == [k \in {k \in job.flagged : ~rows[k].locked} |->
                     Changed(rows[k], [rows[k] EXCEPT !.task = job.task])]
<1>1. Opens("run", sets, {}) /\ rows' = rows /\ Shapes /\ "run" \in Sessions
  BY DEF Link, IInv, Sessions
<1>2. i \notin DOMAIN sets
  BY DEF Settled
<1> HIDE DEF sets
<1>3. i \notin DOMAIN session'["run"].sets /\ session'["word"] = session["word"]
  BY <1>1, <1>2, OpensFacts DEF Sessions
<1>4. Landed("run", i)' = rows[i]
  BY <1>1, <1>3 DEF Landed
<1> QED
  BY <1>1, <1>3, <1>4, KeepsSettled

LEMMA PropagateKeepsLocks == ASSUME IInv, NEW p \in pending, Propagate(p) PROVE LockStep
<1> SUFFICES ASSUME NEW i \in DOMAIN lines, Settled(i)
             PROVE  Settled(i)' /\ Written(rows'[i]) = Written(rows[i])
  BY DEF LockStep
<1>1. PICK sets :
        /\ Opens("word", sets, {}) /\ i \notin DOMAIN sets
  <2> DEFINE takes(k) == /\ Exists(k) /\ k # p.from /\ ~rows[k].locked /\ rows[k].name = p.name
                         /\ rows[k].who = Nobody \/ rows[k].status = "needs_review"
             sets == [k \in {k \in DOMAIN lines : takes(k)} |->
                       Noted(rows[k], [rows[k] EXCEPT !.who = p.who, !.status = "approved",
                                                      !.sure = Greater(@, NarrationSure)])]
  <2>1. Opens("word", sets, {})
    BY DEF Propagate
  <2>2. i \notin DOMAIN sets
    BY DEF Settled
  <2> HIDE DEF sets
  <2> QED
    BY <2>1, <2>2
<1>2. rows' = rows /\ Shapes /\ "word" \in Sessions
  BY DEF Propagate, IInv, Sessions
<1>3. i \notin DOMAIN session'["word"].sets /\ session'["run"] = session["run"]
  BY <1>1, <1>2, OpensFacts DEF Sessions
<1>4. Landed("word", i)' = rows[i]
  BY <1>2, <1>3 DEF Landed
<1> QED
  BY <1>2, <1>3, <1>4, KeepsSettled

\* A commit writes to a settled row what its decision already is.
LEMMA CommitKeepsLocks == ASSUME IInv, NEW s \in Sessions, Commit(s) PROVE LockStep
<1> SUFFICES ASSUME NEW i \in DOMAIN lines, Settled(i), ~ByReviewer
             PROVE  Settled(i)' /\ Written(rows'[i]) = Written(rows[i])
  BY DEF LockStep
<1>1. s \in {"run", "word"}
  BY CommitRows DEF Commit, ByReviewer, Sessions
<1>2. rows'[i] = Landed(s, i) /\ Written(Landed(s, i)) = Written(rows[i])
  BY <1>1, CommitRows DEF Settled, Sessions
<1>3. \A f \in Decided : rows'[i][f] = rows[i][f]
  BY <1>2, WrittenFacts
<1>4. rows'[i].locked = rows[i].locked
  <2>1. i \in DOMAIN session[s].sets => "locked" \notin DOMAIN session[s].sets[i]
    BY <1>1 DEF IInv, OwnColumns
  <2> QED
    BY <1>2, <2>1, RowColumns DEF Landed, Over
<1>5. ASSUME NEW t \in {"run", "word"} PROVE \A f \in Decided : Landed(t, i)'[f] = rows'[i][f]
  <2>1. CASE t = s
    <3>1. i \notin DOMAIN session'[t].sets
      BY <2>1, CommitRows
    <3> QED
      BY <3>1 DEF Landed
  <2>2. CASE t # s
    <3>1. session'[t] = session[t]
      BY <2>2, CommitRows DEF Sessions
    <3>2. \A f \in Decided : Landed(t, i)[f] = rows[i][f]
      BY WrittenFacts DEF Settled, Sessions
    <3>3. CASE i \notin DOMAIN session[t].sets
      BY <3>1, <3>3 DEF Landed
    <3>4. CASE i \in DOMAIN session[t].sets
      <4>1. /\ Landed(t, i)' = Over(session[t].sets[i], rows'[i])
            /\ Landed(t, i) = Over(session[t].sets[i], rows[i])
        BY <3>1, <3>4 DEF Landed
      <4> QED
        BY <1>3, <3>2, <4>1, RowColumns DEF Over, Decided
    <3> QED
      BY <3>3, <3>4
  <2> QED
    BY <2>1, <2>2
<1>6. \A t \in {"run", "word"} : Written(Landed(t, i)') = Written(rows'[i])
  BY <1>5, WrittenFacts
<1> QED
  BY <1>2, <1>4, <1>6 DEF Settled, Sessions

\* Steps that leave the rows, and the sessions that write to them.
LEMMA OthersKeepLocks ==
  ASSUME IInv, UNCHANGED <<lines, rows>>, session'["word"] = session["word"],
         session'["run"] \in {session["run"], Closed}
  PROVE  LockStep
<1> SUFFICES ASSUME NEW i \in DOMAIN lines, Settled(i)
             PROVE  Settled(i)' /\ Written(rows'[i]) = Written(rows[i])
  BY DEF LockStep
<1>1. CASE session'["run"] = session["run"]
  BY <1>1, KeepsSettled
<1>2. CASE session'["run"] = Closed
  <2>1. i \notin DOMAIN session'["run"].sets
    BY <1>2 DEF Closed
  <2>2. Landed("run", i)' = rows[i]
    BY <2>1 DEF Landed
  <2> QED
    BY <2>2, KeepsSettled
<1> QED
  BY <1>1, <1>2

LEMMA NextKeepsLocks == IInv /\ [Next]_vars => LockStep
<1> SUFFICES ASSUME IInv, [Next]_vars PROVE LockStep
  OBVIOUS
<1>1. CASE UNCHANGED <<lines, rows, session>>
  BY <1>1, OthersKeepLocks
<1>2. CASE Rule
  BY <1>2, UpsertKeepsLocks DEF Rule
<1>3. CASE Circuit
  BY <1>1, <1>3, UpsertKeepsLocks DEF Circuit
<1>4. CASE Apply
  BY <1>1, <1>4, UpsertKeepsLocks DEF Apply
<1>5. CASE Tier \/ Link \/ \E p \in pending : Propagate(p)
  BY <1>5, TierKeepsLocks, LinkKeepsLocks, PropagateKeepsLocks
<1>6. CASE \E s \in Sessions : Commit(s)
  BY <1>6, CommitKeepsLocks
<1>7. CASE Stop
  BY <1>7, OthersKeepLocks DEF Stop, IInv, Shapes, Sessions
<1>8. CASE \E i \in DOMAIN lines, e \in Edits : Edit(i, e)
  <2>1. PICK sets, tells : Opens("desk", sets, tells)
    BY Zenon, <1>8 DEF Edit
  <2>2. Shapes /\ "desk" \in Sessions /\ UNCHANGED <<lines, rows>>
    BY <1>8 DEF IInv, Sessions, Edit
  <2>3. session'["word"] = session["word"] /\ session'["run"] = session["run"]
    BY <2>1, <2>2, OpensFacts DEF Sessions
  <2> QED
    BY <2>2, <2>3, OthersKeepLocks
<1>9. CASE Read \/ Reduce \/ Fold \/ (\E m \in Modes : Start(m))
           \/ \E t \in DOMAIN tasks, open \in BOOLEAN : SettleTask(t, open)
  BY <1>1, <1>9 DEF Read, Reduce, Fold, Start, SettleTask
<1>10. CASE AskV1
  BY <1>1, <1>10 DEF AskV1
<1>11. CASE AskV2
  BY <1>1, <1>11 DEF AskV2
<1> QED
  BY <1>1, <1>2, <1>3, <1>4, <1>5, <1>6, <1>7, <1>8, <1>9, <1>10, <1>11 DEF Next, Run, vars

\* Once a row is locked and no session that read it before is still to write,
\* it changes only by a reviewer, whatever snapshot or plan the run works from
\* (upsert, apply, propagate_confirmation).
THEOREM LocksHold == Spec => LockHolds
<1>1. IInv /\ [Next]_vars => LockStep
  BY NextKeepsLocks
<1>2. [Next]_vars /\ LockStep =>
        [\A i \in DOMAIN lines :
           Settled(i) /\ ~ByReviewer => Settled(i)' /\ Written(rows'[i]) = Written(rows[i])]_vars
  BY DEF LockStep
<1> QED
  BY <1>1, <1>2, Invariance, PTL DEF Spec, LockHolds
=============================================================================
