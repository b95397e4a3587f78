---------------------------- MODULE SpeakerDesk ----------------------------
(***************************************************************************)
(* Speaker attribution at work: a run writes a row for every line, asks    *)
(* the model about some, repairs what breaks an alternation and queues     *)
(* what stays unsure, while a reviewer edits, locks and confirms rows and  *)
(* closes review tasks.  A session that changes attributions is two steps: *)
(* it reads rows without a transaction, and later commits the columns it   *)
(* has changed, whatever became of the rows in between.  Any step of a run *)
(* may be its last one (an exception, or the end of the process).          *)
(***************************************************************************)
EXTENDS SpeakerRules

CONSTANTS
  Books,         \* the sequences of lines a project may have
  Cast0,         \* the characters known at first
  Ballots,       \* the answers v2 may get about one line, the first one first
  Replies,       \* the answers v1 may get: [name, by, sure]
  Edits,         \* what a reviewer may ask for: [set, who, status, lock]
  Modes,         \* of "none", "v1", "v2": what runs ask the model for
  ConfidenceV2,  \* whether the tiers are applied
  Budgets        \* [runs, edits]: how often people run it and edit

VARIABLES
  lines,     \* the book
  cast,      \* the characters, in the order they were made
  rows,      \* line |-> its attribution
  tasks,     \* the grouped review tasks: [open, members]
  job,       \* the run
  session,   \* the sessions that have read and not committed: what they will write
  pending,   \* confirmations that are still to reach the other rows
  left,      \* the runs and edits still to come
  edits

vars == <<lines, cast, rows, tasks, job, session, pending, left, edits>>

NoRow == [who |-> Nobody, name |-> "", sure |-> 0, tally |-> <<>>, method |-> "", status |-> "",
          locked |-> FALSE, tier |-> "none", task |-> 0]
Idle == [phase |-> "idle", mode |-> "none", at |-> 0, index |-> <<>>, seen |-> <<>>, targets |-> <<>>,
         plan |-> <<>>, flagged |-> {}, task |-> 0, listed |-> FALSE]

Exists(i) == rows[i] # NoRow

\* The run has one session at a time, so has the reviewer, and so have the
\* confirmations on their way to other rows.
Sessions == {"run", "desk", "word"}
Closed == [sets |-> [i \in {} |-> NoRow], tells |-> {}]
Open(s) == session[s] # Closed

Init ==
  /\ lines \in Books
  /\ cast = Cast0
  /\ rows = [i \in DOMAIN lines |-> NoRow]
  /\ tasks = <<>>
  /\ job = Idle
  /\ session = [s \in Sessions |-> Closed]
  /\ pending = {}
  /\ left \in Budgets
  /\ edits = 0

\* The columns that differ from what was read, the only ones a commit writes.
Changed(was, new) == [f \in {f \in DOMAIN NoRow : new[f] # was[f]} |-> new[f]]

\* The same where the evidence, which holds the tally, is written anew.
Noted(was, new) ==
  LET columns == DOMAIN Changed(was, new)
  IN [f \in IF columns = {} THEN {} ELSE columns \cup {"tally"} |-> new[f]]

\* A session ends its reading: these columns of these rows are to be written.
Opens(s, sets, tells) ==
  session' = [session EXCEPT ![s] =
             [sets |-> [i \in {k \in DOMAIN sets : DOMAIN sets[k] # {}} |-> sets[i]], tells |-> tells]]

Over(written, row) == [f \in DOMAIN NoRow |-> IF f \in DOMAIN written THEN written[f] ELSE row[f]]

\* Line i as it is once session s has committed.
Landed(s, i) == IF i \in DOMAIN session[s].sets THEN Over(session[s].sets[i], rows[i]) ELSE rows[i]

Commit(s) ==
  /\ Open(s)
  /\ rows' = [i \in DOMAIN lines |-> Landed(s, i)]
  /\ pending' = pending \cup session[s].tells
  /\ session' = [session EXCEPT ![s] = Closed]
  /\ UNCHANGED <<lines, cast, tasks, job, left, edits>>

\* What upsert sets in a row; its lock, tier and task stay.
Assigned(row, r) ==
  [row EXCEPT !.who = r.who, !.name = r.name, !.sure = r.sure, !.tally = r.tally,
              !.method = r.method, !.status = r.status]

\* Variant of Upsert: the lock is not looked at again.
UpsertAnyway(i, r) == Opens("run", [k \in {i} |-> Noted(rows[k], Assigned(rows[k], r))], {})

\* SpeakerAttributionRepository.upsert up to its commit: a row that it finds
\* locked stays as it is.
Upsert(i, r) ==
  Opens("run", [k \in {l \in {i} : ~rows[l].locked} |-> Noted(rows[k], Assigned(rows[k], r))], {})

Written(row) == [who |-> row.who, name |-> row.name, sure |-> row.sure, tally |-> row.tally,
                 method |-> row.method, status |-> row.status]

\* The phase behind the model's part.
Closing == IF ConfidenceV2 THEN "tier" ELSE "idle"
-----------------------------------------------------------------------------
(* The deterministic pass *)

Start(mode) ==
  /\ job.phase = "idle" /\ left.runs > 0
  /\ left' = [left EXCEPT !.runs = @ - 1]
  /\ job' = [Idle EXCEPT !.phase = "rules", !.mode = mode, !.at = 1, !.index = CharacterIndex(cast)]
  /\ UNCHANGED <<lines, cast, rows, tasks, session, pending, edits>>

\* generate writes the row of the next line; cast discovery may make the
\* character of a label nobody is known by.
Rule ==
  LET i == job.at
      proposed == [id |-> lines[i].speaker, name |-> lines[i].speaker, aliases |-> {}, gender |-> ""]
      may == Proposes(lines[i], job.index)
  IN /\ job.phase = "rules"
     /\ \E made \in IF may THEN BOOLEAN ELSE {FALSE} :
          LET index == IF made THEN IndexAdd(job.index, proposed) ELSE job.index
              last == i = Len(lines)
          IN /\ cast' = IF made /\ proposed \notin ToSet(cast) THEN Append(cast, proposed) ELSE cast
             /\ Upsert(i, Deterministic(lines, i, index))
             /\ job' = [job EXCEPT !.index = index, !.at = IF last THEN 0 ELSE i + 1,
                          !.phase = CASE ~last -> "rules"
                                      [] last /\ job.mode = "none" -> Closing
                                      [] last /\ job.mode = "v1" -> "ask"
                                      [] OTHER -> "read"]
     /\ UNCHANGED <<lines, rows, tasks, pending, left, edits>>
-----------------------------------------------------------------------------
(* The model *)

\* _apply_local_llm_v2 reads the rows once and goes by them.
Read ==
  /\ job.phase = "read"
  /\ job' = [job EXCEPT !.phase = "circuit", !.seen = rows, !.at = 1]
  /\ UNCHANGED <<lines, cast, rows, tasks, session, pending, left, edits>>

\* What needs no model: an explicit label that is believed, or plain narration.
ShortCircuits(line, row) ==
  \/ line.dialogue /\ line.speaker # "" /\ line.sure >= Sure /\ row.who # Nobody
  \/ ~line.dialogue /\ ~line.quoted

Circuit ==
  LET i == job.at
      row == job.seen[i]
      asks == ~row.locked /\ ~ShortCircuits(lines[i], row)
      targets == IF asks THEN Append(job.targets, i) ELSE job.targets
      last == i = Len(lines)
  IN /\ job.phase = "circuit"
     /\ IF row.locked \/ asks THEN UNCHANGED session
        ELSE Upsert(i, [Written(row) EXCEPT !.method = "det_shortcircuit"])
     /\ job' = [job EXCEPT !.targets = targets, !.at = IF last THEN 0 ELSE i + 1,
                  !.seen = IF last THEN <<>> ELSE @,
                  !.phase = CASE ~last -> "circuit"
                              [] last /\ targets = <<>> -> Closing
                              [] OTHER -> "ask"]
     /\ UNCHANGED <<lines, cast, rows, tasks, pending, left, edits>>

\* A first answer that is sure is the only one asked for.
Counted(votes) == votes # <<>> /\ votes[1].sure >= Mid => Len(votes) = 1

\* Every window is answered or fails; the answers are put in order.
AskV2 ==
  LET windows == SceneContextWindows(lines, job.targets)
      sorted(w) == SetToSortSeq(w.targets, LAMBDA a, b : a < b)
      decided(w, votes) ==
        Flattened([k \in DOMAIN sorted(w) |->
                       <<[line |-> sorted(w)[k], row |-> RowOfDecision(MajorityVote(votes[sorted(w)[k]]), job.index)]>>])
  IN /\ job.phase = "ask" /\ job.mode = "v2"
     /\ \E failed \in SUBSET DOMAIN windows :
        \E votes \in [ToSet(job.targets) -> {b \in Ballots : Counted(b)}] :
          LET heard == UNION {windows[k].targets : k \in DOMAIN windows \ failed}
          IN /\ job' = [job EXCEPT !.phase = "apply", !.targets = <<>>,
                          !.plan = Flattened([k \in DOMAIN windows |->
                                     IF k \in failed THEN <<>> ELSE decided(windows[k], votes)])]
             /\ \A i \in ToSet(job.targets) \ heard : votes[i] = <<>>
     /\ UNCHANGED <<lines, cast, rows, tasks, session, pending, left, edits>>

\* _apply_local_llm: only rows that need review are asked about; a line may
\* be left out of the answer.
AskV1 ==
  LET unresolved == SelectSeq([i \in DOMAIN lines |-> i],
                              LAMBDA i : rows[i].status = "needs_review" /\ ~rows[i].locked)
      windows == SceneContextWindows(lines, unresolved)
      row(reply) ==
        LET found == ByName(job.index, reply.by)
        IN [who |-> IF found = {} THEN Nobody ELSE (CHOOSE c \in found : TRUE).id, name |-> reply.name,
            sure |-> reply.sure, tally |-> <<>>, method |-> "ollama",
            status |-> IF found # {} /\ reply.sure >= Sure THEN "approved" ELSE "needs_review"]
  IN /\ job.phase = "ask" /\ job.mode = "v1"
     /\ \E failed \in SUBSET DOMAIN windows :
        \E told \in SUBSET UNION {windows[k].targets : k \in DOMAIN windows \ failed} :
        \E replies \in [told -> Replies] :
          job' = [job EXCEPT
                    !.phase = IF windows = <<>> THEN Closing ELSE "apply",
                    !.plan = Flattened([i \in DOMAIN lines |->
                               IF i \in told THEN <<[line |-> i, row |-> row(replies[i])]>> ELSE <<>>])]
     /\ UNCHANGED <<lines, cast, rows, tasks, session, pending, left, edits>>

\* One decision is written, whatever became of its row meanwhile.
Apply ==
  /\ job.phase \in {"apply", "repair"}
  /\ IF job.plan = <<>>
     THEN /\ job' = [job EXCEPT !.phase = IF job.mode = "v2" /\ job.phase = "apply" THEN "reduce" ELSE Closing]
          /\ UNCHANGED session
     ELSE /\ Upsert(Head(job.plan).line, Head(job.plan).row)
          /\ job' = [job EXCEPT !.plan = Tail(@)]
  /\ UNCHANGED <<lines, cast, rows, tasks, pending, left, edits>>

\* _reduce_attributions: the rows are read, and the repairs planned.
Reduce ==
  LET spoken == SelectSeq([i \in DOMAIN lines |-> i],
                          LAMBDA i : lines[i].dialogue /\ rows[i].name \notin {"", Narrator, Unknown})
      turns == [k \in DOMAIN spoken |->
                  [id |-> spoken[k], scene |-> lines[spoken[k]].scene, name |-> rows[spoken[k]].name,
                   sure |-> rows[spoken[k]].sure, locked |-> rows[spoken[k]].locked]]
      known == SelectSeq(AlternationRepairs(turns), LAMBDA r : ByReference(job.index, r.name) # {})
      row(r) == LET c == CHOOSE x \in ByReference(job.index, r.name) : TRUE
                IN [who |-> c.id, name |-> c.name, sure |-> r.sure, tally |-> rows[r.id].tally,
                    method |-> "reduce_repair", status |-> "approved"]
  IN /\ job.phase = "reduce"
     /\ job' = [job EXCEPT !.phase = "repair",
                  !.plan = [k \in DOMAIN known |-> [line |-> known[k].id, row |-> row(known[k])]]]
     /\ UNCHANGED <<lines, cast, rows, tasks, session, pending, left, edits>>
-----------------------------------------------------------------------------
(* Tiers and tasks *)

Class(row) == Classify("attribution", row.sure, row.locked, row.tally)

Tiered(row) ==
  IF Class(row).queue THEN [row EXCEPT !.tier = "flag", !.status = "needs_review"]
  ELSE [row EXCEPT !.tier = Class(row).tier, !.task = 0]

\* ConfidenceReviewService.apply, first session, up to its commit.
Tier ==
  LET queued == {i \in DOMAIN lines : Exists(i) /\ Class(rows[i]).queue}
  IN /\ job.phase = "tier"
     /\ Opens("run", [i \in {k \in DOMAIN lines : Exists(k)} |-> Changed(rows[i], Tiered(rows[i]))], {})
     /\ job' = [job EXCEPT !.flagged = queued, !.listed = queued = {},
                  !.phase = IF queued = {} THEN "idle" ELSE "fold"]
     /\ UNCHANGED <<lines, cast, rows, tasks, pending, left, edits>>

\* Variant of OpenTask: the task of this cause, open or not.
AnyTask == DOMAIN tasks
OpenTask == {t \in DOMAIN tasks : tasks[t].open}

\* fold_review_task: the open task of this cause grows, or a new one is opened.
Fold ==
  /\ job.phase = "fold"
  /\ IF OpenTask = {}
     THEN /\ tasks' = Append(tasks, [open |-> TRUE, members |-> job.flagged])
          /\ job' = [job EXCEPT !.phase = "link", !.listed = TRUE, !.task = Len(tasks) + 1]
     ELSE \E t \in OpenTask :
          /\ tasks' = [tasks EXCEPT ![t].members = @ \cup job.flagged]
          /\ job' = [job EXCEPT !.phase = "link", !.listed = TRUE, !.task = t]
  /\ UNCHANGED <<lines, cast, rows, session, pending, left, edits>>

\* The last session of apply.
Link ==
  /\ job.phase = "link"
  /\ Opens("run", [i \in {k \in job.flagged : ~rows[k].locked} |->
                     Changed(rows[i], [rows[i] EXCEPT !.task = job.task])], {})
  /\ job' = [Idle EXCEPT !.listed = job.listed]
  /\ UNCHANGED <<lines, cast, rows, tasks, pending, left, edits>>

\* The run fails, or the process ends; what is not committed is lost.
Stop ==
  /\ job.phase # "idle" \/ Open("run")
  /\ job' = Idle
  /\ session' = [session EXCEPT !["run"] = Closed]
  /\ UNCHANGED <<lines, cast, rows, tasks, pending, left, edits>>
-----------------------------------------------------------------------------
(* The reviewer *)

\* update up to its commit: what is not asked for stays; a confirmation of a
\* name that is the character's own is to reach the other rows afterwards.
Edit(i, e) ==
  LET who == IF e.set THEN e.who ELSE rows[i].who
      row == [rows[i] EXCEPT !.who = who,
                !.status = IF e.status = "" THEN @ ELSE e.status,
                !.locked = IF e.lock = {} THEN @ ELSE TRUE \in e.lock]
      named == \E c \in ToSet(cast) : c.id = who /\ row.name \in CharacterNames(c)
  IN /\ edits < left.edits /\ Exists(i) /\ ~Open("desk")
     /\ edits' = edits + 1
     /\ e.set => e.who = Nobody \/ \E c \in ToSet(cast) : c.id = e.who
     /\ Opens("desk", [k \in {i} |-> Changed(rows[k], row)],
              IF e.set /\ who # Nobody /\ row.status = "approved" /\ named
              THEN {[from |-> i, who |-> who, name |-> row.name]} ELSE {})
     /\ UNCHANGED <<lines, cast, rows, tasks, job, pending, left>>

\* propagate_confirmation up to its commit: rows of this name that it finds
\* not locked, and without a character or with one that still needs review.
Propagate(p) ==
  LET takes(i) == /\ Exists(i) /\ i # p.from /\ ~rows[i].locked /\ rows[i].name = p.name
                  /\ rows[i].who = Nobody \/ rows[i].status = "needs_review"
  IN /\ ~Open("word")
     /\ pending' = pending \ {p}
     /\ Opens("word", [i \in {k \in DOMAIN lines : takes(k)} |->
                         Noted(rows[i], [rows[i] EXCEPT !.who = p.who, !.status = "approved",
                                                        !.sure = Greater(@, NarrationSure)])], {})
     /\ UNCHANGED <<lines, cast, rows, tasks, job, left, edits>>

\* update_review_task
SettleTask(t, open) ==
  /\ edits < left.edits /\ tasks[t].open # open
  /\ edits' = edits + 1
  /\ tasks' = [tasks EXCEPT ![t].open = open]
  /\ job' = [job EXCEPT !.listed = FALSE]
  /\ UNCHANGED <<lines, cast, rows, session, pending, left>>

Run ==
  /\ ~Open("run")
  /\ \/ \E m \in Modes : Start(m)
     \/ Rule \/ Read \/ Circuit \/ AskV1 \/ AskV2 \/ Apply \/ Reduce \/ Tier \/ Fold \/ Link

Next ==
  \/ Run \/ Stop
  \/ \E s \in Sessions : Commit(s)
  \/ \E i \in DOMAIN lines, e \in Edits : Edit(i, e)
  \/ \E p \in pending : Propagate(p)
  \/ \E t \in DOMAIN tasks, open \in BOOLEAN : SettleTask(t, open)

Spec == Init /\ [][Next]_vars
-----------------------------------------------------------------------------
\* A row is locked, and no session that read it before the lock is still to
\* write to its decision.
Settled(i) ==
  rows[i].locked /\ \A s \in Sessions \ {"desk"} : Written(Landed(s, i)) = Written(rows[i])

ByReviewer == Open("desk") /\ session'["desk"] = Closed

\* A lock that is settled holds: until a reviewer changes the row again no
\* session writes to it or prepares to, whichever snapshot or plan from before
\* the lock the run still works from and whatever is confirmed for others
\* meanwhile (upsert, apply, propagate_confirmation read the row anew).
LockHolds ==
  [][\A i \in DOMAIN lines :
       Settled(i) /\ ~ByReviewer => Settled(i)' /\ Written(rows'[i]) = Written(rows[i])]_vars

\* Stricter than what the code keeps: locked rows are not overwritten by runs
\* (docs/pipeline/casting/speaker-attribution.md).  A session that read the row
\* before the lock does overwrite it (upsert, apply, propagate_confirmation).
LockedRowsAreNotOverwritten ==
  [][\A i \in DOMAIN lines : rows[i].locked /\ ~ByReviewer => Written(rows'[i]) = Written(rows[i])]_vars

\* After a run every row it found unsure is listed in a review task that is
\* still open, no other task claims the row, and it is not approved unless
\* somebody confirmed it (ConfidenceReviewService.apply, fold_review_task).
UnsureIsQueued ==
  /\ \A i \in DOMAIN lines : rows[i].task # 0 => i \in tasks[rows[i].task].members
  /\ job.phase = "idle" /\ job.listed /\ ~Open("run") =>
       \A i \in DOMAIN lines : rows[i].tier = "flag" =>
         /\ \E t \in DOMAIN tasks : tasks[t].open /\ i \in tasks[t].members
         /\ edits = 0 => rows[i].status = "needs_review"
=============================================================================
