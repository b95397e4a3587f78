----------------------------- MODULE SoundDesk -----------------------------
(***************************************************************************)
(* One chapter between direction and mix: extraction writes atmosphere     *)
(* profiles and delivery directions, plan requests turn profiles and the   *)
(* last timeline into cue rows, the user creates and mutes cues and locks  *)
(* directions, and assembly mixes whatever rows there are.                 *)
(*                                                                         *)
(* A plan reads the profiles, the timeline and the cue rows, and then      *)
(* works through its cues, one session per row; profiles and directions    *)
(* are inferred in the same way.  Everybody else acts in between, and also  *)
(* between a session's reading of a row and its update: no transaction is  *)
(* open yet, and the update names the columns that changed.                *)
(***************************************************************************)
EXTENDS SoundMix, TLC

CONSTANTS
  Scenes,       \* number of scenes
  Text,         \* scene -> its segments, without times
  Frames,       \* takes of the segments: each a function segment -> frames
  Explicit,     \* scene -> the deterministic profile of its text
  Answers,      \* profiles the model may return
  Planner, Extractor,
  Writer,       \* requests that infer, edit or read a direction
  Mode,         \* render modes plans ask for
  Limit,
  UserCue,      \* cues a user creates: <<scene, kind>>
  Touchable,    \* segments whose direction the user edits
  MayFail,      \* a generated clip may fail its QA twice
  Budgets       \* bounds: how often each of Acts may happen

Scene == 1..Scenes
SegmentIds == UNION {{Text[s][i].id : i \in DOMAIN Text[s]} : s \in Scene}
\* touch: cues muted or created; edit: directions edited; infer: profiles or
\* directions inferred or read.
Acts == {"plan", "touch", "edit", "mix", "infer"}
NoDirection == [locked |-> FALSE, noSfx |-> FALSE, source |-> "none"]

ASSUME SoundAssumption ==
  /\ Scenes \in Nat \ {0} /\ DOMAIN Text = Scene /\ DOMAIN Explicit = Scene
  /\ \A f \in Frames : DOMAIN f = SegmentIds
  /\ Touchable \subseteq SegmentIds /\ MayFail \in BOOLEAN
  /\ Limit \in Nat /\ Budgets \subseteq [Acts -> Nat]

VARIABLES
  profile,    \* scene -> atmosphere profile
  direction,  \* segment -> delivery direction row
  timeline,   \* timeline of the latest chapter render, <<>> before the first
  cues,       \* cue rows in the order of their creation; gone: deleted
  plan,       \* planner -> the request it serves
  extract,    \* extractor -> what it read
  write,      \* writer -> the direction it is about to write
  mix,        \* what the latest mixed render plays: {<<kind, from, to>>}
  met,        \* two plans were once at work at the same time
  twice,      \* a plan once had two cues of one key
  left        \* how often each of Acts may still happen

soundVars == <<profile, direction, timeline, cues, plan, extract, write, mix, met, twice, left>>

\* want: the planned cues; todo: the places in it of those still to be done;
\* write: the row it is about to update.
IdlePlan == [pc |-> "idle", mode |-> "speech_only", fill |-> {}, want |-> <<>>, todo |-> {}, desired |-> {},
             read |-> <<>>, silent |-> {}, alone |-> TRUE, write |-> <<>>]
Closed == [pc |-> "closed", by |-> "nobody", segment |-> 0, seen |-> NoDirection, row |-> NoDirection]
Act(what) == left[what] > 0 /\ left' = [left EXCEPT ![what] = @ - 1]

SoundInit ==
  /\ profile = [s \in Scene |-> NoProfile]
  /\ direction = [x \in SegmentIds |-> NoDirection]
  /\ timeline = <<>>
  /\ cues = <<>>
  /\ plan = [p \in Planner |-> IdlePlan]
  /\ extract = [e \in Extractor |-> {}]
  /\ write = [w \in Writer |-> Closed]
  /\ mix = {}
  /\ met = FALSE /\ twice = FALSE
  /\ left \in Budgets
-----------------------------------------------------------------------------
(* AtmosphereProfileService.generate *)

MissingOf(scenes) == {s \in scenes : Missing(profile[s])}

ReadScenes(e) ==
  /\ extract[e] = {} /\ Act("infer") /\ MissingOf(Scene) # {}
  /\ extract' = [extract EXCEPT ![e] = MissingOf(Scene)]
  /\ UNCHANGED <<profile, direction, timeline, cues, plan, write, mix, met, twice>>

\* The model's answers arrive much later and are written without another look;
\* a scene it failed on, or was unsure of, gets the deterministic profile.
WriteProfiles(e) ==
  /\ extract[e] # {}
  /\ \E answer \in [extract[e] -> Answers \cup {NoProfile}] :
       profile' = [s \in Scene |-> CASE s \notin extract[e] -> profile[s]
                                     [] Missing(answer[s]) -> Explicit[s]
                                     [] OTHER -> answer[s]]
  /\ extract' = [extract EXCEPT ![e] = {}]
  /\ UNCHANGED <<direction, timeline, cues, plan, write, mix, met, twice, left>>
-----------------------------------------------------------------------------
(* Directions *)

\* Variant of Merged: an update writes every column.
MergedWhole(now, seen, new, columns) == new

\* What an update that read seen, and sets new, makes of the row as it is now.
Merged(now, seen, new, columns) ==
  [f \in DOMAIN now |-> IF f \in columns /\ new[f] # seen[f] THEN new[f] ELSE now[f]]

\* upsert reads the row; a locked one is left alone by inference.
UpsertDirection(w, by, x, row) ==
  write' = [write EXCEPT ![w] = IF direction[x].locked /\ by = "infer" THEN Closed
                                ELSE [pc |-> "open", by |-> by, segment |-> x, seen |-> direction[x], row |-> row]]

\* The commit of upsert; a second row for a segment is refused.
CommitDirection(w) ==
  LET me == write[w]
      now == direction[me.segment]
  IN /\ me.pc = "open"
     /\ direction' = [direction EXCEPT ![me.segment] =
                        IF me.seen = NoDirection THEN (IF now = NoDirection THEN me.row ELSE now)
                        ELSE Merged(now, me.seen, me.row, {"locked", "noSfx", "source"})]
     /\ write' = [write EXCEPT ![w] = Closed]
     /\ UNCHANGED <<profile, timeline, cues, plan, extract, mix, met, twice, left>>

\* _infer, _direction_from_llm_payload: both leave noSfx at its default, TRUE.
Infer(w, x, source) ==
  /\ write[w] = Closed /\ Act("infer")
  /\ UpsertDirection(w, "infer", x, [locked |-> FALSE, noSfx |-> TRUE, source |-> source])
  /\ UNCHANGED <<profile, direction, timeline, cues, plan, extract, mix, met, twice>>

UpdateSegmentDirection(w, x, locked, noSfx) ==
  /\ write[w] = Closed /\ Act("edit")
  /\ UpsertDirection(w, "edit", x, [locked |-> locked, noSfx |-> noSfx, source |-> "manual"])
  /\ UNCHANGED <<profile, direction, timeline, cues, plan, extract, mix, met, twice>>

\* segment_direction: reading a direction that does not exist creates it, and
\* the row is read once more for that.
ReadDirection(w, x) ==
  /\ write[w] = Closed /\ direction[x] = NoDirection /\ Act("infer")
  /\ write' = [write EXCEPT ![w] = [Closed EXCEPT !.pc = "asked", !.segment = x]]
  /\ UNCHANGED <<profile, direction, timeline, cues, plan, extract, mix, met, twice>>

CreateDirection(w) ==
  /\ write[w].pc = "asked"
  /\ UpsertDirection(w, "read", write[w].segment, [locked |-> FALSE, noSfx |-> TRUE, source |-> "manual"])
  /\ UNCHANGED <<profile, direction, timeline, cues, plan, extract, mix, met, twice, left>>
-----------------------------------------------------------------------------
(* SoundPlannerService *)

AutoRows(rows) == {i \in DOMAIN rows : rows[i].auto /\ ~rows[i].gone}
Live == AutoRows(cues)
Disturbed(p) == [q \in Planner |-> IF q = p THEN plan[q] ELSE [plan[q] EXCEPT !.alone = FALSE]]

\* Which of this chapter's scenes have no profile.
PlanBegin(p, mode) ==
  /\ plan[p].pc = "idle" /\ Act("plan")
  /\ plan' = [plan EXCEPT ![p].pc = IF MissingOf(Scene) = {} THEN "reading" ELSE "filling",
                          ![p].mode = mode, ![p].fill = MissingOf(Scene)]
  /\ met' = (met \/ \E q \in Planner \ {p} : plan[q].pc # "idle")
  /\ UNCHANGED <<profile, direction, timeline, cues, extract, write, mix, twice>>

PlanFill(p) ==
  /\ plan[p].pc = "filling"
  /\ profile' = [s \in Scene |-> IF s \in plan[p].fill THEN Explicit[s] ELSE profile[s]]
  /\ plan' = [plan EXCEPT ![p].pc = "reading"]
  /\ UNCHANGED <<direction, timeline, cues, extract, write, mix, met, twice, left>>

\* _segment_inputs: times from the first timed segment of the scene.
Inputs(s) ==
  LET at(x) == SelectSeq(timeline, LAMBDA e : e.segment = x)
      known == {t.start : t \in {e \in ToSet(timeline) : e.scene = s}}
      zero == CHOOSE t \in known : \A u \in known : t <= u
  IN [i \in DOMAIN Text[s] |->
        LET x == Text[s][i]
            e == at(x.id)
        IN [id |-> x.id, words |-> x.words, dialogue |-> x.dialogue, timed |-> e # <<>>,
            start |-> IF e = <<>> THEN 0 ELSE e[1].start - zero,
            end |-> IF e = <<>> THEN 0 ELSE e[1].end - zero,
            noSfx |-> direction[x.id].noSfx]]

Slot(c) == IF c.kind = "sfx" THEN <<c.scene, c.kind, c.segment, c.start>> ELSE <<c.scene, c.kind>>

\* plan_chapter_sound of this chapter as it is now.
PlanOf(mode) ==
  PlanChapter([s \in Scene |-> s], profile, [s \in Scene |-> Inputs(s)],
              [mode |-> mode, opening |-> TRUE, peak |-> TRUE, limit |-> Limit])

\* The plan, and the rows as they are before it touches any.
PlanRead(p) ==
  /\ plan[p].pc = "reading"
  /\ LET made == PlanOf(plan[p].mode) IN
     /\ plan' = IF plan[p].mode = "speech_only" THEN [plan EXCEPT ![p] = IdlePlan]
                ELSE [plan EXCEPT ![p].pc = "placing", ![p].want = made.cues, ![p].todo = DOMAIN made.cues,
                                  ![p].desired = {PlanKey(plan[p].mode, made.cues[i]) : i \in DOMAIN made.cues},
                                  ![p].read = cues, ![p].silent = {},
                                  ![p].alone = ~\E q \in Planner \ {p} : plan[q].pc = "placing"]
     /\ twice' = (twice \/ NamedTwice(plan[p].mode, made.cues))
  /\ UNCHANGED <<profile, direction, timeline, cues, extract, write, mix, met, left>>

Row(c, mode, asset, by) ==
  [scene |-> c.scene, kind |-> c.kind, key |-> PlanKey(mode, c), segment |-> c.segment,
   start |-> c.start, gain |-> CueGainRequested(c), length |-> asset.duration,
   mode |-> mode, evidence |-> c.profile, noSfx |-> FALSE, auto |-> (by = "planner"), muted |-> FALSE, locked |-> FALSE,
   gone |-> FALSE]

\* What _apply_cue sets.
Applied == {"kind", "key", "segment", "start", "gain", "length", "mode", "evidence", "noSfx", "muted"}

\* Variant of Reread: an update does not look at the row's lock.
RereadBlind(id, row) == IF cues[id].gone THEN <<>> ELSE <<[id |-> id, seen |-> cues[id], row |-> row]>>

\* The row is read again in the session that is to update it.
Reread(id, row) ==
  IF cues[id].gone \/ cues[id].locked THEN <<>> ELSE <<[id |-> id, seen |-> cues[id], row |-> row]>>

\* Variant of Taken: a cue that is not heard takes no slot.
TakenWhileHeard(rows, c) == \E i \in AutoRows(rows) : rows[i].locked /\ ~rows[i].muted /\ Slot(rows[i]) = Slot(c)

\* locked_slots
Taken(rows, c) == \E i \in AutoRows(rows) : rows[i].locked /\ Slot(rows[i]) = Slot(c)

\* Variant of Obsolete: a plan cleans up after plans of its own mode.
ObsoleteInMode(me) ==
  {i \in AutoRows(me.read) : ~me.read[i].locked /\ me.read[i].key \notin me.desired /\ me.read[i].mode = me.mode}

Obsolete(me) == {i \in AutoRows(me.read) : ~me.read[i].locked /\ me.read[i].key \notin me.desired}

\* by_key: the rows that have a cue's key, of which the last counts.
Matching(me, c) == {i \in AutoRows(me.read) : me.read[i].key = PlanKey(me.mode, c)}
Existing(me, c) == CHOOSE i \in Matching(me, c) : \A j \in Matching(me, c) : j <= i
PassedOver(me, c) == IF Matching(me, c) = {} THEN Taken(me.read, c) ELSE me.read[Existing(me, c)].locked

\* The next planned cue: an unlocked row of its key is to be brought up to date,
\* a slot the user has taken is left empty, otherwise a row is created.  Rows
\* made for earlier cues of the plan are not looked at.
PlaceCue(p, n) ==
  LET me == plan[p]
      c == me.want[n]
  IN /\ me.pc = "placing" /\ me.write = <<>> /\ \A k \in me.todo : n <= k
     /\ \E asset \in {ResolveWithQa(c, <<ok, FALSE>>) : ok \in (IF MayFail THEN BOOLEAN ELSE {TRUE})} :
          IF PassedOver(me, c) \/ asset = <<>>
          THEN /\ UNCHANGED cues
               /\ plan' = [plan EXCEPT ![p].todo = @ \ {n}, ![p].silent = @ \cup {PlanKey(me.mode, c)}]
          ELSE LET row == Row(c, me.mode, asset[1], "planner")
               IN IF Matching(me, c) # {}
                  THEN /\ UNCHANGED cues
                       /\ plan' = [plan EXCEPT ![p].todo = @ \ {n}, ![p].write = Reread(Existing(me, c), row)]
                  ELSE /\ cues' = Append(cues, row)
                       /\ plan' = [Disturbed(p) EXCEPT ![p].todo = @ \ {n}]
     /\ UNCHANGED <<profile, direction, timeline, extract, write, mix, met, twice, left>>

\* The commit of that update; when the row is gone by then, the plan fails.
PlaceWrite(p) ==
  LET w == plan[p].write[1]
  IN /\ plan[p].write # <<>>
     /\ IF cues[w.id].gone /\ \E f \in Applied : w.row[f] # w.seen[f]
        THEN /\ UNCHANGED cues
             /\ plan' = [plan EXCEPT ![p] = IdlePlan]
        ELSE /\ cues' = [cues EXCEPT ![w.id] = Merged(@, w.seen, w.row, Applied)]
             /\ plan' = [Disturbed(p) EXCEPT ![p].write = <<>>]
     /\ UNCHANGED <<profile, direction, timeline, extract, write, mix, met, twice, left>>

\* Rows of the snapshot that are not planned any more are deleted by their ids.
PlanEnd(p) ==
  LET me == plan[p]
  IN /\ me.pc = "placing" /\ me.todo = {} /\ me.write = <<>>
     /\ cues' = [i \in DOMAIN cues |-> IF i \in Obsolete(me) THEN [cues[i] EXCEPT !.gone = TRUE] ELSE cues[i]]
     /\ plan' = [Disturbed(p) EXCEPT ![p] = IdlePlan]
     /\ UNCHANGED <<profile, direction, timeline, extract, write, mix, met, twice, left>>
-----------------------------------------------------------------------------
(* The user's cues, and assembly *)

\* update_cue_control: muting is a decision, so it locks a planned cue.
MuteCue(i, muted) ==
  /\ Act("touch") /\ i \in DOMAIN cues /\ ~cues[i].gone
  /\ cues' = [cues EXCEPT ![i].muted = muted, ![i].locked = @ \/ cues[i].auto]
  /\ UNCHANGED <<profile, direction, timeline, plan, extract, write, mix, met, twice>>

\* At the start of a scene; it is not a planner's.
CreateCue(s, kind) ==
  /\ Act("touch")
  /\ cues' = Append(cues, Row(Cue(s, kind, "by_hand", <<>>, <<>>), "light", [duration |-> 10000], "user"))
  /\ UNCHANGED <<profile, direction, timeline, plan, extract, write, mix, met, twice>>

Ordered == FlattenSeq([s \in Scene |-> [i \in DOMAIN Text[s] |-> [scene |-> s, segment |-> Text[s][i].id]]])

\* assemble: lays the stem, and mixes the cues of the chapter that play.
Assemble(frames, mode) ==
  LET inputs == [i \in DOMAIN Ordered |->
                   Ordered[i] @@ [frames |-> frames[Ordered[i].segment], before |-> 0, after |-> 0]]
      stem == SpeechStem(inputs)
      playing == {i \in DOMAIN cues : ~cues[i].gone /\ Plays(cues[i], mode)}
  IN /\ Act("mix")
     /\ timeline' = StoredTimeline(stem)
     /\ mix' = UNION {{<<cues[i].kind, span>> :
                         span \in Placed(cues[i], SceneOffset(stem, cues[i].scene), Duration(stem), "ok")}
                      : i \in playing}
        /\ UNCHANGED <<profile, direction, cues, plan, extract, write, met, twice>>

SoundNext ==
  \/ \E e \in Extractor : ReadScenes(e) \/ WriteProfiles(e)
  \/ \E w \in Writer :
       \/ \E x \in SegmentIds, source \in {"inferred", "llm_inferred"} : Infer(w, x, source)
       \/ \E x \in Touchable, locked, noSfx \in BOOLEAN : UpdateSegmentDirection(w, x, locked, noSfx)
       \/ \E x \in SegmentIds : ReadDirection(w, x)
       \/ CreateDirection(w) \/ CommitDirection(w)
  \/ \E p \in Planner : \/ \E m \in Mode : PlanBegin(p, m)
                        \/ PlanFill(p) \/ PlanRead(p) \/ PlaceWrite(p) \/ PlanEnd(p)
                        \/ \E n \in plan[p].todo : PlaceCue(p, n)
  \/ \E i \in 1..Len(cues), b \in BOOLEAN : MuteCue(i, b)
  \/ \E c \in UserCue : CreateCue(c[1], c[2])
  \/ \E f \in Frames, m \in Mode : Assemble(f, m)

SoundSpec == SoundInit /\ [][SoundNext]_soundVars
-----------------------------------------------------------------------------
SoundTypeOK ==
  /\ \A s \in Scene : profile[s] \in Answers \cup {NoProfile, Explicit[s]}
  /\ \A x \in SegmentIds : direction[x].source \in {"none", "inferred", "llm_inferred", "manual"}
  /\ \A i \in DOMAIN cues : cues[i].locked => cues[i].auto
  /\ \A p \in Planner : plan[p].pc \in {"idle", "filling", "reading", "placing"}
  /\ \A w \in Writer : /\ write[w].pc \in {"closed", "asked", "open"} /\ write[w].segment \in SegmentIds \cup {0}
                      /\ write[w].by \in {"nobody", "infer", "edit", "read"}
  /\ left \in [Acts -> Nat]

Resting == \A p \in Planner : plan[p].pc = "idle"

\* While plans have not overlapped, no planned cue exists twice, unless a
\* profile named a sound twice in one sentence; and once they rest, a bed or
\* music cue the user has muted is not replaced by another one in its scene,
\* whatever the profiles name (by_key, locked_slots; update_cue_control).
SilenceIsKept ==
  /\ SoundTypeOK
  /\ (~met /\ ~twice) => \A i, j \in Live : i # j => cues[i].key # cues[j].key
  /\ (~met /\ Resting) =>
       \A i, j \in Live : (cues[i].locked /\ i # j /\ cues[i].kind # "sfx" /\ cues[i].kind = cues[j].kind)
                             => cues[i].scene # cues[j].scene

\* A plan that no other plan disturbed leaves exactly the cues it wanted: no
\* unlocked row outside the plan, none missing but those it passed over; the
\* user may mute and create, the extraction rewrite every profile, and a mix
\* move the whole timeline in the meantime (_materialize).
PlanIsCarriedOut ==
  [][\A p \in Planner :
       (plan[p].pc = "placing" /\ plan'[p].pc = "idle" /\ plan[p].alone) =>
         LET live == {i \in DOMAIN cues' : cues'[i].auto /\ ~cues'[i].gone}
         IN /\ {cues'[i].key : i \in {k \in live : ~cues'[k].locked}} \subseteq plan[p].desired
            /\ plan[p].desired \ plan[p].silent \subseteq {cues'[i].key : i \in live}]_soundVars

\* Whose commit rewrites direction x in a step.
Rewrites(w, x) == write[w].pc = "open" /\ write'[w].pc # "open" /\ write[w].segment = x

\* A lock is lifted by the user alone.  An inference that read the direction
\* before it was locked may still change its content, and so may a plan's
\* update of a cue, but neither the lock nor the cue's silence; a request that
\* asked for a direction when there was none overwrites even a locked one; a
\* plan deletes a locked cue it read unlocked (upsert; _materialize).
LockHolds ==
  [][/\ \A x \in SegmentIds :
          (direction[x].locked /\ direction'[x] # direction[x]) =>
             \E w \in Writer : /\ Rewrites(w, x)
                               /\ \/ write[w].by \in {"edit", "read"}
                                  \/ ~write[w].seen.locked /\ direction'[x].locked
     /\ \A i \in DOMAIN cues :
          (cues[i].locked /\ cues'[i] # cues[i]) =>
             \/ UNCHANGED plan /\ cues'[i] = [cues[i] EXCEPT !.muted = ~@]
             \/ \E p \in Planner : /\ plan[p].write # <<>> /\ plan[p].write[1].id = i /\ ~plan[p].write[1].seen.locked
                                   /\ cues'[i].locked /\ cues'[i].muted = cues[i].muted /\ ~cues'[i].gone
             \/ \E p \in Planner : /\ plan[p].pc = "placing" /\ plan'[p].pc = "idle"
                                   /\ i \in AutoRows(plan[p].read) /\ ~plan[p].read[i].locked]_soundVars

\* Stricter than what the code keeps: inference leaves locked directions as they
\* are (docs/pipeline/direction/direction-studio.md; upsert).
LockedDirectionsArePreserved ==
  [][\A x \in SegmentIds : (direction[x].locked /\ direction'[x] # direction[x]) =>
       \A w \in Writer : Rewrites(w, x) => write[w].by # "infer"]_soundVars

\* Stricter than what the code keeps: a plan leaves rows that are locked
\* untouched (docs/pipeline/assembly/generative-sound-design.md; _materialize).
LockedCuesAreUntouched ==
  [][\A i \in DOMAIN cues : (cues[i].locked /\ cues'[i] # cues[i]) => UNCHANGED plan]_soundVars
=============================================================================
