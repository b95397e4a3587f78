------------------------------ MODULE CastBook ------------------------------
(***************************************************************************)
(* The cast of a project and its voices: discovery reads the manuscript    *)
(* and adds to the characters, automatic casting gives them voices, and    *)
(* people rename, merge, split, rule and assign while both are at work.    *)
(* Discoveries of several callers overlap.  Every action is one database   *)
(* session, or a handler whose sessions no property tells apart.           *)
(* Characters are numbered; nobody is number 0.                            *)
(***************************************************************************)
EXTENDS CastRules

CONSTANTS
  Runner,       \* the callers of discovery
  Book,         \* the segments, [id, scene, speaker, names, confidence]
  Cast0,        \* the characters there are at first
  Lines0,       \* who speaks each line, and what there is to say
  Sayings,      \* what the model may answer about a candidate
  Profiles0,    \* what the model may say of a character
  NewNames,     \* names that people type
  Catalogue,    \* the voices of the catalogue
  Custom,       \* a voice outside it
  Kinds,        \* the discoveries that are run
  Budgets, MaxCast   \* bounds: what may be done, [people, voices, auto, run],
                     \* and of which kinds discoveries are; characters

Voices == INSTANCE CastSolver

VARIABLES
  cast,      \* CharacterRecord rows
  rulings,   \* CastMergeDecisionRecord rows, [rejected, confirmed]: sets of pairs
  issues,    \* cast_discovery issues
  lines,     \* SpeakerAttributionRecord rows, [by, words, scene]
  desk,      \* CharacterVoiceAssignmentRecord of each character
  live,      \* the CastingDecisionRecord of each that nothing superseded
  profiles,  \* VoiceProfileRecord rows
  narrator,  \* [voice, hand]
  run,       \* the discovery of each caller
  auto,      \* the casting at work
  left,      \* what people, castings and discoveries may still do
  struck,    \* history: names that people took from a character
  raced      \* history: aliases written to a row after a discovery had read it
             \* and before it wrote its own

people == <<cast, rulings, issues, lines, struck, raced>>
booth == <<desk, live, profiles, narrator>>
castVars == <<people, booth, run, auto, left>>

Ids == DOMAIN cast
Active == {c \in Ids : cast[c].into = 0}
VoiceIds == {v.id : v \in Catalogue} \cup {Custom}
NoRow == [voice |-> 0, locked |-> FALSE, decided |-> FALSE]
Pair(a, b) == {cast[a].name, cast[b].name}
Ruled(pair, verdict) ==
  IF Cardinality(pair) < 2 THEN rulings
  ELSE IF verdict = "rejected"
  THEN [rejected |-> rulings.rejected \cup {pair}, confirmed |-> rulings.confirmed \ {pair}]
  ELSE [rejected |-> rulings.rejected \ {pair}, confirmed |-> rulings.confirmed \cup {pair}]

\* A new row, and the empty places that go with it.
Added(row) ==
  /\ Len(cast) < MaxCast
  /\ cast' = Append(cast, [row EXCEPT !.id = Len(cast) + 1])
  /\ desk' = Append(desk, NoRow)
  /\ live' = Append(live, "none")

CharacterOf(cand, aliases) ==
  [id |-> 0, name |-> cand.name, canonical |-> cand.name,
   aliases |-> Clean(cand.aliases \o cand.generated \o aliases), traits |-> cand.traits,
   relations |-> cand.relations, segment |-> cand.segment, into |-> 0, locked |-> FALSE,
   confidence |-> cand.confidence]
Typed(name) ==
  [id |-> 0, name |-> name, canonical |-> name, aliases |-> <<>>, traits |-> {}, relations |-> {},
   segment |-> 0, into |-> 0, locked |-> FALSE, confidence |-> 100]
IsCharacter(c) == DOMAIN c = DOMAIN Typed(<<>>) /\ c.aliases \in Seq(ToSet(c.aliases))

\* Characters are numbered as their rows are; 0 is no voice, and the catalogue
\* has one for a narrator (auto_cast refuses to start without).
ASSUME CastAssumption ==
  /\ Cast0 \in Seq(ToSet(Cast0))
  /\ \A c \in DOMAIN Cast0 : IsCharacter(Cast0[c]) /\ Cast0[c].id = c
  /\ 0 \notin VoiceIds
  /\ Voices!Narrator(Voices!Eligible(Catalogue), "plain") \in Catalogue

NoRun == [at |-> "idle", kind |-> "none", todo |-> <<>>, index |-> {}, past |-> {},
          decision |-> Decision("unsure", 0, 0, {}), row |-> 0]
NoAuto == [at |-> "idle", locked |-> {}, kept |-> <<>>, opened |-> {}, plan |-> <<>>,
           narrator |-> 0, calm |-> FALSE]

\* An automatic casting may have been run before.
CastInit ==
  /\ cast = Cast0
  /\ rulings = [rejected |-> {}, confirmed |-> {}]
  /\ issues = {}
  /\ lines = Lines0
  /\ \E v \in {0, Custom} \cup {w.id : w \in Catalogue} :
       /\ desk = [c \in Ids |-> IF c = 1 /\ v # 0 THEN [voice |-> v, locked |-> v = Custom, decided |-> v # Custom]
                                ELSE NoRow]
       /\ live = [c \in Ids |-> IF c = 1 /\ v \notin {0, Custom} THEN "open" ELSE "none"]
       /\ profiles = {Custom, v} \ {0}
  /\ narrator = [voice |-> 0, hand |-> FALSE]
  /\ run = [r \in Runner |-> NoRun]
  /\ auto = NoAuto
  /\ left \in Budgets
  /\ struck = {} /\ raced = {}
-----------------------------------------------------------------------------
(* Cast discovery *)

\* What the text and the model show, without front and back matter.
MentionsOfBook ==
  LET seen == Flatten(MapSeq(SegmentMentions, Book))
      known == {s.id : s \in ToSet(Book)}
      told == Flatten(MapSeq(LAMBDA m : SetToSeq(LlmMention([m EXCEPT !.window = <<"castwin", 1>>], known)), seen))
  IN FilterMentions(seen \o told, {})
FirstCandidates == Candidates(MentionsOfBook)

\* propose_from_speaker_attribution: one name, from a line of the book.
Proposed(s) ==
  IF s.speaker \in Ignored \cup {<<>>} THEN <<>>
  ELSE <<CandidateFrom(<<Mention(<<s.id, 0>>, s.speaker, s.speaker, "speaker", s.id, <<"speaker", s.id>>,
                                 s.confidence)>>)>>

\* The candidates a discovery of some kind may come up with.
Found(kind) ==
  LET names == {m.name : m \in ToSet(MentionsOfBook)}
  IN CASE kind = "propose" -> {Proposed(s) : s \in ToSet(Book)}
       [] kind = "v1" -> {FirstCandidates}
       [] kind = "v2" -> {ClusterCandidates(MentionsOfBook, [p \in {{a, b} : a, b \in names} |-> 0],
                                            rulings.confirmed, rulings.rejected)}

Discover(r, kind) ==
  /\ run[r].at = "idle" /\ kind \in left.kinds /\ left.run > 0
  /\ left' = [left EXCEPT !.run = @ - 1]
  /\ \E todo \in Found(kind) :
       run' = [run EXCEPT ![r] = [NoRun EXCEPT !.at = IF todo = <<>> THEN "done" ELSE "index",
                                               !.kind = kind, !.todo = todo]]
  /\ UNCHANGED <<people, booth, auto>>

\* _character_index: characters are read once for all candidates.
ReadIndex(r) ==
  /\ run[r].at = "index"
  /\ run' = [run EXCEPT ![r] = [@ EXCEPT !.at = "decide", !.index = {cast[c] : c \in Active}]]
  /\ UNCHANGED <<people, booth, auto, left>>

\* The decision about the next candidate, with or without the model; cast v2
\* also asks for the profile of one that is kept.
Decide(r) ==
  /\ run[r].at = "decide"
  /\ LET me == run[r]
         cand == me.todo[1]
         answers == {{}} \cup {{LlmDecision(cand, s, me.index)} : s \in {[t EXCEPT !.about = cand.name] : t \in Sayings}}
     IN \E answer \in answers :
          LET d == IF me.kind = "v2" THEN DecisionForCluster(cand, me.index, rulings.rejected, answer)
                   ELSE DecisionForCandidate(cand, me.index, rulings.rejected, answer)
              profiled == me.kind = "v2" /\ d.action \in {"merge", "new"}
          IN \E p \in Profiles0 :
               run' = [run EXCEPT ![r] = [@ EXCEPT !.at = "apply", !.decision = d,
                                            !.todo[1] = IF profiled THEN ProfileCandidate(cand, p) ELSE cand]]
  /\ UNCHANGED <<people, booth, auto, left>>

\* One candidate is done with; row is what the index is to know, if anything.
Settled(r, how, row) ==
  LET me == run[r]
      rest == Tail(me.todo)
      known == {c \in me.index : \A x \in row : c.id # x.id} \cup row
      over == [name |-> me.todo[1].name, how |-> how, target |-> me.decision.target]
  IN run' = [run EXCEPT ![r] = [me EXCEPT !.at = IF rest = <<>> THEN "done" ELSE "decide", !.todo = rest,
                                          !.index = known, !.row = 0, !.past = @ \cup {over}]]

MayMerge(r) ==
  LET d == run[r].decision
  IN d.action = "merge" /\ d.target \in Ids /\ {run[r].todo[1].name, cast[d.target].name} \notin rulings.rejected
MayCreate(r) == run[r].decision.action = "new" /\ run[r].todo[1].confidence >= AutoCreateConfidence

\* _apply_candidate: the target is read, and then the rulings.
ApplyMerge(r) ==
  /\ run[r].at = "apply" /\ MayMerge(r)
  /\ LET t == run[r].decision.target
         known == {c \in run[r].index : c.id # t} \cup {cast[t]}
     IN run' = [run EXCEPT ![r] = [@ EXCEPT !.at = "write", !.row = t, !.index = known]]
  /\ UNCHANGED <<people, booth, auto, left>>

\* Variant of WriteObservations: the candidate's names replace the row's.
WriteObservationsAnew(r) ==
  /\ run[r].at = "write"
  /\ LET t == run[r].row
         cand == run[r].todo[1]
         row == [cast[t] EXCEPT !.aliases = Clean(<<cand.name>> \o cand.aliases \o cand.generated)]
     IN cast' = [cast EXCEPT ![t] = row] /\ Settled(r, "merge", {row})
  /\ UNCHANGED <<rulings, issues, lines, struck, raced, booth, auto, left>>

\* _merge_character_observations: what was read, and what the candidate adds,
\* is written over whatever the row holds by now.
WriteObservations(r) ==
  /\ run[r].at = "write"
  /\ LET t == run[r].row
         read == CHOOSE c \in run[r].index : c.id = t
         new == Observed(read, run[r].todo[1], <<>>)
         row == [cast[t] EXCEPT !.aliases = new.aliases, !.traits = new.traits,
                                !.relations = new.relations, !.confidence = new.confidence]
     IN IF new = read THEN UNCHANGED <<cast, raced>> /\ Settled(r, IF read.locked THEN "held" ELSE "merge", {read})
        ELSE /\ cast' = [cast EXCEPT ![t] = row]
             /\ raced' = raced \cup (ToSet(cast[t].aliases) \ ToSet(read.aliases))
             /\ Settled(r, "merge", {row})
  /\ UNCHANGED <<rulings, issues, lines, struck, booth, auto, left>>

ApplyNew(r) ==
  /\ run[r].at = "apply" /\ MayCreate(r)
  /\ Added([CharacterOf(run[r].todo[1], <<>>) EXCEPT !.confidence = Max2(@, run[r].decision.confidence)])
  /\ Settled(r, "new", {cast'[Len(cast')]})
  /\ UNCHANGED <<rulings, issues, lines, struck, raced, profiles, narrator, auto, left>>

\* create_issue: one row a candidate and kind; a second finding refreshes it.
Issue(kind, cand, possible) ==
  [kind |-> kind, name |-> cand.name, segment |-> cand.segment, cand |-> cand, possible |-> possible, open |-> TRUE]
Filed(issue) ==
  LET same == {i \in issues : i.kind = issue.kind /\ i.name = issue.name /\ i.segment = issue.segment}
  IN (issues \ same) \cup {[issue EXCEPT !.open = \A i \in same : i.open]}

\* Variant of ApplyIssue: a merge that may not be made is taken for done.
ApplyIssueQuietly(r) ==
  /\ run[r].at = "apply" /\ ~MayMerge(r) /\ ~MayCreate(r)
  /\ issues' = IF run[r].decision.action = "merge" THEN issues
               ELSE Filed(Issue("possible_duplicate", run[r].todo[1], run[r].decision.possible))
  /\ Settled(r, "issue", {})
  /\ UNCHANGED <<cast, rulings, lines, struck, raced, booth, auto, left>>

\* Whatever is neither merged nor created is shown to a person.
ApplyIssue(r) ==
  /\ run[r].at = "apply" /\ ~MayMerge(r) /\ ~MayCreate(r)
  /\ LET cand == run[r].todo[1]
         d == run[r].decision
         possible == d.possible \cap Ids
         unsure == d.action = "unsure" /\ d.confidence < AutoCreateConfidence
         two == d.action = "split" \/ (~unsure /\ (possible # {} \/ d.action = "unsure"))
     IN issues' = IF two THEN Filed(Issue("possible_duplicate", cand, IF d.action = "split" THEN {} ELSE possible))
                  ELSE Filed(Issue("low_confidence", cand, {}))
  /\ Settled(r, "issue", {})
  /\ UNCHANGED <<cast, rulings, lines, struck, raced, booth, auto, left>>
-----------------------------------------------------------------------------
(* Automatic casting *)

\* auto_cast: a narrator chosen by hand stays, and must be one that may be used.
Speakable == narrator.hand => \E v \in Voices!Eligible(Catalogue) : v.id = narrator.voice
BeginAuto ==
  /\ auto.at \in {"idle", "done", "failed"} /\ left.auto > 0
  /\ left' = [left EXCEPT !.auto = @ - 1]
  /\ LET chosen == Voices!Narrator(Voices!Eligible(Catalogue), "plain").id
     IN IF narrator.hand THEN UNCHANGED <<narrator, profiles>>
        ELSE narrator' = [narrator EXCEPT !.voice = chosen] /\ profiles' = profiles \cup {chosen}
  /\ auto' = [NoAuto EXCEPT !.at = IF Speakable THEN "prepare" ELSE "failed", !.calm = TRUE,
                !.narrator = narrator'.voice]
  /\ UNCHANGED <<people, desk, live, run>>

Linked(c) ==
  IF desk[c].voice = 0 \/ desk[c].decided THEN desk[c]
  ELSE IF live[c] # "none" THEN [desk[c] EXCEPT !.decided = TRUE, !.locked = live[c] = "locked"]
  ELSE [desk[c] EXCEPT !.locked = TRUE]
LockedIn(rows) == {c \in Ids : rows[c].voice # 0 /\ rows[c].locked}

\* A voice given by hand after a decision that is not locked loses its lock to
\* the decision's.
LosesLock(c) == desk[c].voice # 0 /\ desk[c].locked /\ ~desk[c].decided /\ live[c] \notin {"none", "locked"}

\* Variant of PrepareAuto: locks are looked up before the rows are prepared.
PrepareAutoLate ==
  /\ auto.at = "prepare"
  /\ desk' = [c \in Ids |-> Linked(c)]
  /\ auto' = [auto EXCEPT !.at = "plan", !.locked = {}, !.kept = desk, !.opened = {c \in Ids : LosesLock(c)}]
  /\ UNCHANGED <<people, live, profiles, narrator, run, left>>

\* prepare_automatic_casting_assignments: a row without a decision is given
\* the live one of its character, lock and all, or is locked as a legacy one.
\* kept is what the rows were.
PrepareAuto ==
  /\ auto.at = "prepare"
  /\ desk' = [c \in Ids |-> Linked(c)]
  /\ auto' = [auto EXCEPT !.at = "plan", !.locked = LockedIn(desk'), !.kept = desk,
                          !.opened = {c \in Ids : LosesLock(c)}]
  /\ UNCHANGED <<people, live, profiles, narrator, run, left>>

\* The plan: who gets which voice.
Planned ==
  LET known == SelectSeq(lines, LAMBDA l : l.by \in Active)
      parts == {[id |-> c, traits |-> cast[c].traits, role |-> "supporting", styles |-> {}] : c \in Active}
      specs == SelectSeq(Voices!Specs(known, parts), LAMBDA s : s.id \notin auto.locked)
      voices == Voices!Eligible(Catalogue)
      who == CHOOSE v \in voices : v.id = auto.narrator
      taken == {auto.kept[c].voice : c \in auto.locked}
      plan == Voices!CastAll(specs, voices, who, taken)
  IN [i \in DOMAIN plan |-> [id |-> plan[i].id, voice |-> plan[i].voice.id]]
PlanAuto ==
  /\ auto.at = "plan"
  /\ auto' = [auto EXCEPT !.plan = Planned, !.at = IF Planned = <<>> THEN "done" ELSE "save"]
  /\ UNCHANGED <<people, booth, run, left>>

\* _project_voice and _save_decision of the next character.
SaveDecision ==
  /\ auto.at = "save"
  /\ profiles' = IF auto.plan[1].voice = auto.narrator THEN profiles ELSE profiles \cup {auto.plan[1].voice}
  /\ live' = [live EXCEPT ![auto.plan[1].id] = "open"]
  /\ auto' = [auto EXCEPT !.at = "assign"]
  /\ UNCHANGED <<people, desk, narrator, run, left>>

\* assign; a profile deleted meanwhile ends the casting.
AutoAssign ==
  /\ auto.at = "assign"
  /\ LET next == auto.plan[1]
         rest == Tail(auto.plan)
     IN IF next.voice \in profiles
        THEN /\ desk' = [desk EXCEPT ![next.id] = [voice |-> next.voice, locked |-> FALSE, decided |-> TRUE]]
             /\ auto' = [auto EXCEPT !.plan = rest, !.at = IF rest = <<>> THEN "done" ELSE "save"]
        ELSE desk' = desk /\ auto' = [auto EXCEPT !.at = "failed"]
  /\ UNCHANGED <<people, live, profiles, narrator, run, left>>
-----------------------------------------------------------------------------
(* People *)

\* An act disturbs a casting at work.
Act(what) ==
  /\ left[what] > 0
  /\ left' = [left EXCEPT ![what] = @ - 1]
  /\ auto' = [auto EXCEPT !.calm = FALSE]
  /\ UNCHANGED run

CreateCharacter(name) ==
  Act("people") /\ Added(Typed(name)) /\ UNCHANGED <<rulings, issues, lines, struck, raced, profiles, narrator>>

\* update_character: what a request has no field for stays, and the aliases
\* are the ones it gives, or the voice is.
UpdateCharacter(c, name, canonical, aliases, locked) ==
  /\ Act("people")
  /\ cast' = [cast EXCEPT ![c] = [@ EXCEPT !.name = name, !.canonical = canonical, !.aliases = Clean(aliases),
                                           !.locked = locked]]
  /\ struck' = struck \cup (NamesOf(cast[c]) \ NamesOf(cast'[c]))
  /\ UNCHANGED <<rulings, issues, lines, raced, booth>>
GiveVoice(c, v) ==
  /\ Act("voices")
  /\ v \in profiles \cup {0}
  /\ desk' = [desk EXCEPT ![c] = IF v = 0 THEN NoRow ELSE [voice |-> v, locked |-> TRUE, decided |-> FALSE]]
  /\ UNCHANGED <<people, live, profiles, narrator>>

\* override_character_voice: a voice of the catalogue is a decision of its own.
AssignVoice(c, v, lock, reuse) ==
  /\ Act("voices")
  /\ v \in profiles /\ (v = narrator.voice => reuse)
  /\ IF v = Custom
     THEN /\ desk' = [desk EXCEPT ![c] = [voice |-> v, locked |-> TRUE, decided |-> FALSE]]
          /\ live' = live
     ELSE /\ live' = [live EXCEPT ![c] = IF lock THEN "locked" ELSE "open"]
          /\ desk' = [desk EXCEPT ![c] = [voice |-> v, locked |-> lock, decided |-> TRUE]]
  /\ UNCHANGED <<people, profiles, narrator>>

\* production settings: the narrator's voice, by hand.
SetNarrator(v) ==
  /\ Act("voices")
  /\ v \in profiles
  /\ narrator' = [voice |-> v, hand |-> TRUE]
  /\ UNCHANGED <<people, desk, live, profiles>>

\* Variant of DeleteVoice: only the narrator's voice is in use.
DeleteVoiceUnused(v) ==
  /\ Act("voices")
  /\ v \in profiles /\ v # narrator.voice
  /\ profiles' = profiles \ {v}
  /\ UNCHANGED <<people, desk, live, narrator>>

DeleteVoice(v) ==
  /\ Act("voices")
  /\ v \in profiles /\ v # narrator.voice
  /\ \A c \in Ids : desk[c].voice # v
  /\ profiles' = profiles \ {v}
  /\ UNCHANGED <<people, desk, live, narrator>>

\* merge_characters, on rows that a create in the same handler may have added.
Merged(rows, seats, t, s) ==
  /\ t # s /\ rows[s].into \in {0, t}
  /\ cast' = [rows EXCEPT
                ![t].aliases = Clean(@ \o <<rows[s].name, rows[s].canonical>> \o rows[s].aliases),
                ![t].traits = @ \cup rows[s].traits, ![t].relations = @ \cup rows[s].relations,
                ![s].into = t, ![s].locked = TRUE]
  /\ lines' = [i \in DOMAIN lines |-> IF lines[i].by = s THEN [lines[i] EXCEPT !.by = t] ELSE lines[i]]
  /\ rulings' = Ruled({rows[t].name, rows[s].name}, "confirmed")
  /\ desk' = [seats EXCEPT ![t] = IF @.voice = 0 THEN seats[s] ELSE @, ![s] = NoRow]
Merge(t, s) ==
  Act("people") /\ Merged(cast, desk, t, s) /\ UNCHANGED <<issues, struck, raced, live, profiles, narrator>>

Split(c, name) ==
  /\ Act("people")
  /\ Added([Typed(name) EXCEPT !.segment = cast[c].segment,
                               !.confidence = IF cast[c].confidence < 75 THEN cast[c].confidence ELSE 75])
  /\ UNCHANGED <<rulings, issues, lines, struck, raced, profiles, narrator>>

\* reject_merge: the ruling, and every open finding about the two.
RejectMerge(c, name) ==
  /\ Act("people") /\ cast[c].name # name
  /\ rulings' = Ruled({cast[c].name, name}, "rejected")
  /\ issues' = {IF /\ i.kind = "possible_duplicate" /\ i.open /\ i.name = name
                   /\ (i.possible = {} \/ \E p \in i.possible : cast[p].name = cast[c].name)
                THEN [i EXCEPT !.open = FALSE] ELSE i : i \in issues}
  /\ UNCHANGED <<cast, lines, struck, raced, booth>>

\* The first character of the name, merged away or not.
ByName(name) ==
  LET same == {c \in Ids : name \in NamesOf(cast[c])}
  IN IF same = {} THEN 0 ELSE CHOOSE c \in same : \A d \in same : c <= d

\* apply_action on a possible duplicate: the candidate, created if need be,
\* becomes part of a character that is active.
ApplyMergeCast(i, t) ==
  /\ Act("people") /\ i.kind = "possible_duplicate"
  /\ t \in Active
  /\ LET s == ByName(i.name)
     IN IF s # 0
        THEN Merged(cast, desk, t, s) /\ UNCHANGED live
        ELSE /\ Len(cast) < MaxCast
             /\ Merged(Append(cast, [CharacterOf(i.cand, <<>>) EXCEPT !.id = Len(cast) + 1]),
                       Append(desk, NoRow), t, Len(cast) + 1)
             /\ live' = Append(live, "none")
  /\ issues' = (issues \ {i}) \cup {[i EXCEPT !.open = FALSE]}
  /\ UNCHANGED <<struck, raced, profiles, narrator>>

\* apply_action on one the discovery was not sure of.
ApplyConfirmCast(i) ==
  /\ Act("people") /\ i.kind = "low_confidence"
  /\ IF ByName(i.name) # 0 THEN UNCHANGED <<cast, desk, live>>
     ELSE Added([CharacterOf(i.cand, <<>>) EXCEPT !.aliases = <<>>])
  /\ issues' = (issues \ {i}) \cup {[i EXCEPT !.open = FALSE]}
  /\ UNCHANGED <<rulings, lines, struck, raced, profiles, narrator>>
-----------------------------------------------------------------------------
DiscoverNext ==
  \E r \in Runner :
    \/ \E kind \in Kinds : Discover(r, kind)
    \/ ReadIndex(r) \/ Decide(r) \/ ApplyMerge(r) \/ WriteObservations(r) \/ ApplyNew(r) \/ ApplyIssue(r)
AutoNext == BeginAuto \/ PrepareAuto \/ PlanAuto \/ SaveDecision \/ AutoAssign
UserNext ==
  \/ \E n \in NewNames : CreateCharacter(n)
  \/ \E c \in Ids :
       \/ \E n \in NewNames \cup {cast[c].name}, aliases \in {cast[c].aliases, <<>>}, locked \in BOOLEAN :
            \E canonical \in {n, cast[c].canonical} : UpdateCharacter(c, n, canonical, aliases, locked)
       \/ \E v \in VoiceIds \cup {0} : GiveVoice(c, v)
       \/ \E v \in VoiceIds, lock, reuse \in BOOLEAN : AssignVoice(c, v, lock, reuse)
       \/ \E t \in Ids : Merge(t, c)
       \/ \E n \in NewNames : Split(c, n) \/ RejectMerge(c, n)
  \/ \E v \in VoiceIds : SetNarrator(v) \/ DeleteVoice(v)
  \/ \E i \in issues : ApplyConfirmCast(i) \/ \E t \in Ids : ApplyMergeCast(i, t)
CastNext == DiscoverNext \/ AutoNext \/ UserNext
CastSpec == CastInit /\ [][CastNext]_castVars
-----------------------------------------------------------------------------
\* Whoever a discovery has read of is a name of somebody, in front of a person
\* or was taken for a character that is locked, whatever other discoveries and
\* people do meanwhile; a name goes only if people take it from a character, or
\* if it was written to a row that some discovery had read before and wrote
\* after (_apply_candidate, update_character).
NobodyIsLost ==
  \A r \in Runner : \A p \in run[r].past :
    \/ \E i \in issues : i.name = p.name
    \/ \E c \in Ids : p.name \in NamesOf(cast[c])
    \/ p.how = "held"
    \/ p.name \in struck \cup raced

\* Stricter than what the code keeps: discovery takes no name from a character,
\* however many of them are at work.  docs/architecture/
\* end-to-end-workflow-architecture.md says that enrichment is additive, new
\* evidence extends aliases; a write from a stale reading does not
\* (_merge_character_observations).
ObservationsAreKept ==
  [][DiscoverNext => \A c \in Ids : NamesOf(cast[c]) \subseteq NamesOf(cast'[c])]_castVars

\* A casting nobody disturbs leaves nobody without a voice, and whoever had a
\* locked one before it prepared its rows keeps it, locked; except one that was
\* given by hand after a decision that is still open (auto_cast).
CastIsVoiced ==
  (auto.at = "done" /\ auto.calm) =>
    /\ \A c \in Ids \cap DOMAIN auto.kept : cast[c].into = 0 => desk[c].voice # 0
    /\ \A c \in DOMAIN auto.kept : (auto.kept[c].locked /\ c \notin auto.opened)
                                   => desk[c].voice = auto.kept[c].voice /\ desk[c].locked

\* Stricter than what the code keeps: a casting nobody disturbs leaves every
\* locked voice as it was, without exception, since a rerun treats each as fixed
\* (docs/pipeline/casting/automatic-casting-v2.md; auto_cast,
\* prepare_automatic_casting_assignments).
LockedVoicesAreFixed ==
  (auto.at = "done" /\ auto.calm) =>
    \A c \in DOMAIN auto.kept : auto.kept[c].locked => desk[c].voice = auto.kept[c].voice

\* No row names a voice that is gone, whoever deletes, merges or casts
\* meanwhile (delete_voice, _set_assignment).
VoicesInUseExist ==
  /\ \A c \in Ids : desk[c].voice \in profiles \cup {0}
  /\ narrator.voice \in profiles \cup {0}
=============================================================================
