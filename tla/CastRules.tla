----------------------------- MODULE CastRules -----------------------------
(***************************************************************************)
(* The clusters of cast v2, the index of known characters, the decision    *)
(* about one candidate and the profile of one that is kept.                *)
(* A character is [id, name, canonical, aliases, traits, relations,        *)
(* segment, into, locked, confidence]; into is 0 for one that was not      *)
(* merged away.                                                            *)
(***************************************************************************)
EXTENDS CastNames

(* cast_v2 *)

\* One form per name that occurs: the mentions of it, the guesses made for it
\* and the windows it speaks in.
AggregateForms(mentions) ==
  LET of(k) == {m \in ToSet(mentions) : m.name = k}
  IN [k \in {m.name : m \in ToSet(mentions)} \ {<<>>} |->
        [mentions |-> {m.id : m \in of(k)},
         guesses |-> {m.guess : m \in of(k)} \ {<<>>},
         speaks |-> {m.window : m \in {x \in of(k) : x.role = "speaker"}}]]

\* Two names that speak in one window are two people.
CannotLinkPairs(forms) ==
  {p \in {{a, b} : a, b \in DOMAIN forms} :
     /\ Cardinality(p) = 2
     /\ \E w \in UNION {forms[k].speaks : k \in DOMAIN forms} : \A k \in p : w \in forms[k].speaks}

StripTitle(n) == IF n # <<>> /\ n[1] \in Honorifics THEN Tail(n) ELSE n

StringSimilarity(l, r) ==
  LET initials == Len(l) = 1 \/ Len(r) = 1 \/ SubSeq(l[1], 1, 1) = SubSeq(r[1], 1, 1)
  IN CASE l = r -> 100
       [] StripTitle(l) # <<>> /\ StripTitle(l) = StripTitle(r) -> 98
       [] Last(l) = Last(r) /\ initials -> 90
       [] FuzzyMatch(l, r) /\ Max2(KeyLength(l), KeyLength(r)) >= 6 -> 89
       [] OTHER -> 0

\* alike[{a, b}]: what the embeddings say of two names, 0 without them.
FormPairScore(a, b, forms, alike, confirmed) ==
  LET boosted == IF alike[{a, b}] >= 84 THEN (alike[{a, b}] * 9) \div 10 ELSE 0
  IN CASE {a, b} \in confirmed -> 100
       [] \/ forms[a].guesses \cap ({b} \cup forms[b].guesses) # {}
          \/ a \in forms[b].guesses -> 99
       [] OTHER -> Max2(boosted, StringSimilarity(a, b))

ClustersConflict(left, right, cannot) == \E l \in left, r \in right : {l, r} \in cannot

\* The best pair of forms of two clusters; the first by name of equal ones.
ClusterPairScore(left, right, forms, alike, confirmed) ==
  LET score(p) == FormPairScore(p[1], p[2], forms, alike, confirmed)
      before(p, q) == \/ p.score > q.score
                      \/ /\ p.score = q.score
                         /\ NameBefore(p.left, q.left) \/ (p.left = q.left /\ NameAtMost(p.right, q.right))
      scored == {[score |-> score(p), left |-> p[1], right |-> p[2]] : p \in left \X right}
  IN CHOOSE p \in scored : \A q \in scored : before(p, q)

\* Variant of Joinable: only the pair that scores is looked at for a conflict.
JoinableByPair(clusters, forms, alike, confirmed, cannot) ==
  {c \in {[at |-> <<i, j>>, best |-> ClusterPairScore(clusters[i], clusters[j], forms, alike, confirmed)] :
            i, j \in DOMAIN clusters} :
     /\ c.at[1] < c.at[2]
     /\ {c.best.left, c.best.right} \notin cannot
     /\ c.best.score >= ClusterThreshold}

\* The pairs of clusters that may be joined.
Joinable(clusters, forms, alike, confirmed, cannot) ==
  {c \in {[at |-> <<i, j>>, best |-> ClusterPairScore(clusters[i], clusters[j], forms, alike, confirmed)] :
            i, j \in DOMAIN clusters} :
     /\ c.at[1] < c.at[2]
     /\ ~ClustersConflict(clusters[c.at[1]], clusters[c.at[2]], cannot)
     /\ c.best.score >= ClusterThreshold}

\* The best two clusters are joined; of equally good ones the last by name.
JoinBest(clusters, able) ==
  LET after(c, d) == \/ c.best.score > d.best.score
                     \/ /\ c.best.score = d.best.score
                        /\ \/ NameBefore(d.best.left, c.best.left)
                           \/ d.best.left = c.best.left /\ NameAtMost(d.best.right, c.best.right)
      joined(at) == RemoveAt([clusters EXCEPT ![at[1]] = @ \cup clusters[at[2]]], at[2])
  IN IF able = {} THEN clusters ELSE joined((CHOOSE c \in able : \A d \in able : after(c, d)).at)

\* Names that may not be the same person's, and the mentions' own form of it.
CannotLink(forms, confirmed, rejected) == (CannotLinkPairs(forms) \cup rejected) \ confirmed
ClusterForms(forms, alike, confirmed, cannot) ==
  FoldLeft(LAMBDA clusters, n : JoinBest(clusters, Joinable(clusters, forms, alike, confirmed, cannot)),
           MapSeq(LAMBDA k : {k}, SortedNames(DOMAIN forms)), [i \in 1..Cardinality(DOMAIN forms) |-> i])

\* cluster_mentions: clusters are joined until none may be, which takes less
\* than one round a form.
ClusterMentions(mentions, alike, confirmed, rejected) ==
  LET forms == AggregateForms(mentions)
  IN ClusterForms(forms, alike, confirmed, CannotLink(forms, confirmed, rejected))

\* _v2_candidates: each cluster is a candidate, made of its own mentions.
CandidatesOf(mentions, clusters) ==
  [i \in DOMAIN clusters |-> CandidateFrom(SelectSeq(mentions, LAMBDA m : m.name \in clusters[i]))]
ClusterCandidates(mentions, alike, confirmed, rejected) ==
  CandidatesOf(mentions, ClusterMentions(mentions, alike, confirmed, rejected))
-----------------------------------------------------------------------------
(* Known characters *)

\* What a name is to the character or candidate it is a name of.
NamesOf(c) == (ToSet(c.aliases) \cup {c.name, c.canonical}) \ {<<>>}
ObservedNames(cand) == ({cand.name} \cup ToSet(cand.aliases)) \ {<<>>}
CandidateNames(cand) == ObservedNames(cand) \cup ToSet(cand.generated)

\* Characters that have one of the candidate's names; `observed` when the name
\* was seen in the book and not made up from a nickname.
Exact(cand, index) ==
  {[of |-> c, observed |-> ObservedNames(cand) \cap NamesOf(c) # {}] :
     c \in {x \in index : CandidateNames(cand) \cap NamesOf(x) # {}}}

MatchScore(cand, c) ==
  LET some(match(_, _)) == \E l \in CandidateNames(cand), r \in NamesOf(c) : match(l, r)
  IN CASE CandidateNames(cand) = {} \/ NamesOf(c) = {} -> 0
       [] CandidateNames(cand) \cap NamesOf(c) # {} -> 120
       [] some(HonorificSurnameMatch) -> 70
       [] some(NicknameMatch) -> 80
       [] some(SoftMatch) -> 65
       [] cand.relations \cap c.relations # {} -> 40
       [] cand.segment = c.segment -> 10
       [] OTHER -> 0

\* The best five, by score and then by name.
Shortlist(cand, index) ==
  LET scored == {[of |-> c, score |-> MatchScore(cand, c)] : c \in {x \in index : x.into = 0}}
      before(a, b) == \/ a.score > b.score
                      \/ /\ a.score = b.score
                         /\ \/ NameBefore(a.of.name, b.of.name)
                            \/ a.of.name = b.of.name /\ a.of.id < b.of.id
      best(sorted) == [i \in 1..Cardinality(DOMAIN sorted \cap 1..ShortlistLimit) |-> sorted[i].of]
  IN best(SetToSortSeq({s \in scored : s.score > 0}, before))

Decision(action, target, confidence, possible) ==
  [action |-> action, target |-> target, confidence |-> confidence, possible |-> possible]

\* Variant of DecisionForCandidate: of several exact matches the first is taken.
DecisionForCandidateEager(cand, index, rejected, answer) ==
  LET allowed(c) == {cand.name, c.name} \notin rejected
      exact == {m \in Exact(cand, index) : allowed(m.of)}
      one == CHOOSE m \in exact : TRUE
  IN IF exact # {} /\ one.observed /\ TraitConflicts(one.of.traits, cand.traits) = {}
     THEN Decision("merge", one.of.id, Max2(cand.confidence, 90), {})
     ELSE Decision("unsure", 0, cand.confidence, {})

\* The decision, given the exact matches and the shortlist that no ruling
\* tells apart.
DecisionFrom(cand, exact, short, answer) ==
  LET agrees(c) == TraitConflicts(c.traits, cand.traits) = {}
      one == CHOOSE m \in exact : TRUE
      sole == Cardinality(exact) = 1 /\ one.observed /\ agrees(one.of)
      possible == {c.id : c \in ToSet(short)}
  IN CASE sole -> Decision("merge", one.of.id, Max2(cand.confidence, 90), {})
       [] /\ ~sole /\ Len(short) = 1
          /\ MatchScore(cand, short[1]) >= SafeShortlistScore /\ agrees(short[1]) ->
            Decision("merge", short[1].id, Max2(cand.confidence, 84), possible)
       [] OTHER ->
            CASE short # <<>> /\ answer # {} -> [(CHOOSE a \in answer : TRUE) EXCEPT !.possible = possible]
              [] short = <<>> /\ cand.confidence >= AutoCreateConfidence ->
                   Decision("new", 0, cand.confidence, {})
              [] OTHER -> Decision("unsure", 0, cand.confidence, possible)

\* answer is {} without a model, else {its decision}.
DecisionForCandidate(cand, index, rejected, answer) ==
  LET allowed(c) == {cand.name, c.name} \notin rejected
  IN DecisionFrom(cand, {m \in Exact(cand, index) : allowed(m.of)},
                  SelectSeq(Shortlist(cand, index), allowed), answer)

\* cast v2 asks the model about every cluster the rules do not settle.
DecisionForCluster(cand, index, rejected, answer) ==
  LET allowed(c) == {cand.name, c.name} \notin rejected
      told == CHOOSE a \in answer : TRUE
      asked(rules, short) ==
        CASE rules.action = "merge" \/ answer = {} -> rules
          [] rules.action # "merge" /\ answer # {} /\ short = <<>> /\ told.action = "unsure" -> rules
          [] OTHER -> [told EXCEPT !.possible = {c.id : c \in ToSet(short)}]
  IN asked(DecisionForCandidate(cand, index, rejected, {}), SelectSeq(Shortlist(cand, index), allowed))

\* _llm_merge_decision: the answer about this candidate, read from what the
\* model says; anything else is "unsure".  A target without an id is the only
\* known character of the name given.
LlmDecision(cand, said, index) ==
  LET action == IF said.action = "merge_existing" THEN "merge" ELSE said.action
      named == {c \in index : said.named \in NamesOf(c)}
      byName == IF Cardinality(named) = 1 THEN (CHOOSE c \in named : TRUE).id ELSE 0
  IN CASE said.about # cand.name -> Decision("unsure", 0, cand.confidence, {})
       [] OTHER -> Decision(IF action \in {"merge", "new", "split"} THEN action ELSE "unsure",
                            IF said.target # 0 THEN said.target ELSE byName,
                            Max2(cand.confidence, said.confidence), {})
-----------------------------------------------------------------------------
(* Profiles and observations *)

\* The profile adds to what the mentions showed, and only that.
ProfileCandidate(cand, profile) ==
  [cand EXCEPT
     !.confidence = Max2(@, profile.confidence),
     !.traits = @ \cup profile.traits
                  \cup {<<"gender", g>> : g \in profile.gender} \cup {<<"age", a>> : a \in profile.age},
     !.relations = @ \cup profile.relations]

\* A character and what a candidate adds to it; a locked one stays.
Observed(c, cand, aliases) ==
  IF c.locked THEN c
  ELSE [c EXCEPT !.aliases = Clean(@ \o <<cand.name>> \o cand.aliases \o cand.generated \o aliases),
                 !.traits = @ \cup cand.traits,
                 !.relations = @ \cup cand.relations,
                 !.confidence = Max2(@, cand.confidence)]
-----------------------------------------------------------------------------
(* Properties of one input; MCAlgorithms says which inputs are tried *)

\* However pairs chain, no cluster holds two names a reviewer told apart, or
\* that speak in one window, unless the reviewer joined them; every mention is
\* in one cluster; and what is left apart conflicts or is not alike enough
\* (cluster_mentions).
ClustersObeyRulings(mentions, alike, confirmed, clusters, made, apart) ==
  LET forms == AggregateForms(mentions)
  IN /\ \A i \in DOMAIN clusters : \A a, b \in clusters[i] : {a, b} \notin apart
     /\ \A m \in ToSet(mentions) : Cardinality({i \in DOMAIN made : m.id \in made[i].mentions}) = 1
     /\ \A i, j \in DOMAIN clusters :
          i # j => \/ ClustersConflict(clusters[i], clusters[j], apart)
                   \/ \A a \in clusters[i], b \in clusters[j] :
                        FormPairScore(a, b, forms, alike, confirmed) < ClusterThreshold

\* The first grouping loses and doubles no mention that was kept, and a
\* candidate has a name and is seen where it is first read
\* (_candidates_from_mentions).
GroupsAreWhole(kept, made) ==
     /\ \A m \in ToSet(kept) : Cardinality({i \in DOMAIN made : m.id \in made[i].mentions}) = 1
     /\ \A i \in DOMAIN made : made[i].name # <<>>
     /\ \A i \in DOMAIN made : \A m \in ToSet(kept) :
          m.id \in made[i].mentions => /\ made[i].segment <= m.segment
                                       /\ {m.name, GuessOf(m)} \subseteq CandidateNames(made[i])
                                            \cup {m.name}

\* Every segment of a scene is read by the model, in order, and each window
\* but the first starts where the one before ended (_cast_windows).
WindowsCover(lengths, limit) ==
  LET windows == CastWindows(lengths, limit)
      new(i) == IF i = 1 THEN windows[i] ELSE Tail(windows[i])
  IN /\ Flatten([i \in DOMAIN windows |-> new(i)]) = [i \in DOMAIN lengths |-> i]
     /\ \A i \in DOMAIN windows : i > 1 => windows[i][1] = Last(windows[i - 1])

\* Without a model nobody is merged who might be someone else: every other
\* character with one of the candidate's own names was told apart from it, the
\* traits agree, and nobody is created beside a character like them.
DecisionIsSafe(d, cand, index, rejected) ==
  LET named == {c \in index : ObservedNames(cand) \cap NamesOf(c) # {}}
  IN /\ d.action = "merge" =>
          \E c \in index : /\ c.id = d.target
                           /\ TraitConflicts(c.traits, cand.traits) = {}
                           /\ {c.name, cand.name} \notin rejected
                           /\ \A o \in named \ {c} : {o.name, cand.name} \in rejected
     /\ d.action = "new" => \A c \in named : {c.name, cand.name} \in rejected
=============================================================================
