----------------------------- MODULE CastNames -----------------------------
(***************************************************************************)
(* How cast discovery decides who is who: mentions of names are filtered,  *)
(* grouped or clustered into candidates, and a candidate is compared with  *)
(* the characters already in the book.  A name is the sequence of the      *)
(* words of its key, scores and confidences are whole percents, and which  *)
(* words are spelling variants of each other is a table.                   *)
(***************************************************************************)
EXTENDS Integers, Sequences, FiniteSets, SequencesExt

AutoCreateConfidence == 72
SafeShortlistScore == 100
ClusterThreshold == 78
ShortlistLimit == 5

Honorifics == {"mr", "mrs", "dr", "captain"}
TitleTraits == [w \in Honorifics \cup {"doctor"} |->
                  CASE w = "captain" -> <<"role", "captain">>
                    [] w \in {"dr", "doctor"} -> <<"role", "doctor">>
                    [] OTHER -> <<"role", "nobility">>]
NicknameAliases == [elizabeth |-> <<"liz", "beth">>, liz |-> <<"elizabeth", "beth">>,
                    beth |-> <<"elizabeth", "liz">>]
\* Words one letter apart, and the words that are part of a longer one.
Misspelt == {{"watson", "wattson"}}
Inside == {<<"beth", "elizabeth">>}
\* The words the models use, in the order of the alphabet.
Words == <<"anne", "beth", "captain", "chapter", "dr", "elizabeth", "he", "holmes", "liz", "mary",
           "mr", "mrs", "sherlock", "the", "watson", "wattson">>
Ignored == {<<"he">>, <<"chapter">>}
GenericRoles == {<<"the", "captain">>}
NonCharacterTypes == {"place", "organization"}

Rank == [w \in ToSet(Words) |-> CHOOSE i \in DOMAIN Words : Words[i] = w]
Max2(a, b) == IF a < b THEN b ELSE a

\* Names in the order of their keys; "" comes first.
NameBefore(a, b) ==
  \/ IsStrictPrefix(a, b)
  \/ \E i \in DOMAIN a \cap DOMAIN b : /\ Rank[a[i]] < Rank[b[i]]
                                       /\ \A j \in 1..(i - 1) : a[j] = b[j]
NameAtMost(a, b) == a = b \/ NameBefore(a, b)
SortedNames(S) == SetToSortSeq(S, NameBefore)
FirstName(S) == SortedNames(S)[1]

\* _clean_strings: the first of equal names, and no empty one.
Clean(names) ==
  FoldLeft(LAMBDA out, n : IF n = <<>> \/ Contains(out, n) THEN out ELSE Append(out, n), <<>>, names)
Flatten(seqs) == FoldLeft(LAMBDA out, s : out \o s, <<>>, seqs)
MapSeq(f(_), s) == [i \in DOMAIN s |-> f(s[i])]

\* The name without its title, or {} when there is none to take off.
StripHonorific(n) == IF Len(n) >= 2 /\ n[1] \in Honorifics THEN {Tail(n)} ELSE {}

NicknamesOf(word) == IF word \in DOMAIN NicknameAliases THEN NicknameAliases[word] ELSE <<>>

AliasCandidates(n) ==
  (IF Len(n) > 1 /\ n[1] \in DOMAIN TitleTraits THEN <<Tail(n)>> ELSE <<>>)
    \o Flatten(MapSeq(LAMBDA w : MapSeq(LAMBDA a : <<a>>, NicknamesOf(w)), n))

HonorificSurnameMatch(l, r) ==
  /\ Len(l) >= 2 /\ Len(r) >= 2
  /\ Last(l) = Last(r)
  /\ (l[1] \in Honorifics) # (r[1] \in Honorifics)

NicknameMatch(l, r) ==
  \E a \in ToSet(l), b \in ToSet(r) :
     b \in ToSet(NicknamesOf(a)) \/ a \in ToSet(NicknamesOf(b))

\* The same number of words, and one letter wrong in all of them together.
FuzzyMatch(l, r) ==
  /\ Len(l) = Len(r) /\ l # <<>>
  /\ Cardinality({i \in DOMAIN l : l[i] # r[i]}) <= 1
  /\ \A i \in DOMAIN l : l[i] = r[i] \/ {l[i], r[i]} \in Misspelt

KeyLength(n) == FoldLeft(LAMBDA sum, w : sum + Len(w) + 1, -1, n)

\* One key is part of the other: whole words in a row, or a word of a word.
PartOf(l, r) ==
  \/ \E i \in 0..(Len(r) - Len(l)) : l = SubSeq(r, i + 1, i + Len(l))
  \/ Len(l) = 1 /\ \E w \in ToSet(r) : <<l[1], w>> \in Inside

SoftMatch(l, r) ==
  /\ KeyLength(l) >= 4 /\ KeyLength(r) >= 4
  /\ \/ PartOf(l, r) \/ PartOf(r, l)
     \/ NicknameMatch(l, r)
     \/ FuzzyMatch(l, r)
     \/ HonorificSurnameMatch(l, r)

\* Traits are <<namespace, value>>: the candidate says something of a
\* namespace that the character's own traits do not.
TraitConflicts(existing, candidate) ==
  {t \in candidate : /\ \E e \in existing : e[1] = t[1]
                     /\ t \notin existing}

ExtractTraits(n, pronouns) ==
  (IF n # <<>> /\ n[1] \in DOMAIN TitleTraits THEN {TitleTraits[n[1]]} ELSE {})
    \cup {<<"gender", g>> : g \in pronouns}
-----------------------------------------------------------------------------
(* Mentions *)

Mention(id, name, guess, role, segment, window, confidence) ==
  [id |-> id, name |-> name, guess |-> guess, type |-> "person", role |-> role, segment |-> segment,
   window |-> window, confidence |-> confidence, traits |-> ExtractTraits(name, {}), relations |-> {}]

\* Windows of a scene for the model: at most `limit` characters, each new one
\* starting with the last segment of the one before.
CastWindows(lengths, limit) ==
  LET total(w) == FoldLeft(LAMBDA sum, i : sum + lengths[i], 0, w)
      step(acc, i) ==
        IF acc.window # <<>> /\ acc.chars + lengths[i] > limit
        THEN LET next == <<Last(acc.window), i>>
             IN [out |-> Append(acc.out, acc.window), window |-> next, chars |-> total(next)]
        ELSE [acc EXCEPT !.window = Append(@, i), !.chars = @ + lengths[i]]
      end == FoldLeft(step, [out |-> <<>>, window |-> <<>>, chars |-> 0], [i \in DOMAIN lengths |-> i])
  IN IF end.window = <<>> THEN end.out ELSE Append(end.out, end.window)

\* The speaker the parser saw, then the names the text itself gives.
SegmentMentions(segment) ==
  LET speaks == segment.speaker # <<>> /\ segment.speaker \notin Ignored
      told == SelectSeq(Clean(segment.names), LAMBDA n : n \notin Ignored /\ n # segment.speaker)
      conf(c) == IF c = 0 THEN 45 ELSE IF c > 70 THEN 70 ELSE Max2(45, c)
  IN (IF speaks THEN <<Mention(<<segment.id, 0>>, segment.speaker, segment.speaker, "speaker",
                               segment.id, <<"det", segment.scene>>, segment.confidence)>>
      ELSE <<>>)
     \o [i \in DOMAIN told |-> Mention(<<segment.id, i>>, told[i], told[i], "mentioned", segment.id,
                                       <<"det", segment.scene>>, conf(segment.confidence))]

\* A mention of the model's answer: dropped unless it names someone and a
\* segment that exists.
LlmMention(answer, known) ==
  IF answer.name = <<>> \/ answer.segment \notin known THEN {}
  ELSE {[answer EXCEPT !.guess = IF @ = <<>> THEN answer.name ELSE @]}

PersonLike(n) == /\ n # <<>> /\ Len(n) <= 4
                 /\ n[1] \notin {"chapter", "scene", "page", "part"}

FilterReasons(m, mentions, matter) ==
  {r \in {"matter_excluded", "entity_type", "ignored_name", "generic_singleton", "not_person_like"} :
     CASE r = "matter_excluded" -> m.segment \in matter
       [] r = "entity_type" -> m.type \in NonCharacterTypes
       [] r = "ignored_name" -> m.name \in Ignored
       [] r = "generic_singleton" ->
            m.name \in GenericRoles /\ Len(SelectSeq(mentions, LAMBDA x : x.name = m.name)) < 2
       [] r = "not_person_like" -> ~PersonLike(m.name)}

FilterMentions(mentions, matter) ==
  SelectSeq(mentions, LAMBDA m : FilterReasons(m, mentions, matter) = {})
-----------------------------------------------------------------------------
(* Candidates *)

GuessOf(m) == IF m.guess # <<>> THEN m.guess ELSE m.name

MentionsBelongTogether(group, m) ==
  \E l \in {GuessOf(x) : x \in ToSet(group)} \ {<<>>}, r \in {m.name, m.guess} \ {<<>>} :
     l = r \/ SoftMatch(l, r) \/ HonorificSurnameMatch(l, r)

\* The order of the book; the model's windows ("castwin") come before the
\* parser's ("det") at the same place.
MentionBefore(a, b) ==
  \/ a.segment < b.segment
  \/ a.segment = b.segment /\ a.window # b.window /\ a.window[1] = "castwin"
  \/ a.segment = b.segment /\ a.window = b.window /\ a.id[2] < b.id[2]

\* The first group a mention belongs to takes it, in the order of the book.
Groups(mentions) ==
  LET place(groups, m) ==
        LET fits == {i \in DOMAIN groups : MentionsBelongTogether(groups[i], m)}
            first == CHOOSE i \in fits : \A j \in fits : i <= j
        IN IF fits = {} THEN Append(groups, <<m>>)
           ELSE [groups EXCEPT ![first] = Append(@, m)]
  IN FoldLeft(place, <<>>, SortSeq(mentions, MentionBefore))

\* A title goes when two words are left, or when another segment has the bare
\* name.
CanonicalPersonName(n, segment, bare) ==
  LET keep == StripHonorific(n) = {}
      stripped == CHOOSE s \in StripHonorific(n) : TRUE
  IN CASE keep -> n
       [] Len(stripped) >= 2 \/ \E b \in bare : b[1] = stripped /\ b[2] # segment -> stripped
       [] OTHER -> n

\* The longest name of several words, or the first.
BestOf(explicit) ==
  LET multi == SelectSeq(explicit, LAMBDA n : Len(n) >= 2)
      better(a, b) == \/ Len(a) > Len(b)
                      \/ Len(a) = Len(b) /\ KeyLength(a) > KeyLength(b)
      longest(s) == s[CHOOSE i \in DOMAIN s :
                        \A j \in DOMAIN s : IF j < i THEN better(s[i], s[j]) ELSE ~better(s[j], s[i])]
  IN longest(IF multi = <<>> THEN <<explicit[1]>> ELSE multi)
BestCanonicalName(mentions) ==
  LET raw == SelectSeq(Flatten([i \in DOMAIN mentions |-> << <<mentions[i].guess, mentions[i].segment>>,
                                                             <<mentions[i].name, mentions[i].segment>> >>]),
                       LAMBDA c : c[1] # <<>>)
      explicit(all) == [i \in DOMAIN all |-> CanonicalPersonName(all[i][1], all[i][2], ToSet(all))]
  IN BestOf(explicit(raw))

CandidateNamed(mentions, name) ==
  LET other(n) == n # <<>> /\ n # name
      others == SelectSeq(MapSeq(LAMBDA m : m.name, Tail(mentions)) \o MapSeq(LAMBDA m : m.guess, mentions), other)
  IN [name |-> name, aliases |-> Clean(others), generated |-> AliasCandidates(name),
      segment |-> mentions[1].segment, mentions |-> {m.id : m \in ToSet(mentions)},
      confidence |-> FoldLeft(LAMBDA c, m : Max2(c, m.confidence), 0, mentions),
      traits |-> UNION {m.traits : m \in ToSet(mentions)},
      relations |-> UNION {m.relations : m \in ToSet(mentions)}]
CandidateFrom(mentions) == CandidateNamed(mentions, BestCanonicalName(mentions))

Candidates(mentions) == MapSeq(CandidateFrom, Groups(mentions))
=============================================================================
