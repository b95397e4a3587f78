--------------------------- MODULE MCSpeakerDesk ---------------------------
(* A scene of three lines, told in one of three ways. *)
EXTENDS SpeakerDesk

Say(i, speaker, sure) ==
  [id |-> i, scene |-> 1, dialogue |-> TRUE, quoted |-> TRUE, speaker |-> speaker, sure |-> sure, cue |-> "",
   pronoun |-> "", addressed |-> "", broken |-> FALSE, chars |-> 100]
Tell(i) == [Say(i, "", 70) EXCEPT !.dialogue = FALSE, !.quoted = FALSE, !.cue = "mara"]
MCBooks == { <<Say(1, "mara", 90), Say(2, "theo", 90), Say(3, "", 0)>>,
             <<Say(1, "zed", 90), Say(2, "theo", 90), Say(3, "theo", 60)>>,
             <<Say(1, "", 0), Tell(2), Say(3, "mara", 60)>> }
MCCast0 == << [id |-> "c1", name |-> "mara", aliases |-> {}, gender |-> ""],
              [id |-> "c2", name |-> "theo", aliases |-> {}, gender |-> ""] >>
MCBallots == { <<>>, <<Vote("c2", 30)>>, <<Vote("c2", 50), Vote("c1", 60)>>,
               <<Vote("unknown", 30), Vote("c1", 60), Vote("c1", 60), Vote("c1", 60)>> }
MCReplies == {[name |-> "he", by |-> "mara", sure |-> 85]}
Ask(set, who, status, lock) == [set |-> set, who |-> who, status |-> status, lock |-> lock]
MCEdits == {Ask(TRUE, "c1", "approved", {TRUE}), Ask(TRUE, "c2", "approved", {})}
Budget(r, e) == [runs |-> r, edits |-> e]
MCBudgets == {Budget(1, 2), Budget(2, 1)}
=============================================================================
