---- MODULE MCStudyQueues ----
(* Small instances of StudyQueues for TLC. *)
EXTENDS StudyQueues
CONSTANTS a, b, c

NewCard(position) ==
  [ctype |-> "New", queue |-> "New", due |-> position, reps |-> 0, flag |-> FALSE,
   in_deck |-> TRUE, mtime |-> Epoch - 1]
ReviewCard == [NewCard(0) EXCEPT !.ctype = "Review", !.queue = "Review", !.reps = 1]
LearnCard(due) ==
  [NewCard(0) EXCEPT !.ctype = "Learn", !.queue = "Learn", !.due = due, !.reps = 1]

\* a and b are cards of one note.
Siblings == [id \in Cards |-> IF id = c THEN "n2" ELSE "n1"]
Unrelated == [id \in Cards |-> id]

BuryAll == [id \in Cards |-> MainQueues]
BuryNone == [id \in Cards |-> {}]
BuryFromB == [id \in Cards |-> IF id = b THEN {"New"} ELSE {}]

TwoNewOneReview ==
  [id \in Cards |-> CASE id = a -> NewCard(1) [] id = b -> NewCard(2) [] OTHER -> ReviewCard]
AllNew == [id \in Cards |-> NewCard(1)]
AllReview == [id \in Cards |-> ReviewCard]
TwoLearnOneReview ==
  [id \in Cards |-> IF id = c THEN ReviewCard ELSE LearnCard(Epoch)]
LearnAndNew ==
  [id \in Cards |-> IF id = a THEN LearnCard(Epoch) ELSE NewCard(1)]
OneBuried ==
  [id \in Cards |-> IF id = a THEN [LearnCard(Epoch) EXCEPT !.queue = "UserBuried"]
                    ELSE ReviewCard]

\* In a filtered deck every card is in the review queue: a has never been
\* answered, b has.
NewAndStudied ==
  [id \in Cards |-> IF id = a THEN [NewCard(1) EXCEPT !.queue = "Review"] ELSE ReviewCard]
====
