---- MODULE MCDecks ----
EXTENDS Decks, TLC

\* Words 102 and 103 are the same but for case.
FoldCase(w) == IF w = 103 THEN 102 ELSE w

Row(name, kind) == [name |-> name, kind |-> kind, mtime |-> 0, dirty |-> FALSE]
Top(w) == <<Component(w)>>
Child(v, w) == <<Component(v), Component(w)>>

FourNames == {Top(101), Top(103), Child(101, 103), Child(102, 101)}

TwoNames == {Top(103), Child(101, 103)}

\* A default deck, a deck and its child.
SmallTree == (1 :> Row(Top(100), "normal")) @@ (2 :> Row(Top(101), "normal"))
             @@ (3 :> Row(Child(101, 102), "normal"))

\* The same with two filtered decks.
FilteredTree == SmallTree @@ (4 :> Row(Child(101, 101), "resched"))
                @@ (5 :> Row(Top(102), "preview"))

TwoCards == (51 :> [type |-> "new", due |-> "number", did |-> 3])
            @@ (52 :> [type |-> "learn", due |-> "timestamp", did |-> 2])
FirstCard == 51 :> [type |-> "new", due |-> "zero", did |-> 3]

\* A filtered deck where the collection may have a normal one, and a child of
\* a deck the collection may have as a filtered one.
TwoPackages == {{[name |-> Top(101), kind |-> "resched"],
                 [name |-> Child(102, 101), kind |-> "normal"]},
                {[name |-> Child(101, 102), kind |-> "preview"],
                 [name |-> Top(102), kind |-> "normal"]}}
====
