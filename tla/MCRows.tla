------------------------------- MODULE MCRows -------------------------------
(* Tables of two numbers, the first their primary key, with an index of the    *)
(* second, or of both, that may be created later.                              *)
EXTENDS Rows

Pairs == {0, 1, 2} \X {0, 1}
NullPairs == {0, 1} \X {0, Null}
TwoTexts == {7, 8}
NoText == {}

Primary == [columns |-> <<1>>, unique |-> TRUE]
ThreeIndexes == [i \in {0, 1, 2} |->
  CASE i = 0 -> [columns |-> <<1, 2>>, unique |-> TRUE]
    [] i = 1 -> [columns |-> <<1>>, unique |-> TRUE]
    [] i = 2 -> [columns |-> <<2>>, unique |-> FALSE]]
TwoIndexes == [i \in {0, 1} |-> IF i = 0 THEN Primary ELSE [columns |-> <<2>>, unique |-> TRUE]]
OneIndex == [i \in {0} |-> Primary]
First == {0}
FirstTwo == {0, 1}

All(tuples) == tuples
Where(tuples, column, value) == {t \in tuples : t[column] = value}
Some == {Pairs, Where(Pairs, 1, 0), Where(Pairs, 2, 1)}
SomeNull == {NullPairs}

\* A = (A + 1) % 3, B = 1 - B, both, and A = B.
Next1 == [column |-> 1, expr |-> [t \in Pairs |-> (t[1] + 1) % 3]]
Other2 == [column |-> 2, expr |-> [t \in Pairs |-> 1 - t[2]]]
Copy1 == [column |-> 1, expr |-> [t \in Pairs |-> t[2]]]
Sets == {<<Next1>>, <<Other2>>, <<Other2, Copy1>>}
OnlySecond == {<<Other2>>}
NoSets == {}
=============================================================================
