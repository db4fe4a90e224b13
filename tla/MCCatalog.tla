------------------------------ MODULE MCCatalog ------------------------------
(* Tables of one or two columns, with one, both or none of them in the primary *)
(* key, which comes first in all of them but one.                             *)
EXTENDS Catalog

C(name, isPrimary) == [name |-> name, isPrimary |-> isPrimary, text |-> FALSE]
Text(name, isPrimary) == [name |-> name, isPrimary |-> isPrimary, text |-> TRUE]

TwoTables == {"T", "U"}
OneTable == {"T"}
TwoIndexes == {"I", "J"}
NoIndex == {}
OneIndex == {"I"}

Two == {<<C("A", TRUE), Text("B", FALSE)>>, <<C("B", FALSE)>>}
Three == Two \cup {<<C("A", TRUE), C("B", TRUE)>>}
Simple == {<<C("A", TRUE), C("B", FALSE)>>}
LaterKeys == {<<C("A", FALSE), C("B", TRUE)>>}
TextKeys == {<<Text("A", TRUE), C("B", FALSE)>>}

OneColumn == {<<"B">>}
Keyed == {<<"B">>, <<"B", "A">>}

Script(names, indexNames, definitions, keys) ==
  [names |-> names, indexNames |-> indexNames, definitions |-> definitions, keys |-> keys]

\* One table with two indexes, and two tables without.
Usual == {Script(OneTable, TwoIndexes, Three, Keyed), Script(TwoTables, NoIndex, Two, OneColumn)}
OfOne(definitions, keys) == {Script(OneTable, OneIndex, definitions, keys)}
LaterKeysKeyedScript == OfOne(LaterKeys, Keyed)
SimpleKeyedScript == OfOne(Simple, Keyed)
SimpleScript == OfOne(Simple, OneColumn)
TextKeysScript == OfOne(TextKeys, OneColumn)
ThreeScript == OfOne(Three, OneColumn)
=============================================================================
