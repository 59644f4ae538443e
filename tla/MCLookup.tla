------------------------------- MODULE MCLookup -------------------------------
(***************************************************************************)
(* Small instances of Lookup for TLC: four rows a pool may hold.  The GTIN *)
(* row has another name (a recycled barcode, or a bare EAN query), the     *)
(* named row the highest dedup score and no identifier, the pictured row   *)
(* the catalog reference besides and a name the brand in the query hides,  *)
(* the wordy row only the query's words.                                   *)
(***************************************************************************)
EXTENDS Lookup, TLC

CONSTANT AtlasItems  \* the others are products of the PIM

Full == [Silence EXCEPT !.pictured = TRUE]

ByGtin == [pair |-> [Full EXCEPT !.gtin = "trusted", !.cosine = 70], alike |-> FALSE, words |-> FALSE]
ByName == [pair |-> [Full EXCEPT !.similarity = 80, !.ratio = 86, !.brand = "equal", !.color = "equal",
                                 !.size = "equal", !.pack = "equal"], alike |-> TRUE, words |-> FALSE]
ByPicture == [pair |-> [Full EXCEPT !.sku = TRUE, !.similarity = 36, !.distance = 3, !.cosine = 98],
              alike |-> FALSE, words |-> FALSE]
ByWords == [pair |-> [Full EXCEPT !.ratio = 60], alike |-> FALSE, words |-> TRUE]

MCEvidence == {ByGtin, ByName, ByPicture, ByWords}
Asks(mode, name, picture, scope, limit) ==
    [mode |-> mode, text |-> name # "picture only", name |-> IF name = "picture only" THEN "none" ELSE name,
     picture |-> picture, scope |-> scope, limit |-> limit, log |-> mode = "check" /\ limit < 3]

\* Text of every length, picture or both; a kind without a provider; a check that is not logged.
MCQueries ==
    {Asks("search", "phrase", TRUE, {"pim", "atlas"}, 1), Asks("search", "word", FALSE, Kinds, 2),
     Asks("search", "picture only", TRUE, {"pim"}, 2), Asks("check", "phrase", TRUE, {"pim", "atlas"}, 2),
     Asks("check", "none", FALSE, {"pim", "atlas"}, 1), Asks("search", "short", TRUE, {"pim"}, 1),
     Asks("check", "short", FALSE, {"feed"}, 3)}

MCThreshold == [match |-> 75, review |-> 45]
MCKindOf == [i \in Items |-> IF i \in AtlasItems THEN "atlas" ELSE "pim"]

Symmetry == Permutations(Items \ AtlasItems)

=============================================================================
