------------------------------ MODULE MCWatch ------------------------------
(* Watch with interchangeable writers and contents for TLC, and what two    *)
(* providers may declare for one model.                                     *)
EXTENDS Watch, TLC

CONSTANTS k1, k2

Sound(kind, watch) == [kind |-> kind, watch |-> watch, sound |-> TRUE]
Broken(kind) == [kind |-> kind, watch |-> <<>>, sound |-> FALSE]

MCDeclarations ==
    {<<Sound(k1, <<>>)>>, <<Sound(k1, <<"content">>)>>, <<Sound(k1, <<"ref", "content">>)>>,
     <<Sound(k1, <<"ref">>), Sound(k1, <<"content">>)>>,               \* the second is not connected
     <<Sound(k1, <<"content">>), Broken(k1), Sound(k1, <<"ref">>), Sound(k2, <<>>)>>,
     <<Sound(k1, <<"ref", "content">>), Sound(k2, <<"ref">>)>>,        \* k2's snapshot replaces k1's
     <<Broken(k1), Sound(k2, <<"content">>)>>}

Symmetry == Permutations(Writers) \cup Permutations(Contents)

=============================================================================
