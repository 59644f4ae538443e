-------------------------------- MODULE Mirror --------------------------------
(***************************************************************************)
(* What an index kept beside a catalog promises, whatever keeps it: each   *)
(* ref has an item in the catalog and a copy in the index; they never      *)
(* change in one step, as no transaction spans the two; and a copy that is *)
(* not of its item has either a refresh owed to it or is known to be lost. *)
(* The refs are independent of each other, and a step may concern several. *)
(***************************************************************************)
CONSTANTS Refs, Values

VARIABLES
    item,   \* what the catalog serves under each ref
    copy,   \* what the index holds of it
    owed,   \* refs whose refresh is under way
    lost    \* refs whose refresh went missing

vars == <<item, copy, owed, lost>>

InSync(r) == copy[r] = item[r]

\* A ref's affairs are in order if its copy is right, or will be seen to, or is known to be lost.
Accounted(r) == InSync(r) \/ r \in lost \/ r \in owed

Init ==
    /\ item \in [Refs -> Values] /\ copy \in [Refs -> Values]
    /\ owed \subseteq Refs /\ lost \subseteq Refs
    /\ \A r \in Refs : Accounted(r)

\* The item changes.
Change(r) == item'[r] # item[r] /\ copy'[r] = copy[r]

\* The copy is written, perhaps from an older item.
Write(r) == copy'[r] # copy[r] /\ item'[r] = item[r]

\* Neither: a debt may arise, be settled or be lost.
Account(r) == copy'[r] = copy[r] /\ item'[r] = item[r]

\* Whatever happens, no debt is forgotten, and a loss is made good by the right copy alone.
Next ==
    \A r \in Refs :
        /\ Account(r) \/ Write(r) \/ Change(r)
        /\ Accounted(r)'
        /\ r \in lost => r \in lost' \/ InSync(r)'

Spec == Init /\ [][Next]_vars

=============================================================================
