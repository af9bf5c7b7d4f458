------------------------------ MODULE LineStore ------------------------------
(***************************************************************************)
(* What a write-back tag store promises, with no sets, ways or relocation: *)
(* lines come in clean, are written, and leave one at a time, each with    *)
(* its last write on its way to memory.                                    *)
(***************************************************************************)
EXTENDS Naturals

CONSTANTS Line, Written

VARIABLES
    cached,         \* the lines in the store
    modified,       \* those that differ from memory
    owed            \* the lines whose last write is not in memory

Init == cached = {} /\ modified = {} /\ owed = {}

Fill(l) ==
    /\ l \notin cached
    /\ cached' = cached \cup {l}
    /\ UNCHANGED <<modified, owed>>

Write(l) ==
    /\ l \in cached
    /\ modified' = modified \cup {l}
    /\ owed' = owed \cup {l}
    /\ UNCHANGED cached

Leave(l) ==
    /\ cached' = cached \ {l}
    /\ modified' = modified \ {l}
    /\ owed' = owed \ {l}

Next == \/ \E l \in Line : Fill(l)
        \/ \E l \in Written : Write(l)
        \/ \E l \in cached : Leave(l)

Spec == Init /\ [][Next]_<<cached, modified, owed>>
=============================================================================
