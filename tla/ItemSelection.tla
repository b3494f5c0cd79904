--------------------------- MODULE ItemSelection ---------------------------
(***************************************************************************)
(* What a multiple selection promises its page: a set of chosen items and  *)
(* the value the page holds.  It knows nothing of filters.                 *)
(*                                                                         *)
(* A selection of everything may be held as such (everything): items that  *)
(* come while it is held may be chosen too.                                *)
(***************************************************************************)
CONSTANT Keys

VARIABLES all, chosen, value, everything

selectionVars == <<all, chosen, value, everything>>

Init ==
    /\ all = {} /\ chosen = {} /\ everything = FALSE
    /\ value \in SUBSET Keys

(* The user changes the choice, and the page is told.  Only a choice of    *)
(* all items begins to hold everything.                                    *)
Choose ==
    /\ chosen' \in SUBSET all
    /\ value' = chosen'
    /\ everything' \in BOOLEAN
    /\ everything' /\ ~everything => chosen' = all
    /\ UNCHANGED all

(* The page gives a value; the selection follows it later. *)
Give ==
    /\ value' \in SUBSET Keys
    /\ UNCHANGED <<all, chosen, everything>>

(* Items arrive or go, and the selection follows the value: it consists of *)
(* those keys of the value that are items, and of others only while it     *)
(* holds everything.  The page may be told.                                *)
Follow ==
    /\ all' \in SUBSET Keys
    /\ everything' \in {everything, FALSE}
    /\ chosen' \in SUBSET all'
    /\ value \cap all' \subseteq chosen'
    /\ ~everything' => chosen' = value \cap all'
    /\ value' \in {value, chosen'}

(* At first everything may be chosen. *)
ChooseAll ==
    /\ all = {} /\ value = {}
    /\ all' \in SUBSET Keys
    /\ chosen' = all' /\ value' = all'
    /\ UNCHANGED everything

Next == Choose \/ Give \/ Follow \/ ChooseAll

Spec == Init /\ [][Next]_selectionVars
=============================================================================
