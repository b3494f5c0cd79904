------------------------- MODULE FilteredSelection -------------------------
(***************************************************************************)
(* SelectionWithFilter with the drop-downs that use it (MultiSelect and    *)
(* InstanceSelect): a selection over all items, kept in two places.  What  *)
(* is selected among the items that pass the filter is in the table's own  *)
(* selection (_inner, fabric's class, external); the rest is in            *)
(* _allSelectedKeysSet (kept).                                             *)
(*                                                                         *)
(* The table holds its selection as a mode and the rows exempted from it:  *)
(* the exempted rows are selected, or all others are.  Exemptions of rows  *)
(* that leave the table are forgotten; the mode stays until setAllSelected *)
(* or a table without rows ends it.                                        *)
(*                                                                         *)
(* Every change of the selection calls getAllSelection, which recomputes   *)
(* its cache and copies the result to kept, and tells the page.  An effect *)
(* then brings the value back to the selection.                            *)
(***************************************************************************)
CONSTANTS
    Keys,
    DefaultSelectAll    \* property of InstanceSelect

VARIABLES
    all,        \* keys of _allItemsMap
    items,      \* _itemKeysSet, the keys that pass the filter
    allMode,    \* the table selects all rows but the exempted ones
    exempt,     \* the exempted rows
    kept,       \* _allSelectedKeysSet
    value,      \* internalVal
    due         \* the effect on the value has to run

table == <<allMode, exempt>>
vars == <<all, items, table, kept, value, due>>

(* isKeySelected of the table, for its rows i, mode m and exemptions e. *)
Selected(i, m, e) == IF m THEN i \ e ELSE i \cap e
inner == Selected(items, allMode, exempt)

(* The variant that forgets what the filter hides. *)
ChosenShown(a, i, n, k) == {x \in a : x \in i /\ x \in n}

(* What getAllSelection returns: the table decides for what it shows. *)
Chosen(a, i, n, k) == {x \in a : IF x \in i THEN x \in n ELSE x \in k}
chosen == Chosen(all, items, inner, kept)

Init ==
    /\ all = {} /\ items = {} /\ kept = {}
    /\ allMode = FALSE /\ exempt = {}
    /\ value \in SUBSET Keys
    /\ due = TRUE

(* onSelectionChanged, after a change to the table's selection. *)
SelectionChanged ==
    /\ kept' = Chosen(all', items', inner', kept)
    /\ value' = kept'
    /\ due' = (value' # value)

(* After a click the table reports a change, if there was one. *)
Clicked ==
    /\ UNCHANGED <<all, items>>
    /\ SelectionChanged \/ (table' = table /\ UNCHANGED <<kept, value, due>>)

(* The exemptions after setKeySelected of rows S. *)
Exempted(S, on) == IF on = allMode THEN exempt \ S ELSE exempt \cup S

(* The user checks rows, or takes the checks away. *)
SetKeysSelected(S, on) ==
    /\ ~due /\ S \subseteq items
    /\ exempt' = Exempted(S, on)
    /\ UNCHANGED allMode
    /\ Clicked

(* The user selects rows instead of the others the table shows, as a click *)
(* on a row does: setAllSelected(false), then setKeySelected.              *)
SelectOnly(S) ==
    /\ ~due /\ S \subseteq items
    /\ allMode' = FALSE /\ exempt' = S
    /\ Clicked

(* The variant that always leaves it to the table. *)
SetAllSelectedByTable(on) ==
    /\ ~due /\ items # {}
    /\ allMode' = on /\ exempt' = {}
    /\ Clicked

(* The checkbox of the header: one by one when the filter hides some, or   *)
(* else all at once, by the mode.                                          *)
SetAllSelected(on) ==
    /\ ~due /\ items # {}
    /\ IF on /\ items # all
         THEN exempt' = Exempted(items, TRUE) /\ UNCHANGED allMode
         ELSE exempt' = {} /\ allMode' = on
    /\ Clicked

(* The variant of setItems that leaves the rows that come back as they are.*)
ReselectNothing(S) == exempt \cap S

(* The exemptions after setItems without shouldClear: those of rows that   *)
(* stay, and then setKeySelected for the rows that are kept.               *)
Reselect(S) == IF allMode THEN (exempt \cap S) \ kept ELSE (exempt \cup kept) \cap S

(* The filter changes: the table calls setItems.  The table may or may not *)
(* report a change.                                                        *)
SetItems(shown) ==
    /\ ~due
    /\ items' = shown \cap all
    /\ allMode' = (allMode /\ items' # {})
    /\ exempt' = Reselect(items')
    /\ UNCHANGED all
    /\ SelectionChanged \/ UNCHANGED <<kept, value, due>>

(* resetAllSelection of a value, from the keys kept and the table before,  *)
(* of mode m and exemptions e; told is the value the page was told before. *)
(* A change makes the table select nothing and then key by key.            *)
ResetAllSelection(keys, keptNow, m, e, told) ==
    LET valid == keys \cap all'
    IN IF valid = keptNow
         THEN kept' = keptNow /\ allMode' = m /\ exempt' = e /\ value' = told
         ELSE kept' = valid /\ allMode' = FALSE /\ exempt' = valid \cap items' /\ value' = valid

(* The effect on a new value. *)
ValueEffect ==
    /\ due
    /\ UNCHANGED <<all, items>>
    /\ ResetAllSelection(value, kept, allMode, exempt, value)
    /\ due' = (value' # value)

(* The variant that trusts the value it has already copied. *)
SetAllItemsOnly(A) ==
    /\ all' = A
    /\ items' = items \cap A
    /\ allMode' = (allMode /\ items' # {})
    /\ exempt' = exempt \cap A
    /\ kept' = kept /\ value' = value
    /\ due' = due

(* New items: setAllItems, whose setItems clears the table and selects     *)
(* again what is kept when it drops rows, then resetAllSelection of the    *)
(* value of this render.                                                   *)
SetAllItems(A) ==
    /\ all' = A
    /\ items' = items \cap A
    /\ IF items \subseteq A
         THEN ResetAllSelection(value, kept, allMode, exempt, value)
         ELSE LET cleared == kept \cap items'
                  synced == Chosen(A, items', cleared, kept)
              IN \/ ResetAllSelection(value, kept, FALSE, cleared, value)
                 \/ ResetAllSelection(value, synced, FALSE, cleared, synced)
    /\ due' = (due \/ value' # value)

(* The first items of InstanceSelect, without a value: setAllItems and     *)
(* setAllSelectionSelected, when the table has no rows yet.                *)
SelectAllAtFirst(A) ==
    /\ DefaultSelectAll /\ all = {} /\ value = {} /\ A # {}
    /\ all' = A
    /\ kept' = A /\ value' = A
    /\ due' = (due \/ value' # value)
    /\ UNCHANGED <<items, table>>

(* The page gives another value. *)
GiveValue(v) ==
    /\ value' = v
    /\ due' = TRUE
    /\ UNCHANGED <<all, items, table, kept>>

Next ==
    \/ \E S \in SUBSET Keys :
         \/ \E on \in BOOLEAN : SetKeysSelected(S, on)
         \/ SelectOnly(S)
         \/ SetItems(S) \/ SetAllItems(S) \/ SelectAllAtFirst(S) \/ GiveValue(S)
    \/ \E on \in BOOLEAN : SetAllSelected(on)
    \/ ValueEffect

Spec == Init /\ [][Next]_vars

-----------------------------------------------------------------------------
(* Every variable holds a value of its type. *)
TypeOK ==
    /\ all \in SUBSET Keys /\ items \in SUBSET Keys
    /\ allMode \in BOOLEAN /\ exempt \in SUBSET Keys
    /\ kept \in SUBSET Keys
    /\ value \in SUBSET Keys /\ due \in BOOLEAN

(* What is kept of the rows is selected in the table, whatever came and    *)
(* went; and outside the mode in which the table selects all rows, it      *)
(* selects nothing else.  Within the mode it may: an exemption is          *)
(* forgotten when the filter hides its row.                                *)
TableMatchesKept ==
    /\ items \subseteq all /\ kept \subseteq all
    /\ kept \cap items \subseteq inner
    /\ ~allMode => inner = kept \cap items

(* Once effects have run, the items of the page's value, hidden ones       *)
(* included, are chosen, and outside the mode nothing else is.             *)
ValueIsChosen ==
    ~due => /\ value \cap all \subseteq chosen
            /\ ~allMode => value \cap all = chosen

(* A change of the filter leaves the choice as it is outside the mode, and *)
(* within it takes away nothing that the page was told.                    *)
FilterKeepsChoice ==
    [][items' # items /\ all' = all =>
         /\ kept \subseteq chosen'
         /\ ~allMode => chosen' = chosen /\ ~allMode']_vars

(* The two places together behave as one selection without a filter, which *)
(* may take in items by itself only after a choice of all of them that was *)
(* made with none hidden (setAllSelected), until another choice ends it.   *)
Unfiltered == INSTANCE ItemSelection WITH everything <- allMode
FilterIsInvisible == Unfiltered!Spec
=============================================================================
