---------------------- MODULE FilteredSelectionProofs ----------------------
(***************************************************************************)
(* For every set of keys: what SelectionWithFilter promises of the two     *)
(* places in which it keeps a selection, and that together they implement  *)
(* ItemSelection.                                                          *)
(*                                                                         *)
(* ValueIsChosen alone is not inductive: a filter that brings rows back    *)
(* selects them from kept, so the table's mode and exemptions have to      *)
(* agree with kept first.                                                  *)
(***************************************************************************)
EXTENDS FilteredSelection, TLAPS

(* A table of rows i, mode m and exemptions e agrees with the kept keys k: *)
(* no kept row is left out, and without the mode no other is selected.     *)
Agree(i, m, e, k) ==
    /\ e \subseteq i
    /\ m => k \cap e = {}
    /\ ~m => e = k \cap i

Places ==
    /\ items \subseteq all /\ kept \subseteq all
    /\ Agree(items, allMode, exempt, kept)

(* What is kept is the page's value once its effect has run. *)
ValueIsKept == ~due => value \cap all = kept

IInv == TypeOK /\ Places /\ ValueIsKept

-----------------------------------------------------------------------------
(* Facts about getAllSelection, for any table and any items.               *)

(* While table and kept keys agree, it returns what is kept, and more only *)
(* in the table's mode.                                                    *)
LEMMA ChosenOfAgree ==
    ASSUME NEW a, NEW i \in SUBSET a, NEW m \in BOOLEAN, NEW e, NEW k, Agree(i, m, e, k)
    PROVE  /\ k \cap a \subseteq Chosen(a, i, Selected(i, m, e), k)
           /\ Chosen(a, i, Selected(i, m, e), k) \subseteq a
           /\ ~m => Chosen(a, i, Selected(i, m, e), k) = k \cap a
  <1>1. CASE m
    <2>1. Selected(i, m, e) = i \ e /\ k \cap e = {}
      BY <1>1 DEF Selected, Agree
    <2> QED
      BY <1>1, <2>1 DEF Chosen
  <1>2. CASE ~m
    <2>1. Selected(i, m, e) = k \cap i
      BY <1>2 DEF Selected, Agree
    <2> QED
      BY <1>2, <2>1 DEF Chosen
  <1> QED
    BY <1>1, <1>2

(* What it returns agrees with the table it came from, and does not change *)
(* when it is asked again.                                                 *)
LEMMA ChosenAgrees ==
    ASSUME NEW a, NEW i \in SUBSET a, NEW m \in BOOLEAN, NEW e \in SUBSET i, NEW k, NEW c,
           c = Chosen(a, i, Selected(i, m, e), k)
    PROVE  /\ Agree(i, m, e, c) /\ c \subseteq a
           /\ Chosen(a, i, Selected(i, m, e), c) = c
  <1>1. CASE m
    <2>1. Selected(i, m, e) = i \ e
      BY <1>1 DEF Selected
    <2> QED
      BY <1>1, <2>1 DEF Chosen, Agree
  <1>2. CASE ~m
    <2>1. Selected(i, m, e) = e
      BY <1>2 DEF Selected
    <2> QED
      BY <1>2, <2>1 DEF Chosen, Agree
  <1> QED
    BY <1>1, <1>2

(* In the states of the invariant: what is kept is chosen, and more only   *)
(* in the mode.                                                            *)
LEMMA ChosenIsKept ==
    ASSUME TypeOK, Places
    PROVE  /\ kept \subseteq chosen /\ chosen \subseteq all
           /\ ~allMode => chosen = kept
  <1>1. allMode \in BOOLEAN /\ items \in SUBSET all /\ kept \cap all = kept
    BY DEF TypeOK, Places
  <1> QED
    BY <1>1, ChosenOfAgree DEF Places, chosen, inner

(* The same in the state after a step. *)
LEMMA ChosenIsKeptNext ==
    ASSUME TypeOK', Places'
    PROVE  /\ kept' \subseteq chosen' /\ chosen' \subseteq all'
           /\ ~allMode' => chosen' = kept'
  <1>1. allMode' \in BOOLEAN /\ items' \in SUBSET all' /\ kept' \cap all' = kept'
    BY DEF TypeOK, Places
  <1>2. Agree(items', allMode', exempt', kept')
    BY DEF Places, Agree
  <1> QED
    BY <1>1, <1>2, ChosenOfAgree DEF chosen, inner, Chosen, Selected

-----------------------------------------------------------------------------
(* What each step does to the selection.  The invariant, the action        *)
(* property and the refinement follow from these.                          *)

(* A reported change makes the two places agree, whatever they were. *)
LEMMA Reported ==
    ASSUME TypeOK, SelectionChanged, all' \in SUBSET Keys, allMode' \in BOOLEAN,
           items' \in SUBSET all', exempt' \in SUBSET items'
    PROVE  /\ TypeOK' /\ Places' /\ ValueIsKept'
           /\ chosen' = kept' /\ value' = kept'
           /\ kept' = Chosen(all', items', Selected(items', allMode', exempt'), kept)
  <1>1. inner' = Selected(items', allMode', exempt')
    BY DEF inner, Selected
  <1>2. kept' = Chosen(all', items', Selected(items', allMode', exempt'), kept)
    BY <1>1 DEF SelectionChanged
  <1>3. /\ Agree(items', allMode', exempt', kept') /\ kept' \subseteq all'
        /\ Chosen(all', items', Selected(items', allMode', exempt'), kept') = kept'
    BY <1>2, ChosenAgrees
  <1>4. chosen' = kept'
    BY <1>1, <1>3 DEF chosen, Chosen
  <1>5. value' = kept' /\ due' \in BOOLEAN
    BY DEF SelectionChanged
  <1>6. TypeOK'
    BY <1>3, <1>5 DEF TypeOK
  <1>7. Places'
    BY <1>3 DEF Places, Agree
  <1>8. ValueIsKept'
    BY <1>3, <1>5 DEF ValueIsKept
  <1> QED
    BY <1>2, <1>4, <1>5, <1>6, <1>7, <1>8

(* A click is told to the page or changes nothing. *)
Told ==
    /\ IInv' /\ all' = all /\ items' = items
    /\ \/ value' = chosen' /\ chosen' \in SUBSET all
       \/ UNCHANGED <<chosen, value, allMode>>

LEMMA ClickTold ==
    ASSUME IInv, Clicked, allMode' \in BOOLEAN, exempt' \in SUBSET items
    PROVE  Told
  <1>0. all' = all /\ items' = items /\ items \in SUBSET all /\ all \in SUBSET Keys
    BY DEF Clicked, IInv, Places, TypeOK
  <1>1. CASE SelectionChanged
    <2>1. IInv' /\ chosen' = kept' /\ value' = kept' /\ kept' \subseteq all'
      BY <1>0, <1>1, Reported DEF IInv, Places
    <2> QED
      BY <1>0, <2>1 DEF Told
  <1>2. CASE table' = table /\ UNCHANGED <<kept, value, due>>
    <2>1. allMode' = allMode /\ exempt' = exempt
      BY <1>2 DEF table
    <2> QED
      BY <1>0, <1>2, <2>1 DEF Told, IInv, TypeOK, Places, Agree, ValueIsKept, chosen, Chosen, inner, Selected
  <1> QED
    BY <1>1, <1>2 DEF Clicked

LEMMA ClickStep ==
    ASSUME IInv, NEW S \in SUBSET Keys, NEW on \in BOOLEAN,
           SetKeysSelected(S, on) \/ SelectOnly(S)
    PROVE  Told /\ (allMode' => allMode)
  <1>1. allMode \in BOOLEAN /\ exempt \subseteq items /\ S \subseteq items /\ Clicked
    BY DEF IInv, TypeOK, Places, Agree, SetKeysSelected, SelectOnly
  <1>2. CASE SetKeysSelected(S, on)
    <2>1. exempt' \in SUBSET items /\ allMode' = allMode
      BY <1>1, <1>2 DEF SetKeysSelected, Exempted
    <2> QED
      BY <1>1, <2>1, ClickTold
  <1>3. CASE SelectOnly(S)
    <2>1. exempt' \in SUBSET items /\ allMode' = FALSE
      BY <1>1, <1>3 DEF SelectOnly
    <2> QED
      BY <1>1, <2>1, ClickTold
  <1> QED
    BY <1>2, <1>3

(* The mode begins only when all items are chosen. *)
LEMMA AllStep ==
    ASSUME IInv, NEW on \in BOOLEAN, SetAllSelected(on)
    PROVE  Told /\ (allMode' /\ ~allMode => chosen' = all /\ value' = chosen')
  <1>1. /\ allMode \in BOOLEAN /\ exempt \subseteq items /\ Clicked
        /\ items \in SUBSET all /\ all \in SUBSET Keys
    BY DEF IInv, TypeOK, Places, Agree, SetAllSelected
  <1>2. exempt' \in SUBSET items /\ allMode' \in BOOLEAN
    BY <1>1 DEF SetAllSelected, Exempted
  <1>3. Told
    BY <1>1, <1>2, ClickTold
  <1>4. ASSUME allMode', ~allMode PROVE chosen' = all /\ value' = chosen'
    <2>1. /\ exempt' = {} /\ items = all
          /\ all' = all /\ items' = items /\ SelectionChanged
      BY <1>1, <1>4 DEF SetAllSelected, Clicked, table
    <2>2. /\ chosen' = kept' /\ value' = kept'
          /\ kept' = Chosen(all', items', Selected(items', allMode', exempt'), kept)
      BY <1>1, <1>2, <2>1, Reported DEF IInv
    <2>3. Selected(items', allMode', exempt') = all
      BY <1>4, <2>1 DEF Selected
    <2>4. Chosen(all, all, all, kept) = all
      BY DEF Chosen
    <2> QED
      BY <2>1, <2>2, <2>3, <2>4
  <1> QED
    BY <1>3, <1>4

(* A change of the filter takes nothing away, and adds nothing outside the *)
(* mode.                                                                   *)
LEMMA FilterStep ==
    ASSUME IInv, NEW shown \in SUBSET Keys, SetItems(shown)
    PROVE  /\ IInv' /\ all' = all
           /\ kept = value \cap all
           /\ kept \subseteq chosen' /\ chosen' \subseteq all
           /\ ~allMode' => chosen' = kept
           /\ allMode' => allMode
           /\ value' \in {value, chosen'}
  <1>1. /\ ~due
        /\ items' = shown \cap all /\ all' = all
        /\ allMode' = (allMode /\ items' # {})
        /\ exempt' = Reselect(items')
        /\ SelectionChanged \/ UNCHANGED <<kept, value, due>>
    BY DEF SetItems
  <1>2. /\ allMode \in BOOLEAN /\ allMode' \in BOOLEAN /\ kept \cap all' = kept
        /\ items' \in SUBSET all' /\ all' \in SUBSET Keys
    BY <1>1 DEF IInv, TypeOK, Places
  <1>3. Agree(items', allMode', exempt', kept)
    <2>1. CASE allMode
      <3>1. exempt' = (exempt \cap items') \ kept
        BY <1>1, <2>1 DEF Reselect
      <3>2. ~allMode' => items' = {}
        BY <1>1, <2>1
      <3> QED
        BY <3>1, <3>2 DEF Agree
    <2>2. CASE ~allMode
      <3>1. exempt = kept \cap items /\ exempt' = (exempt \cup kept) \cap items' /\ ~allMode'
        BY <1>1, <2>2 DEF Reselect, IInv, Places, Agree
      <3> QED
        BY <3>1 DEF Agree
    <2> QED
      BY <2>1, <2>2
  <1>4. exempt' \in SUBSET items'
    BY <1>3 DEF Agree
  <1>5. DEFINE now == Chosen(all', items', Selected(items', allMode', exempt'), kept)
  <1>6. /\ kept \subseteq now /\ now \subseteq all'
        /\ ~allMode' => now = kept
    <2>1. PICK i \in SUBSET all', m \in BOOLEAN, e \in SUBSET items' :
            i = items' /\ m = allMode' /\ e = exempt'
      BY <1>2, <1>4
    <2>2. Agree(i, m, e, kept)
      BY <1>3, <2>1
    <2>3. DEFINE c == Chosen(all', i, Selected(i, m, e), kept)
    <2>4. kept \cap all' \subseteq c /\ c \subseteq all' /\ (~m => c = kept \cap all')
      BY <2>2, ChosenOfAgree
    <2>5. now = c
      BY <2>1
    <2> HIDE DEF now, c
    <2> QED
      BY <1>2, <2>1, <2>4, <2>5
  <1>7. CASE SelectionChanged
    <2>1. /\ TypeOK' /\ Places' /\ ValueIsKept'
          /\ chosen' = kept' /\ value' = kept' /\ kept' = now
      BY <1>2, <1>4, <1>7, Reported DEF IInv
    <2>2. kept = value \cap all
      BY <1>1 DEF IInv, ValueIsKept
    <2> HIDE DEF now
    <2> QED
      BY <1>1, <1>2, <1>6, <2>1, <2>2 DEF IInv
  <1>8. CASE UNCHANGED <<kept, value, due>>
    <2>1. chosen' = now
      BY <1>8 DEF chosen, inner, Chosen, Selected
    <2>2. kept = value \cap all
      BY <1>1 DEF IInv, ValueIsKept
    <2>3. TypeOK'
      BY <1>2, <1>4, <1>8 DEF IInv, TypeOK
    <2>4. Places'
      BY <1>1, <1>2, <1>3, <1>8 DEF IInv, Places, Agree
    <2>5. ValueIsKept'
      BY <1>1, <1>8, <2>2 DEF ValueIsKept
    <2> HIDE DEF now
    <2> QED
      BY <1>1, <1>2, <1>6, <1>8, <2>1, <2>2, <2>3, <2>4, <2>5 DEF IInv
  <1> QED
    BY <1>1, <1>7, <1>8

(* resetAllSelection leaves the items of the value kept, provided that the *)
(* table agreed before with the keys it is compared to.                    *)
LEMMA ResetFollowsValue ==
    ASSUME NEW keptNow, NEW m \in BOOLEAN, NEW e, NEW told,
           Agree(items', m, e, keptNow),
           ResetAllSelection(value, keptNow, m, e, told)
    PROVE  /\ kept' = value \cap all'
           /\ allMode' \in BOOLEAN
           /\ Agree(items', allMode', exempt', kept')
           /\ \/ value' = kept' /\ allMode' = FALSE
              \/ value' = told /\ kept' = keptNow /\ allMode' = m
  BY DEF ResetAllSelection, Agree

(* The state after resetAllSelection follows the value. *)
Follows ==
    /\ IInv'
    /\ allMode' \in {allMode, FALSE}
    /\ chosen' \in SUBSET all'
    /\ value \cap all' \subseteq chosen'
    /\ ~allMode' => chosen' = value \cap all'
    /\ value' \in {value, chosen'}

LEMMA FollowsSuffices ==
    ASSUME IInv, all' \in SUBSET Keys, items' \in SUBSET all', allMode' \in {allMode, FALSE},
           kept' = value \cap all', Agree(items', allMode', exempt', kept'),
           value' = value \/ (value' = kept' /\ allMode' = FALSE), due' \in BOOLEAN
    PROVE  Follows
  <1>1. value \in SUBSET Keys /\ allMode \in BOOLEAN
    BY DEF IInv, TypeOK
  <1>2. exempt' \in SUBSET items'
    BY DEF Agree
  <1>3. TypeOK'
    BY <1>1, <1>2 DEF TypeOK
  <1>4. Places'
    BY DEF Places, Agree
  <1>5. ValueIsKept'
    BY DEF ValueIsKept
  <1> QED
    BY <1>3, <1>4, <1>5, ChosenIsKeptNext DEF Follows, IInv

LEMMA EffectStep ==
    ASSUME IInv, ValueEffect
    PROVE  Follows /\ all' = all
  <1>1. /\ all' = all /\ items' = items
        /\ ResetAllSelection(value, kept, allMode, exempt, value)
        /\ due' \in BOOLEAN
    BY DEF ValueEffect
  <1>2. /\ Agree(items', allMode, exempt, kept) /\ allMode \in BOOLEAN
        /\ all' \in SUBSET Keys /\ items' \in SUBSET all'
    BY <1>1 DEF IInv, TypeOK, Places
  <1>3. /\ kept' = value \cap all' /\ Agree(items', allMode', exempt', kept')
        /\ \/ value' = kept' /\ allMode' = FALSE
           \/ value' = value /\ kept' = kept /\ allMode' = allMode
    BY <1>1, <1>2, ResetFollowsValue
  <1> QED
    BY <1>1, <1>2, <1>3, FollowsSuffices

LEMMA ItemsStep ==
    ASSUME IInv, NEW A \in SUBSET Keys, SetAllItems(A)
    PROVE  Follows /\ all' = A
  <1> DEFINE cleared == kept \cap items'
             synced == Chosen(A, items', cleared, kept)
  <1>1. /\ all' = A /\ items' = items \cap A
        /\ IF items \subseteq A
             THEN ResetAllSelection(value, kept, allMode, exempt, value)
             ELSE \/ ResetAllSelection(value, kept, FALSE, cleared, value)
                  \/ ResetAllSelection(value, synced, FALSE, cleared, synced)
        /\ due' = (due \/ value' # value)
    BY DEF SetAllItems
  <1>2. allMode \in BOOLEAN /\ items' \in SUBSET all' /\ due' \in BOOLEAN
    BY <1>1 DEF IInv, TypeOK
  <1>3. synced = kept \cap A
    <2>1. cleared \subseteq kept /\ \A x \in items' : x \in kept => x \in cleared
      OBVIOUS
    <2> QED
      BY <2>1 DEF Chosen
  <1>4. Agree(items', FALSE, cleared, kept) /\ Agree(items', FALSE, cleared, synced)
    BY <1>1, <1>3 DEF Agree
  <1> HIDE DEF cleared, synced
  <1>5. /\ kept' = value \cap all' /\ allMode' \in {allMode, FALSE}
        /\ Agree(items', allMode', exempt', kept')
        /\ value' = value \/ (value' = kept' /\ allMode' = FALSE)
    <2>1. CASE items \subseteq A
      <3>1. items' = items /\ Agree(items', allMode, exempt, kept)
        BY <1>1, <2>1 DEF IInv, Places
      <3>2. ResetAllSelection(value, kept, allMode, exempt, value)
        BY <1>1, <2>1
      <3> QED
        BY <1>2, <3>1, <3>2, ResetFollowsValue
    <2>2. CASE ResetAllSelection(value, kept, FALSE, cleared, value)
      BY <1>4, <2>2, ResetFollowsValue
    <2>3. CASE ResetAllSelection(value, synced, FALSE, cleared, synced)
      BY <1>4, <2>3, ResetFollowsValue
    <2> QED
      BY <1>1, <2>1, <2>2, <2>3
  <1> QED
    BY <1>1, <1>2, <1>5, FollowsSuffices

LEMMA FirstStep ==
    ASSUME IInv, NEW A \in SUBSET Keys, SelectAllAtFirst(A)
    PROVE  /\ IInv'
           /\ all = {} /\ value = {} /\ allMode' = allMode
           /\ all' = A /\ chosen' = A /\ value' = A
  <1>1. /\ all = {} /\ value = {} /\ all' = A /\ kept' = A /\ value' = A
        /\ due' = (due \/ value' # value)
        /\ items' = items /\ allMode' = allMode /\ exempt' = exempt
    BY DEF SelectAllAtFirst, table
  <1>2. items = {} /\ exempt = {} /\ allMode \in BOOLEAN /\ due \in BOOLEAN
    BY <1>1 DEF IInv, TypeOK, Places, Agree
  <1>3. TypeOK' /\ Places' /\ ValueIsKept'
    BY <1>1, <1>2 DEF TypeOK, Places, Agree, ValueIsKept
  <1>4. chosen' = A
    BY <1>1, <1>2 DEF chosen, Chosen
  <1> QED
    BY <1>1, <1>3, <1>4 DEF IInv

LEMMA GiveStep ==
    ASSUME IInv, NEW v \in SUBSET Keys, GiveValue(v)
    PROVE  /\ IInv'
           /\ value' \in SUBSET Keys /\ all' = all /\ items' = items
           /\ chosen' = chosen /\ allMode' = allMode
  <1>1. /\ value' = v /\ due' = TRUE /\ all' = all /\ items' = items
        /\ allMode' = allMode /\ exempt' = exempt /\ kept' = kept
    BY DEF GiveValue, table
  <1>2. chosen' = chosen
    BY <1>1 DEF chosen, Chosen, inner, Selected
  <1> QED
    BY <1>1, <1>2 DEF IInv, TypeOK, Places, Agree, ValueIsKept

LEMMA IInvInit == Init => IInv
  BY DEF Init, IInv, TypeOK, Places, Agree, ValueIsKept

LEMMA IInvNext == IInv /\ [Next]_vars => IInv'
  <1> SUFFICES ASSUME IInv, [Next]_vars PROVE IInv'
    OBVIOUS
  <1>1. ASSUME NEW S \in SUBSET Keys, NEW on \in BOOLEAN,
               SetKeysSelected(S, on) \/ SelectOnly(S) \/ SetAllSelected(on)
        PROVE  IInv'
    BY <1>1, ClickStep, AllStep DEF Told
  <1>2. ASSUME NEW S \in SUBSET Keys,
               SetItems(S) \/ SetAllItems(S) \/ SelectAllAtFirst(S) \/ GiveValue(S)
        PROVE  IInv'
    BY <1>2, FilterStep, ItemsStep, FirstStep, GiveStep DEF Follows
  <1>3. CASE ValueEffect
    BY <1>3, EffectStep DEF Follows
  <1>4. CASE UNCHANGED vars
    BY <1>4 DEF vars, table, IInv, TypeOK, Places, Agree, ValueIsKept
  <1> QED
    BY <1>1, <1>2, <1>3, <1>4 DEF Next

(* The invariant holds throughout. *)
THEOREM SelectionInvariant == Spec => []IInv
  BY IInvInit, IInvNext, PTL DEF Spec

(* What is kept of the rows is selected in the table, and outside the mode *)
(* in which the table selects all rows nothing else is, for any items, any *)
(* filter and any order of clicks, loads and values given by the page.     *)
THEOREM TableAndKeptAgree == Spec => []TableMatchesKept
  <1>1. IInv => TableMatchesKept
    <2> SUFFICES ASSUME IInv PROVE TableMatchesKept
      OBVIOUS
    <2>1. CASE allMode
      BY <2>1 DEF IInv, Places, Agree, TableMatchesKept, inner, Selected
    <2>2. CASE ~allMode
      BY <2>2 DEF IInv, Places, Agree, TableMatchesKept, inner, Selected
    <2> QED
      BY <2>1, <2>2
  <1> QED
    BY <1>1, SelectionInvariant, PTL

(* Once its effects have run, what the page's value names is chosen, and   *)
(* outside the mode nothing else is.                                       *)
THEOREM ValueNamesChosen == Spec => []ValueIsChosen
  <1>1. IInv => ValueIsChosen
    BY ChosenIsKept DEF IInv, ValueIsKept, ValueIsChosen
  <1> QED
    BY <1>1, SelectionInvariant, PTL

(* A change of the filter takes nothing away that the page was told, and   *)
(* changes nothing outside the mode: setItems selects again what is kept.  *)
THEOREM ChoiceOutlivesFilter == Spec => FilterKeepsChoice
  <1> DEFINE Keeps == items' # items /\ all' = all =>
                        /\ kept \subseteq chosen'
                        /\ ~allMode => chosen' = chosen /\ ~allMode'
  <1>1. IInv /\ [Next]_vars => [Keeps]_vars
    <2> SUFFICES ASSUME IInv, Next, items' # items, all' = all
                 PROVE  /\ kept \subseteq chosen'
                        /\ ~allMode => chosen' = chosen /\ ~allMode'
      OBVIOUS
    <2>1. PICK S \in SUBSET Keys : SetItems(S)
      <3>1. \A S \in SUBSET Keys, on \in BOOLEAN :
              SetKeysSelected(S, on) \/ SelectOnly(S) \/ SetAllSelected(on) => items' = items
        BY DEF SetKeysSelected, SelectOnly, SetAllSelected, Clicked
      <3>2. \A S \in SUBSET Keys : SetAllItems(S) => items' = items
        BY DEF SetAllItems, IInv, Places
      <3>3. \A S \in SUBSET Keys : SelectAllAtFirst(S) \/ GiveValue(S) => items' = items
        BY DEF SelectAllAtFirst, GiveValue
      <3>4. ValueEffect => items' = items
        BY DEF ValueEffect
      <3> QED
        BY <3>1, <3>2, <3>3, <3>4 DEF Next
    <2>2. kept \subseteq chosen' /\ (~allMode' => chosen' = kept) /\ (allMode' => allMode)
      BY <2>1, FilterStep
    <2>3. ~allMode => chosen = kept
      BY ChosenIsKept DEF IInv
    <2> QED
      BY <2>2, <2>3
  <1> QED
    BY <1>1, SelectionInvariant, PTL DEF Spec, FilterKeepsChoice

-----------------------------------------------------------------------------
(* Every step of the filtered selection is a step of the one without a     *)
(* filter, or changes nothing that its page can see.                       *)
LEMMA StepSimulation ==
    IInv /\ [Next]_vars => [Unfiltered!Next]_Unfiltered!selectionVars
  <1> SUFFICES ASSUME IInv, [Next]_vars
               PROVE  [Unfiltered!Next]_Unfiltered!selectionVars
    OBVIOUS
  <1>1. IInv' /\ allMode \in BOOLEAN /\ allMode' \in BOOLEAN
        /\ all \in SUBSET Keys /\ all' \in SUBSET Keys
    BY IInvNext DEF IInv, TypeOK
  <1>2. ASSUME Told, allMode' /\ ~allMode => chosen' = all /\ value' = chosen'
        PROVE  Unfiltered!Choose \/ UNCHANGED Unfiltered!selectionVars
    BY <1>1, <1>2 DEF Told, Unfiltered!Choose, Unfiltered!selectionVars
  <1>3. ASSUME NEW S \in SUBSET Keys, NEW on \in BOOLEAN,
               SetKeysSelected(S, on) \/ SelectOnly(S) \/ SetAllSelected(on)
        PROVE  Unfiltered!Choose \/ UNCHANGED Unfiltered!selectionVars
    BY <1>2, <1>3, ClickStep, AllStep
  <1>4. ASSUME Follows
        PROVE  Unfiltered!Follow
    BY <1>1, <1>4 DEF Follows, Unfiltered!Follow
  <1>5. ASSUME NEW S \in SUBSET Keys, SetItems(S)
        PROVE  Unfiltered!Follow
    <2>1. /\ all' = all /\ kept = value \cap all
          /\ kept \subseteq chosen' /\ chosen' \subseteq all
          /\ ~allMode' => chosen' = kept
          /\ allMode' => allMode
          /\ value' \in {value, chosen'}
      BY <1>5, FilterStep
    <2>2. allMode' \in {allMode, FALSE}
      BY <1>1, <2>1
    <2> QED
      BY <1>1, <2>1, <2>2 DEF Unfiltered!Follow
  <1>6. ASSUME NEW S \in SUBSET Keys, SetAllItems(S)
        PROVE  Unfiltered!Follow
    BY <1>4, <1>6, ItemsStep
  <1>7. ASSUME NEW S \in SUBSET Keys, SelectAllAtFirst(S)
        PROVE  Unfiltered!ChooseAll
    BY <1>7, FirstStep DEF Unfiltered!ChooseAll
  <1>8. ASSUME NEW S \in SUBSET Keys, GiveValue(S)
        PROVE  Unfiltered!Give
    BY <1>8, GiveStep DEF Unfiltered!Give
  <1>9. CASE ValueEffect
    BY <1>4, <1>9, EffectStep DEF Unfiltered!Next
  <1>10. CASE UNCHANGED vars
    BY <1>10 DEF vars, table, chosen, Chosen, inner, Selected, Unfiltered!selectionVars
  <1> QED
    BY <1>3, <1>5, <1>6, <1>7, <1>8, <1>9, <1>10 DEF Next, Unfiltered!Next

(* For every set of keys, SelectionWithFilter and the effects around it    *)
(* implement a selection that knows no filter, and that takes in items by  *)
(* itself only after all of them were chosen with none hidden.             *)
THEOREM FilterInvisible == Spec => FilterIsInvisible
  <1>1. Init => Unfiltered!Init
    BY DEF Init, Unfiltered!Init, chosen, Chosen
  <1> QED
    BY <1>1, StepSimulation, SelectionInvariant, PTL
    DEF Spec, FilterIsInvisible, Unfiltered!Spec
=============================================================================
