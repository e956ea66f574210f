-------------------------------- MODULE Menu --------------------------------
(* Modifier groups ("size", "extras"), their modifiers, and the groups a    *)
(* dish offers: restaurant_modifier_service. Every operation is a short     *)
(* transaction of its own; what a line may choose is validated by           *)
(* validate_line_modifiers when it is added to a tab.                       *)
EXTENDS Naturals, FiniteSets

CONSTANTS Groups, Modifiers, GroupOf,
          MaxCount              \* bound: selections a group asks for or allows

ASSUME MenuAssumption ==
  /\ GroupOf \in [Modifiers -> Groups]
  /\ IsFiniteSet(Modifiers)
  /\ MaxCount \in Nat \ {0}

VARIABLES
  group,      \* modifier_groups
  modifier,   \* modifiers
  offered     \* product_modifier_groups of the dish

menuVars == <<group, modifier, offered>>

\* max = 0 stands for no maximum: the schema asks for at least 1.
GroupRow == [here : BOOLEAN, single : BOOLEAN, required : BOOLEAN, min : 0..MaxCount, max : 0..MaxCount]
NoGroup == [here |-> FALSE, single |-> FALSE, required |-> FALSE, min |-> 0, max |-> 0]
ModifierStates == {"none", "active", "inactive", "deleted"}

MenuTypeOK ==
  /\ group \in [Groups -> GroupRow]
  /\ modifier \in [Modifiers -> ModifierStates]
  /\ offered \subseteq Groups

MenuInit ==
  /\ group = [g \in Groups |-> NoGroup]
  /\ modifier = [m \in Modifiers |-> "none"]
  /\ offered = {}

\* The checks of CreateModifierGroupRequest and, on the row as patched, of
\* update_modifier_group.
AnyBounds(r) == TRUE
BoundsOK(r) ==
  /\ r.max # 0 => r.max >= r.min
  /\ r.single => r.max <= 1

CreateModifierGroup(g, r) ==
  /\ group[g] = NoGroup /\ r.here /\ BoundsOK(r)
  /\ group' = [group EXCEPT ![g] = r]
  /\ UNCHANGED <<modifier, offered>>

\* A patch names any of the fields; a maximum cannot be taken back.
UpdateModifierGroup(g, r) ==
  /\ group[g].here /\ r.here /\ r # group[g]
  /\ r.max = 0 => group[g].max = 0
  /\ BoundsOK(r)
  /\ group' = [group EXCEPT ![g] = r]
  /\ UNCHANGED <<modifier, offered>>

\* The modifiers go with their group; the links to dishes stay.
DeleteModifierGroup(g) ==
  /\ group[g].here
  /\ group' = [group EXCEPT ![g].here = FALSE]
  /\ modifier' = [m \in Modifiers |-> IF GroupOf[m] = g /\ modifier[m] # "none" THEN "deleted" ELSE modifier[m]]
  /\ UNCHANGED offered

CreateModifier(m) ==
  /\ modifier[m] = "none" /\ group[GroupOf[m]].here
  /\ modifier' = [modifier EXCEPT ![m] = "active"]
  /\ UNCHANGED <<group, offered>>

UpdateModifier(m) ==
  /\ modifier[m] \in {"active", "inactive"}
  /\ modifier' = [modifier EXCEPT ![m] = IF @ = "active" THEN "inactive" ELSE "active"]
  /\ UNCHANGED <<group, offered>>

DeleteModifier(m) ==
  /\ modifier[m] \in {"active", "inactive"}
  /\ modifier' = [modifier EXCEPT ![m] = "deleted"]
  /\ UNCHANGED <<group, offered>>

ReplaceProductModifierGroups(gs) ==
  /\ \A g \in gs : group[g].here
  /\ offered' = gs
  /\ UNCHANGED <<group, modifier>>

MenuNext ==
  \/ \E g \in Groups :
       \/ \E r \in GroupRow : CreateModifierGroup(g, r) \/ UpdateModifierGroup(g, r)
       \/ DeleteModifierGroup(g)
  \/ \E m \in Modifiers : CreateModifier(m) \/ UpdateModifier(m) \/ DeleteModifier(m)
  \/ \E gs \in SUBSET Groups : ReplaceProductModifierGroups(gs)

MenuSpec == MenuInit /\ [][MenuNext]_menuVars

-----------------------------------------------------------------------------
(* validate_line_modifiers.                                                 *)

LinkedGroups == {g \in offered : group[g].here}
ActiveOf(g) == {m \in Modifiers : GroupOf[m] = g /\ modifier[m] = "active"}
EffectiveMinSelections(g) == IF group[g].required /\ group[g].min = 0 THEN 1 ELSE group[g].min

CountAllowed(g, n) ==
  /\ n >= EffectiveMinSelections(g)
  /\ group[g].max # 0 => n <= group[g].max
  /\ group[g].single => n <= 1

Chosen(g, selected) == {m \in selected : GroupOf[m] = g}
MeetsRules(selected) ==
  /\ selected \subseteq UNION {ActiveOf(g) : g \in LinkedGroups}
  /\ \A g \in LinkedGroups : CountAllowed(g, Cardinality(Chosen(g, selected)))

\* get_product_modifier_groups leaves the modifiers that are inactive or
\* deleted out by assigning group.modifiers. The session takes that for a
\* change of the relation: the next flush sets their modifier_group_id to
\* NULL, the column does not allow it, and the request fails.
Detached == {m \in Modifiers : GroupOf[m] \in LinkedGroups /\ modifier[m] \in {"inactive", "deleted"}}

ValidateLineModifiers(selected) == MeetsRules(selected) /\ Detached = {}

-----------------------------------------------------------------------------

\* A group can be met: it has enough active modifiers for its minimum, and a
\* single group does not ask for two (no validation excludes that one).
Satisfiable(g) ==
  /\ Cardinality(ActiveOf(g)) >= EffectiveMinSelections(g)
  /\ group[g].single => EffectiveMinSelections(g) <= 1

\* After any sequence of edits, a dish whose groups can each be met is still
\* sold with some selection: minimum, maximum, kind and requirement, each
\* patched by itself, never contradict each other. Groups that hold a
\* modifier that was switched off or deleted are excepted (see Detached).
DishOrderable ==
  (\A g \in LinkedGroups : Satisfiable(g)) /\ Detached = {}
    => \E selected \in SUBSET Modifiers : ValidateLineModifiers(selected)

\* A modifier that is switched off is refused by itself ("Modifier ... is not
\* active") and what meets the rules without it is sold.
OffOnlyItself ==
  \A selected \in SUBSET Modifiers : MeetsRules(selected) => ValidateLineModifiers(selected)

=============================================================================
