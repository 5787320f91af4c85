------------------------------ MODULE Combatants ------------------------------
(***************************************************************************)
(* What the tools make of a fighter a client describes: internal/tools,    *)
(* matchup.go, moveset.go and legacy.go.                                   *)
(*                                                                         *)
(* A species id is a name and a suffix, "" or the shadow suffix.  A        *)
(* document holds species, with their move lists and which of their moves  *)
(* are legacy or elite, moves with a category, and cups.  A ranking is a   *)
(* sequence of entries.                                                    *)
(***************************************************************************)
EXTENDS Naturals, Sequences, SequencesExt, Lists

CONSTANTS None  \* an omitted move, an absent part of an answer

shadowSuffix == "_shadow"

\* Faulty variant: an id that names the shadow form already is not stripped.
LookupUnstripped(doc, id, shadow) ==
    LET dark == <<id[1], shadowSuffix>>
    IN  IF shadow /\ id[2] = "" /\ dark \in DOMAIN doc.pokemon
        THEN [ok |-> TRUE, id |-> dark, missing |-> FALSE]
        ELSE [ok |-> id \in DOMAIN doc.pokemon, id |-> id, missing |-> shadow]

\* resolveSpeciesLookup: a fighter flagged as shadow is the shadow form, however
\* it is spelt, or the base form if the document has no other.
Lookup(doc, id, shadow) ==
    LET base == <<id[1], "">>
        dark == <<id[1], shadowSuffix>>
    IN  IF ~shadow THEN [ok |-> id \in DOMAIN doc.pokemon, id |-> id, missing |-> FALSE]
        ELSE IF dark \in DOMAIN doc.pokemon THEN [ok |-> TRUE, id |-> dark, missing |-> FALSE]
        ELSE [ok |-> base \in DOMAIN doc.pokemon, id |-> base, missing |-> TRUE]

\* resolvedSpeciesIDForMoveset: an unknown species is looked up as it stands.
MovesetId(doc, spec) ==
    LET found == Lookup(doc, spec.species, spec.shadow)
    IN  IF found.ok THEN found.id ELSE spec.species

EntryIndex(entries, id) == SelectInSeq(entries, LAMBDA e : e.species = id)

\* ResolveMoveset, once the ranking is at hand.
Recommends(entries, id) ==
    EntryIndex(entries, id) > 0 /\ entries[EntryIndex(entries, id)].moveset # <<>>

Recommended(entries, id) == entries[EntryIndex(entries, id)].moveset

Equip(spec, moveset) == [spec EXCEPT !.fast = Head(moveset), !.charged = Tail(moveset)]

\* applyMovesetDefaults: only an omitted fast move asks for the recommendation,
\* which then replaces the charged moves as well.
Defaulted(doc, entries, spec) ==
    IF spec.fast # None THEN spec
    ELSE Equip(spec, Recommended(entries, MovesetId(doc, spec)))

MovesOf(spec) == ToSet(spec.charged) \cup ({spec.fast} \ {None})

\* The moves of a species that are restricted under the two flags.
Restricted(doc, id, noLegacy, noElite) ==
    IF id \notin DOMAIN doc.pokemon THEN {}
    ELSE (IF noLegacy THEN doc.pokemon[id].legacy ELSE {})
         \cup (IF noElite THEN doc.pokemon[id].elite ELSE {})

\* rejectTeamRestricted: a move the client sent against its own flags.
SentConflict(doc, spec, noLegacy, noElite) ==
    LET found == Lookup(doc, spec.species, spec.shadow)
    IN  found.ok /\ MovesOf(spec) \cap Restricted(doc, found.id, noLegacy, noElite) # {}

\* Faulty variant: the flags are looked up under the name the client used.
FilledConflictByName(doc, entries, spec, noLegacy, noElite) ==
    /\ spec.fast = None
    /\ ToSet(Recommended(entries, MovesetId(doc, spec)))
          \cap Restricted(doc, spec.species, noLegacy, noElite) # {}

\* rejectResolvedRestricted: a recommended move against the flags.
FilledConflict(doc, entries, spec, noLegacy, noElite) ==
    LET id == MovesetId(doc, spec)
    IN  /\ spec.fast = None
        /\ ToSet(Recommended(entries, id)) \cap Restricted(doc, id, noLegacy, noElite) # {}

IsMove(doc, id, category) == id \in DOMAIN doc.moves /\ doc.moves[id] = category

\* buildOneMetaCombatant succeeds: the document knows the species and the moves
\* of the entry; a spread under the cap always exists.
Usable(doc, entry) ==
    /\ entry.species \in DOMAIN doc.pokemon
    /\ Len(entry.moveset) >= 2
    /\ IsMove(doc, Head(entry.moveset), "fast")
    /\ \A k \in 2 .. Len(entry.moveset) : IsMove(doc, entry.moveset[k], "charged")

\* buildMetaCombatants: what the document cannot resolve is left out.
Kept(doc, entries) == Without(entries, {e \in ToSet(entries) : ~Usable(doc, e)})

TopOf(entries, n) == SubSeq(entries, 1, IF n < Len(entries) THEN n ELSE Len(entries))

\* buildEngineCombatant succeeds: species, fast move and charged moves exist in
\* the document, each in its category.
Buildable(doc, spec) ==
    /\ Lookup(doc, spec.species, spec.shadow).ok
    /\ spec.valid
    /\ IsMove(doc, spec.fast, "fast")
    /\ \A k \in DOMAIN spec.charged : IsMove(doc, spec.charged[k], "charged")

\* resolvedFromSpec, and whether the engine fights it as a shadow.
Built(doc, spec) ==
    LET found == Lookup(doc, spec.species, spec.shadow)
    IN  [species |-> spec.species, resolved |-> found.id, missing |-> found.missing,
         fast |-> spec.fast, charged |-> spec.charged,
         dark |-> spec.shadow \/ found.id[2] = shadowSuffix]
=============================================================================
