------------------------------ MODULE Notetype ------------------------------
(***************************************************************************)
(* The Vocab notetype of one user's collection (anki_writer.py): every     *)
(* write first creates it or brings it up to date for the user's card      *)
(* direction and the entry's language, then adds or updates a note, from   *)
(* whose templates Anki makes the cards.  A template that is added later   *)
(* makes a card of every note there is.                                    *)
(*                                                                         *)
(* A template is its name, whether its two sides are the current ones and  *)
(* the language of the deck it is pinned to (its deck is named after the   *)
(* language and the template).  The fields are reduced to the release up   *)
(* to which the notetype has them all, the notes to the kinds there are:   *)
(* the language of the entry, and whether the exercise has been filled.    *)
(***************************************************************************)
EXTENDS Integers, Sequences, FiniteSets, SequencesExt

CONSTANTS
    Langs,          \* source languages of entries
    Releases,       \* releases that added to VOCAB_FIELDS
    Unpinned        \* no `did': Anki's default deck

ASSUME NotetypeAssumption == Unpinned \notin Langs /\ Releases \in Nat \ {0}

VARIABLES
    model,          \* the notetype; no templates before it is created
    kinds,          \* kinds of notes in the collection
    cards,          \* what the last write made: language, template, deck
    schemas,        \* migrations that forced a schema change
    strewn          \* writes that made an old note's card in a foreign deck

noteVars == <<model, kinds, cards, schemas, strewn>>

-----------------------------------------------------------------------------
Names == {"DE-EN", "EN-DE", "Exercise"}
Directions == {"de_en", "en_de", "both"}

Template == [name : Names \cup {"Card 1"}, current : BOOLEAN, deck : Langs \cup {Unpinned}]
Model == [fields : 0..Releases, tmpls : Seq(Template)]
Kind == [lang : Langs, filled : BOOLEAN]
Card == [lang : Langs, name : Names, deck : Langs \cup {Unpinned}, wanted : BOOLEAN,
         late : BOOLEAN]

NamesOf(tmpls) == {tmpls[i].name : i \in DOMAIN tmpls}

(* _wanted_templates: in render order, the exercise always last.           *)
Wanted(d) == CASE d = "de_en" -> <<"DE-EN", "Exercise">>
               [] d = "en_de" -> <<"EN-DE", "Exercise">>
               [] d = "both"  -> <<"DE-EN", "EN-DE", "Exercise">>

NoModel == [fields |-> 0, tmpls |-> <<>>]

(* What earlier releases left in a collection; the exercise came last.     *)
LegacyNames == {<<"Card 1">>, <<"DE-EN">>, <<"EN-DE">>, <<"DE-EN", "EN-DE">>,
                <<"Card 1", "Exercise">>, <<"EN-DE", "DE-EN", "Exercise">>}
Legacy ==
    {m \in {[fields |-> f, tmpls |-> [i \in DOMAIN n |->
                                        [name |-> n[i], current |-> c, deck |-> k]]] :
              f \in 1..Releases, n \in LegacyNames, c \in BOOLEAN,
              k \in Langs \cup {Unpinned}} :
        "Exercise" \in NamesOf(m.tmpls) => m.fields = Releases}

NoteTypeOK ==
    /\ model \in Model
    /\ kinds \subseteq Kind
    /\ cards \subseteq Card
    /\ schemas \in Nat
    /\ strewn \in Nat

(* Only a release with the exercise filled it.                             *)
NoteInit ==
    /\ model \in Legacy \cup {NoModel}
    /\ kinds \in SUBSET Kind
    /\ model = NoModel => kinds = {}
    /\ \A k \in kinds : k.filled => "Exercise" \in NamesOf(model.tmpls)
    /\ cards = {}
    /\ schemas = 0
    /\ strewn = 0

-----------------------------------------------------------------------------
(* _rename_legacy_templates                                                *)
RenamedNothing(tmpls) == tmpls                  \* mutant: "Card 1" stays
Renamed(tmpls) ==
    [i \in DOMAIN tmpls |->
        IF tmpls[i].name = "Card 1" THEN [tmpls[i] EXCEPT !.name = "DE-EN"] ELSE tmpls[i]]

Fresh(n, l) == [name |-> n, current |-> TRUE, deck |-> l]

(* The wanted names that no template has yet, in render order.             *)
Missing(tmpls, d) ==
    LET absent(n) == IF n \in ToSet(Wanted(d)) \ NamesOf(tmpls) THEN <<n>> ELSE <<>>
    IN  absent("DE-EN") \o absent("EN-DE") \o absent("Exercise")

(* _sync_templates: refresh the first template of each wanted name, append *)
(* the wanted ones that are missing, keep all others.                      *)
First(tmpls, i) == \A k \in 1..(i - 1) : tmpls[k].name # tmpls[i].name

SyncedRebuilt(tmpls, d, l) ==                   \* mutant: unwanted ones dropped
    [i \in DOMAIN Wanted(d) |-> Fresh(Wanted(d)[i], l)]
SyncedAppending(tmpls, d, l) ==                 \* mutant: names never looked up
    tmpls \o [i \in DOMAIN Wanted(d) |-> Fresh(Wanted(d)[i], l)]
SyncedInPlace(tmpls, d, l) ==                   \* mutant: the deck not pinned anew
    LET refreshed == [i \in DOMAIN tmpls |-> [tmpls[i] EXCEPT !.current = TRUE]]
        missing == Missing(tmpls, d)
    IN  refreshed \o [i \in DOMAIN missing |-> Fresh(missing[i], l)]
Synced(tmpls, d, l) ==
    LET refreshed == [i \in DOMAIN tmpls |->
                         IF tmpls[i].name \in ToSet(Wanted(d)) /\ First(tmpls, i)
                         THEN Fresh(tmpls[i].name, l) ELSE tmpls[i]]
        missing == Missing(tmpls, d)
    IN  refreshed \o [i \in DOMAIN missing |-> Fresh(missing[i], l)]

(* _migrate_notetype: fields, names, templates, in this order; the same    *)
(* steps on an empty model are _create_notetype.                           *)
MigratedLate(m, d, l) ==                        \* mutant: renames last
    [fields |-> Releases, tmpls |-> Renamed(Synced(m.tmpls, d, l))]
Migrated(m, d, l) ==
    [fields |-> Releases, tmpls |-> Synced(Renamed(m.tmpls), d, l)]

(* A new field or template of an existing notetype changes the schema.     *)
SchemaChange(m, n) ==
    m # NoModel /\ (m.fields # n.fields \/ Len(m.tmpls) # Len(n.tmpls))

(* Anki makes a card of every template whose front is not empty: the       *)
(* exercise needs the note's to be filled.                                 *)
Fronts(filled) == IF filled THEN Names ELSE Names \ {"Exercise"}

(* The added templates make cards of the notes there are, in the decks of  *)
(* the language of this write (update_dict).                               *)
Late(d, l) ==
    {[lang |-> p[1].lang, name |-> p[2], deck |-> l, wanted |-> TRUE, late |-> TRUE] :
        p \in {q \in kinds \X ToSet(Missing(Renamed(model.tmpls), d)) :
                 q[2] \in Fronts(q[1].filled)}}

EnsureNotetype(d, l) ==
    /\ model' = Migrated(model, d, l)
    /\ schemas' = IF SchemaChange(model, model') THEN schemas + 1 ELSE schemas
    /\ strewn' = IF \E c \in Late(d, l) : c.deck # c.lang THEN strewn + 1 ELSE strewn

Made(tmpls, d, l, names) ==
    {[lang |-> l, name |-> tmpls[i].name, deck |-> tmpls[i].deck,
      wanted |-> tmpls[i].name \in ToSet(Wanted(d)), late |-> FALSE] :
        i \in {k \in DOMAIN tmpls : tmpls[k].name \in names}}

AddVocabNote(d, l) ==
    /\ EnsureNotetype(d, l)
    /\ \E filled \in BOOLEAN :
          /\ cards' = Late(d, l) \cup Made(model'.tmpls, d, l, Fronts(filled))
          /\ kinds' = kinds \cup {[lang |-> l, filled |-> filled]}

(* An update may fill the exercise of an old note: only that card is new.  *)
(* The note may be the last of its kind.                                   *)
UpdateVocabNote(d, l) ==
    /\ EnsureNotetype(d, l)
    /\ \E k \in kinds :
          /\ k.lang = l
          /\ \/ /\ ~k.filled
                /\ cards' = Late(d, l) \cup Made(model'.tmpls, d, l, {"Exercise"})
                /\ \E others \in {kinds, kinds \ {k}} :
                      kinds' = others \cup {[lang |-> l, filled |-> TRUE]}
             \/ /\ cards' = Late(d, l)
                /\ kinds' = kinds

(* get_card finds no such card, but the notetype is up to date by then.    *)
UpdateMissesCard(d, l) ==
    /\ EnsureNotetype(d, l)
    /\ cards' = Late(d, l)
    /\ kinds' = kinds

-----------------------------------------------------------------------------
(* No template of the user's is lost, moved or doubled, whatever the       *)
(* directions and languages of later writes and whichever release the      *)
(* collection comes from: removing one would delete every card made from   *)
(* it (_migrate_notetype's docstring), and a second one of the same name   *)
(* would never be refreshed.  Only "Card 1" gets a new name.               *)
TemplatesKept ==
    [][/\ \A i \in DOMAIN model.tmpls :
             /\ i \in DOMAIN model'.tmpls
             /\ model'.tmpls[i].name = Renamed(model.tmpls)[i].name
       /\ \A i, k \in DOMAIN model'.tmpls :
             model'.tmpls[i].name = model'.tmpls[k].name => i = k]_noteVars

(* However often the user changes direction and language, the writes       *)
(* change the schema at most twice: each change makes the next push a full *)
(* upload, which may erase what another client has added (AnkiSync).       *)
SchemaSettles == schemas <= 2

(* README.md:98 "New cards land in auto-named subdecks per (source         *)
(* language, direction)": so does every card a write makes of its own note *)
(* and a template the user's direction asks for, whichever language or     *)
(* release pinned the template before.  The exception is a template added  *)
(* to a collection with notes: it makes the old notes' cards in the deck   *)
(* of the language of that write, whatever theirs is.  One write at most   *)
(* ever does so, since no template is added twice.                         *)
CardsInOwnDeck ==
    /\ \A c \in cards : c.wanted /\ ~c.late => c.deck = c.lang
    /\ strewn <= 1
=============================================================================
