----------------------------- MODULE CardFront -----------------------------
(***************************************************************************)
(* What the front of one entry's cards shows: the gap sentences            *)
(* (cloze.populate_cloze, operations.cloze_pool), the exercises            *)
(* (exercise.exercise_pool) and the one counter, cloze_index, that picks   *)
(* the sentence, the exercise and the slot of the right answer.  A         *)
(* sentence is the sequence of its words as far as they matter; the gap is *)
(* one of them.                                                            *)
(***************************************************************************)
EXTENDS Integers, Sequences, FiniteSets, SequencesExt

CONSTANTS
    Forms,          \* words that may be the entry's word or its lemma
    Filler,         \* any other word
    Gap,            \* ___
    Ids,            \* entry ids
    Distractors,    \* how many wrong options the model may give
    MaxLength,      \* bound: words of a sentence
    MaxExtras,      \* bound: extra examples
    MaxIndex        \* bound: rotations

ASSUME FrontAssumption ==
    /\ Filler \notin Forms /\ Gap \notin Forms \cup {Filler}
    /\ Ids \subseteq Nat /\ Distractors \subseteq Nat \ {0}
    /\ MaxLength \in Nat \ {0} /\ MaxExtras \in Nat /\ MaxIndex \in Nat

VARIABLES
    word, lemma,    \* as encountered, and its dictionary form
    sentence,       \* <<>>: none was given
    cloze,          \* cloze_sentence, <<>> before populate_cloze
    extras,         \* extra_examples
    id,
    types,          \* exercises the entry has data for
    options,        \* answers of its multiple choice
    index           \* cloze_index

frontVars == <<word, lemma, sentence, cloze, extras, id, types, options, index>>

Words == Forms \cup {Filler}
Sentences == UNION {[1..n -> Words] : n \in 1..MaxLength}
Types == {"choice", "hints", "definition", "listening"}

FrontTypeOK ==
    /\ word \in Forms /\ lemma \in Forms
    /\ sentence \in Sentences \cup {<<>>}
    /\ cloze \in Seq(Words \cup {Gap})
    /\ extras \in Seq(Sentences)
    /\ cloze # <<>> => sentence # <<>>
    /\ id \in Ids /\ types \subseteq Types
    /\ options \in {d + 1 : d \in Distractors} /\ index \in Nat

(* mask_word_in_sentence: the first whole-word occurrence, if there is one *)
MaskEvery(s, w) ==                              \* mutant: count=1 forgotten
    [i \in DOMAIN s |-> IF s[i] = w THEN Gap ELSE s[i]]
Mask(s, w) ==
    [i \in DOMAIN s |->
        IF s[i] = w /\ \A k \in 1..(i - 1) : s[k] # w THEN Gap ELSE s[i]]

MaskedWordFirst(s) ==                           \* mutant: the order swapped
    IF Contains(s, word) THEN Mask(s, word) ELSE Mask(s, lemma)
(* The lemma goes first, the encountered form is tried next.               *)
Masked(s) == IF Contains(s, lemma) THEN Mask(s, lemma) ELSE Mask(s, word)
Maskable(s) == Contains(s, lemma) \/ Contains(s, word)

(* cloze_pool, up to the n-th example: one with neither form is left out. *)
poolUpTo[n \in 0..Len(extras)] ==
    IF n = 0 THEN <<cloze>>
    ELSE IF Maskable(extras[n]) THEN Append(poolUpTo[n - 1], Masked(extras[n]))
    ELSE poolUpTo[n - 1]
ClozePool == poolUpTo[Len(extras)]

ActiveClozeUnwrapped(i) == ClozePool[IF i < Len(ClozePool) THEN i + 1 ELSE 1]
                                                \* mutant: no modulo
(* active_cloze_sentence, at cloze_index i.                                *)
ActiveCloze(i) == ClozePool[(i % Len(ClozePool)) + 1]

(* exercise_pool: the types the entry has data for, in stable order.       *)
Offered(t) == IF t \in types THEN <<t>> ELSE <<>>
ExercisePool ==
    Offered("choice") \o Offered("hints") \o Offered("definition") \o Offered("listening")

ActiveShort(i) ==                               \* mutant: off by one
    ExercisePool[((id + i) % (IF Len(ExercisePool) > 1 THEN Len(ExercisePool) - 1 ELSE 1)) + 1]
(* active_exercise.                                                        *)
ActiveExercise(i) == ExercisePool[((id + i) % Len(ExercisePool)) + 1]

PositionSummed(i) == (id + i) % options         \* mutant: the sum that picks the type
(* _multiple_choice: the slot of the answer.                               *)
Position(i) == (id + i \div options) % options

FrontInit ==
    /\ word \in Forms /\ lemma \in Forms
    /\ sentence \in Sentences \cup {<<>>}
    /\ cloze = <<>> /\ extras = <<>>
    /\ id \in Ids
    /\ types = {} /\ options \in {d + 1 : d \in Distractors} /\ index = 0

exercise == <<id, types, options, index>>

(* A source sentence with either form is masked; without one, the model    *)
(* invents a sentence with the lemma and its gap variant (the model is     *)
(* taken to follow its prompt; the code stores both as they come).         *)
MaskSource ==
    /\ cloze = <<>> /\ sentence # <<>> /\ Maskable(sentence)
    /\ cloze' = Masked(sentence)
    /\ UNCHANGED <<word, lemma, sentence, extras, exercise>>

InventClozeOnly ==                              \* mutant: sentence not replaced
    /\ cloze = <<>> /\ ~Maskable(sentence)
    /\ \E s \in Sentences : Contains(s, lemma) /\ cloze' = Mask(s, lemma)
    /\ UNCHANGED <<word, lemma, sentence, extras, exercise>>
InventExample ==
    /\ cloze = <<>> /\ ~Maskable(sentence)
    /\ \E s \in Sentences :
          /\ Contains(s, lemma)
          /\ sentence' = s
          /\ cloze' = Mask(s, lemma)
    /\ UNCHANGED <<word, lemma, extras, exercise>>

(* The translation's columns: examples, any sentences of the model's, and  *)
(* what the exercises need, which it may leave out.                        *)
StoreTranslation ==
    /\ cloze # <<>> /\ extras = <<>> /\ types = {}
    /\ \E n \in 0..MaxExtras : extras' \in [1..n -> Sentences]
    /\ types' \in SUBSET Types
    /\ UNCHANGED <<word, lemma, sentence, cloze, id, options, index>>

(* An approval may override the lemma; cloze_sentence stays as it is.      *)
(* _word_hints: another lemma may rule out the synonym and the antonym, or *)
(* admit them again, once a translation has brought them.                  *)
OverrideLemma ==
    /\ cloze # <<>>
    /\ lemma' \in Forms
    /\ \/ types' = types
       \/ /\ extras # <<>> \/ types # {}
          /\ types' \in {types \cup {"hints"}, types \ {"hints"}}
    /\ UNCHANGED <<word, sentence, cloze, extras, id, options, index>>

(* rotate_cloze, for an entry with something to rotate.                    *)
RotateCloze ==
    /\ cloze # <<>> /\ index < MaxIndex
    /\ Len(ClozePool) > 1 \/ Len(ExercisePool) > 1
    /\ index' = index + 1
    /\ UNCHANGED <<word, lemma, sentence, cloze, extras, id, types, options>>

FrontNext ==
    MaskSource \/ InventExample \/ StoreTranslation \/ OverrideLemma \/ RotateCloze

FrontSpec == FrontInit /\ [][FrontNext]_frontVars

-----------------------------------------------------------------------------
Fill(s, w) == [i \in DOMAIN s |-> IF s[i] = Gap THEN w ELSE s[i]]
Places(s, w) == {i \in DOMAIN s : s[i] = w}

(* Every sentence a front can show has one gap, and one word in it gives   *)
(* back a sentence the entry stores: the source sentence on the back for   *)
(* the first, an extra example for the others, also after the lemma was    *)
(* overridden.                                                             *)
GapsAreSolvable ==
    cloze # <<>> =>
        /\ \A i \in DOMAIN ClozePool : Cardinality(Places(ClozePool[i], Gap)) = 1
        /\ \E w \in Forms : Fill(ClozePool[1], w) = sentence
        /\ \A i \in 2..Len(ClozePool) :
              \E w \in Forms : Fill(ClozePool[i], w) \in ToSet(extras)

(* operations.py:63 "a smaller pool is better than exposing the answer on  *)
(* the card front", as far as it is true: an example that enters the pool  *)
(* shows the lemma only if it has it twice (only the first is masked).     *)
AnswerIsHidden ==
    \A i \in 2..Len(ClozePool) :
        Places(ClozePool[i], lemma) # {} =>
            \E s \in ToSet(extras) : /\ Fill(ClozePool[i], lemma) = s
                                     /\ Cardinality(Places(s, lemma)) > 1

(* Whatever the index has grown to, every exercise the entry has turns up  *)
(* within one round of the exercises, and every gap sentence within one    *)
(* round of the sentences: the shared counter starves neither.             *)
EverythingTurnsUp ==
    cloze # <<>> =>
        /\ \A t \in types :
              \E i \in index..(index + Cardinality(types) - 1) : ActiveExercise(i) = t
        /\ ToSet(ClozePool) =
              {ActiveCloze(i) : i \in index..(index + Len(ClozePool) - 1)}

(* exercise.py:57 "no fixed slot to memorize": from any index on, the      *)
(* answer of a multiple choice visits all its slots on the very nights the *)
(* choice is shown.  Two slots among four exercises are the one case where *)
(* it does not: the slot then turns exactly twice between two choices.     *)
Horizon == Len(ExercisePool) * options * options

NoFixedSlot ==
    "choice" \in types /\ (options > 2 \/ Len(ExercisePool) < 4) =>
        \A s \in 0..(options - 1) :
            \E i \in index..(index + Horizon) :
                ActiveExercise(i) = "choice" /\ Position(i) = s
=============================================================================
