-------------------------- MODULE TranslationCache --------------------------
(***************************************************************************)
(* The shared translation cache (llm.translate_with_cache) for one key     *)
(* (word, sentence_hash, lang), used by concurrent callers: look a fresh   *)
(* row up, else ask the model, then upsert in a transaction of its own     *)
(* that outlives the caller's.                                             *)
(*                                                                         *)
(* An answer is complete when the freshness predicate would accept it,     *)
(* bare when it would not (no collocation and no example sentence, or no   *)
(* definition).  A legacy row predates the columns the predicate reads.    *)
(* Some answers come with a misleading alternative (the same word spelled  *)
(* differently, a compound), which is stripped.                            *)
(***************************************************************************)
EXTENDS Integers, FiniteSets

CONSTANTS
    Calls,      \* callers of translate_with_cache
    Complete,   \* what the model may answer: answers that are fresh as rows
    Bare,       \* and answers that are not
    Misleading, \* answers that come with a low-value alternative
    Legacy,     \* rows from before a migration
    NoRow       \* no row; a call that has no result

ASSUME CacheAssumption ==
    /\ Complete \cap (Bare \cup Legacy) = {}
    /\ Bare \cap Legacy = {} /\ Misleading \subseteq Complete \cup Bare
    /\ NoRow \notin [answer : Complete \cup Bare \cup Legacy, low : BOOLEAN]

VARIABLES
    cache,      \* the committed row
    pc,         \* where each call is
    found,      \* the row each call's SELECT returned
    got         \* the result each call holds

vars == <<cache, pc, found, got>>

(* An answer and whether a low-value alternative is attached to it.        *)
Result(a, low) == [answer |-> a, low |-> low]
Answers == Complete \cup Bare
Results == [answer : Answers, low : BOOLEAN] \cup {NoRow}
Rows == Results \cup [answer : Legacy, low : BOOLEAN]

TypeOK ==
    /\ cache \in Rows
    /\ pc \in [Calls -> {"idle", "translating", "completing", "storing", "returned", "failed"}]
    /\ found \in [Calls -> Rows]
    /\ got \in [Calls -> Results]

(* A row from before the filter may be fresh and misleading.               *)
Init ==
    /\ cache \in {NoRow} \cup {Result(a, FALSE) : a \in Legacy}
                         \cup {Result(a, TRUE) : a \in Complete \cap Misleading}
    /\ pc = [c \in Calls |-> "idle"]
    /\ found = [c \in Calls |-> NoRow]
    /\ got = [c \in Calls |-> NoRow]

(* _cache_row_is_fresh, shared by the SELECT and the DO UPDATE.            *)
Fresh(r) == r # NoRow /\ r.answer \in Complete

(* _strip_low_value_alt                                                    *)
Stripped(r) == [r EXCEPT !.low = FALSE]

HitAsStored(r) == r                                  \* mutant: not stripped when read
Hit(r) == Stripped(r)

Lookup(c) ==
    /\ pc[c] = "idle"
    /\ IF Fresh(cache)
       THEN /\ found' = [found EXCEPT ![c] = cache]
            /\ got' = [got EXCEPT ![c] = Hit(cache)]
            /\ pc' = [pc EXCEPT ![c] = "returned"]
       ELSE /\ pc' = [pc EXCEPT ![c] = "translating"]
            /\ UNCHANGED <<found, got>>
    /\ UNCHANGED cache

(* LlmClient.translate: a request for the translation and its usage, then  *)
(* one for the exercise fields that go with it.                            *)
Translate(c) ==
    /\ pc[c] = "translating"
    /\ \E a \in Answers : got' = [got EXCEPT ![c] = Result(a, a \in Misleading)]
    /\ pc' = [pc EXCEPT ![c] = "completing"]
    /\ UNCHANGED <<cache, found>>

AddExercise(c) ==
    /\ pc[c] = "completing"
    /\ got' = [got EXCEPT ![c] = Stripped(@)]
    /\ pc' = [pc EXCEPT ![c] = "storing"]
    /\ UNCHANGED <<cache, found>>

(* INSERT ... ON CONFLICT DO UPDATE ... WHERE NOT fresh, committed before  *)
(* the call returns.                                                       *)
UpsertedNothing(r) == IF cache = NoRow THEN r ELSE cache   \* mutant: DO NOTHING
UpsertedAlways(r) == r                                     \* mutant: no WHERE
Upserted(r) == IF Fresh(cache) THEN cache ELSE r

Store(c) ==
    /\ pc[c] = "storing"
    /\ cache' = Upserted(got[c])
    /\ pc' = [pc EXCEPT ![c] = "returned"]
    /\ UNCHANGED <<found, got>>

(* The model refuses either request or breaks off (_checked), gives no     *)
(* structured output, the caller's timeout cancels it, the process dies.   *)
Fail(c) ==
    /\ pc[c] \in {"translating", "completing", "storing"}
    /\ pc' = [pc EXCEPT ![c] = "failed"]
    /\ got' = [got EXCEPT ![c] = NoRow]
    /\ UNCHANGED <<cache, found>>

Next == \E c \in Calls : Lookup(c) \/ Translate(c) \/ AddExercise(c) \/ Store(c) \/ Fail(c)

Spec == Init /\ [][Next]_vars

-----------------------------------------------------------------------------
(* Every caller served by the cache got the translation and sense that     *)
(* every later one will get: a complete row is never replaced by a slower  *)
(* caller's answer, so the sense two entries of one word are compared by   *)
(* does not depend on when they were looked up.                            *)
HitsAgree == \A c \in Calls : found[c] # NoRow => found[c] = cache

(* A call that returned a complete result leaves the word cached, also     *)
(* when the row it met was a legacy one or another call stored a bare      *)
(* answer in between.                                                      *)
CompleteIsCached ==
    \A c \in Calls : pc[c] = "returned" /\ got[c].answer \in Complete => Fresh(cache)

(* No caller ever learns as a "more idiomatic alternative" what the filter *)
(* recognises as none, a word's own spelling or a compound of it (the rest *)
(* is left to the prompt), and hit or miss makes no difference: also rows  *)
(* stored before the filter existed are served without it.                 *)
NoFalseFriends ==
    \A c, d \in Calls :
        pc[c] = "returned" /\ pc[d] = "returned" =>
            /\ ~got[c].low
            /\ got[c].answer = got[d].answer => got[c] = got[d]
=============================================================================
