--------------------------- MODULE WordCachesProofs ---------------------------
(***************************************************************************)
(* What the two shared caches promise, for any number of jobs, listeners,  *)
(* answers and restarts.  The two caches share no state, so each has an    *)
(* inductive invariant of its own, kept by the steps of one and left alone *)
(* by those of the other.                                                  *)
(***************************************************************************)
EXTENDS WordCaches, TLAPS

USE CacheAssumption, CrashAssumption

Filtered == [answer : Answers, low : {FALSE}]

(* A job holds an answer once it was translated, a filtered one once it    *)
(* may be stored or returned; what a job found in the cache is still there *)
(* and complete; what a complete result left is complete.                  *)
CacheInv ==
    /\ TypeOK
    /\ \A c \in Calls :
          /\ pc[c] = "completing" => got[c] \in Results \ {NoRow}
          /\ pc[c] \in {"storing", "returned"} => got[c] \in Filtered
          /\ found[c] # NoRow => found[c] = cache /\ Fresh(cache)
    /\ CompleteIsCached

(* A coroutine is only about to insert the row, or the row is only there,  *)
(* once the object exists; half an object has a writer or was left by one  *)
(* that broke off; S3 never has half an object.                            *)
AudioInv ==
    /\ Audio!TypeOK
    /\ \A c \in Jobs :
          /\ stage[c] = "storing" => object # "none"
          /\ stage[c] = "returned" => mp3row
    /\ atomic => writing = {} /\ object # "partial"
    /\ object = "partial" => writing # {} \/ torn
    /\ RowHasObject

-----------------------------------------------------------------------------
(* The filter, and the records it is applied to.                           *)
LEMMA StrippedIsFiltered ==
    ASSUME NEW r \in [answer : Answers, low : BOOLEAN]
    PROVE  /\ Stripped(r) \in Filtered /\ Stripped(r).answer = r.answer
           /\ Stripped(r) # NoRow /\ r # NoRow
  BY DEF Stripped, Filtered, Answers

LEMMA FilteredIsResult == Filtered \subseteq Results \ {NoRow}
  BY DEF Filtered, Results, Answers

(* A fresh row is a complete answer.                                       *)
LEMMA FreshRows ==
    ASSUME NEW r \in Rows, Fresh(r)
    PROVE  r \in [answer : Answers, low : BOOLEAN] /\ r.answer \in Complete
  BY DEF Fresh, Rows, Results, Answers

LEMMA InitCacheInv == CachesInit => CacheInv
<1> SUFFICES ASSUME Init PROVE CacheInv
  BY DEF CachesInit
<1>1. \A a \in Legacy : Result(a, FALSE) \in Rows
  BY DEF Result, Rows
<1>2. \A a \in Complete \cap Misleading : Result(a, TRUE) \in Rows
  BY DEF Result, Rows, Results, Answers
<1>3. NoRow \in Results /\ NoRow \in Rows
  BY DEF Results, Rows
<1>4. TypeOK
  BY <1>1, <1>2, <1>3 DEF Init, TypeOK
<1> QED BY <1>4 DEF Init, CacheInv, CompleteIsCached

LEMMA LookupStep ==
    ASSUME CacheInv, NEW c \in Calls, Lookup(c)
    PROVE  CacheInv'
<1>1. CASE Fresh(cache)
  <2>1. cache \in [answer : Answers, low : BOOLEAN] /\ cache.answer \in Complete
    BY <1>1, FreshRows DEF CacheInv, TypeOK
  <2>2. Hit(cache) \in Filtered
    BY <2>1, StrippedIsFiltered DEF Hit
  <2>3. /\ found' = [found EXCEPT ![c] = cache]
        /\ got' = [got EXCEPT ![c] = Hit(cache)]
        /\ pc' = [pc EXCEPT ![c] = "returned"] /\ cache' = cache
    BY <1>1 DEF Lookup
  <2>4. TypeOK'
    BY <2>2, <2>3, FilteredIsResult DEF CacheInv, TypeOK
  <2>5. Fresh(cache)' /\ CompleteIsCached'
    BY <1>1, <2>3 DEF Fresh, CompleteIsCached
  <2>6. ASSUME NEW d \in Calls
        PROVE  /\ pc'[d] = "completing" => got'[d] \in Results \ {NoRow}
               /\ pc'[d] \in {"storing", "returned"} => got'[d] \in Filtered
               /\ found'[d] # NoRow => found'[d] = cache'
    <3>1. CASE d = c
      BY <3>1, <2>2, <2>3 DEF CacheInv, TypeOK
    <3>2. CASE d # c
      BY <3>2, <2>3 DEF CacheInv, TypeOK
    <3> QED BY <3>1, <3>2
  <2> QED BY <2>4, <2>5, <2>6 DEF CacheInv
<1>2. CASE ~Fresh(cache)
  <2>1. /\ pc' = [pc EXCEPT ![c] = "translating"]
        /\ UNCHANGED <<cache, found, got>>
    BY <1>2 DEF Lookup
  <2>2. TypeOK'
    BY <2>1 DEF CacheInv, TypeOK
  <2> QED BY <2>1, <2>2 DEF CacheInv, TypeOK, CompleteIsCached, Fresh
<1> QED BY <1>1, <1>2

LEMMA TranslateStepKeeps ==
    ASSUME CacheInv, NEW c \in Calls, Translate(c)
    PROVE  CacheInv'
<1>1. PICK a \in Answers : got' = [got EXCEPT ![c] = Result(a, a \in Misleading)]
  BY DEF Translate
<1> DEFINE r == Result(a, a \in Misleading)
<1>2. r \in Results \ {NoRow}
  <2> HIDE DEF r
  <2>1. \A low \in BOOLEAN : Result(a, low) \in Results \ {NoRow}
    BY DEF Result, Results, Answers
  <2>2. CASE a \in Misleading
    <3>1. r = Result(a, TRUE)
      BY <2>2, Zenon DEF r
    <3> QED BY <2>1, <3>1
  <2>3. CASE a \notin Misleading
    <3>1. (a \in Misleading) = FALSE
      BY <2>3, SMT
    <3>2. r = Result(a, FALSE)
      BY <3>1, Zenon DEF r
    <3> QED BY <2>1, <3>2
  <2> QED BY <2>2, <2>3
<1> HIDE DEF r
<1>3. got' = [got EXCEPT ![c] = r] /\ pc' = [pc EXCEPT ![c] = "completing"]
      /\ UNCHANGED <<cache, found>>
  BY <1>1 DEF Translate, r
<1>4. TypeOK'
  BY <1>2, <1>3 DEF CacheInv, TypeOK
<1> QED BY <1>2, <1>3, <1>4 DEF CacheInv, TypeOK, CompleteIsCached, Fresh

LEMMA AddExerciseStep ==
    ASSUME CacheInv, NEW c \in Calls, AddExercise(c)
    PROVE  CacheInv'
<1>1. got[c] \in [answer : Answers, low : BOOLEAN]
  BY DEF CacheInv, AddExercise, Results
<1>2. Stripped(got[c]) \in Filtered
  BY <1>1, StrippedIsFiltered
<1>3. /\ got' = [got EXCEPT ![c] = Stripped(got[c])]
      /\ pc' = [pc EXCEPT ![c] = "storing"] /\ UNCHANGED <<cache, found>>
  BY DEF AddExercise
<1>4. TypeOK'
  BY <1>2, <1>3, FilteredIsResult DEF CacheInv, TypeOK
<1> QED BY <1>2, <1>3, <1>4 DEF CacheInv, TypeOK, CompleteIsCached, Fresh

(* The DO UPDATE ... WHERE NOT fresh: a fresh row stays as it is.          *)
LEMMA StoreStep ==
    ASSUME CacheInv, NEW c \in Calls, Store(c)
    PROVE  CacheInv'
<1>1. got[c] \in Filtered /\ got[c] \in Results /\ got[c] # NoRow
  BY FilteredIsResult DEF CacheInv, Store
<1>2. /\ cache' = IF Fresh(cache) THEN cache ELSE got[c]
      /\ pc' = [pc EXCEPT ![c] = "returned"] /\ UNCHANGED <<found, got>>
  BY DEF Store, Upserted
<1>3. TypeOK'
  BY <1>1, <1>2 DEF CacheInv, TypeOK, Rows
<1>4. Fresh(cache) => cache' = cache /\ Fresh(cache)'
  BY <1>2 DEF Fresh
<1>5. got[c].answer \in Complete => Fresh(cache)'
  BY <1>1, <1>2, <1>4 DEF Fresh
<1>6. CompleteIsCached'
  BY <1>2, <1>4, <1>5 DEF CacheInv, TypeOK, CompleteIsCached
<1> QED BY <1>1, <1>2, <1>3, <1>4, <1>6 DEF CacheInv, TypeOK

LEMMA FailStep ==
    ASSUME CacheInv, NEW c \in Calls, Fail(c)
    PROVE  CacheInv'
<1>1. /\ pc' = [pc EXCEPT ![c] = "failed"] /\ got' = [got EXCEPT ![c] = NoRow]
      /\ UNCHANGED <<cache, found>>
  BY DEF Fail
<1>2. TypeOK'
  BY <1>1 DEF CacheInv, TypeOK, Results
<1> QED BY <1>1, <1>2 DEF CacheInv, TypeOK, CompleteIsCached, Fresh

(* A restart fails whatever had not been stored.                           *)
LEMMA RestartKeepsCache ==
    ASSUME CacheInv, Restart
    PROVE  CacheInv'
<1> DEFINE cut == {c \in Calls : pc[c] \in {"translating", "completing", "storing"}}
<1>1. /\ pc' = [c \in Calls |-> IF c \in cut THEN "failed" ELSE pc[c]]
      /\ got' = [c \in Calls |-> IF c \in cut THEN NoRow ELSE got[c]]
      /\ UNCHANGED <<cache, found>>
  BY DEF Restart
<1>2. TypeOK'
  BY <1>1 DEF CacheInv, TypeOK, Results
<1> QED BY <1>1, <1>2 DEF CacheInv, TypeOK, CompleteIsCached, Fresh

LEMMA StillCache ==
    ASSUME CacheInv, UNCHANGED vars
    PROVE  CacheInv'
  BY DEF CacheInv, TypeOK, CompleteIsCached, Fresh, vars

LEMMA NextCacheInv == CacheInv /\ [CachesNext]_<<vars, audioVars>> => CacheInv'
<1> SUFFICES ASSUME CacheInv, [CachesNext]_<<vars, audioVars>> PROVE CacheInv'
  OBVIOUS
<1>1. ASSUME NEW c \in Calls, TranslateStep(c) PROVE CacheInv'
  BY <1>1, LookupStep, TranslateStepKeeps, AddExerciseStep, StoreStep, FailStep
     DEF TranslateStep
<1>2. ASSUME NEW c \in Jobs, AudioStep(c) PROVE CacheInv'
  BY <1>2, StillCache DEF AudioStep
<1>3. CASE Restart
  BY <1>3, RestartKeepsCache
<1>4. CASE UNCHANGED <<vars, audioVars>>
  BY <1>4, StillCache
<1> QED BY <1>1, <1>2, <1>3, <1>4 DEF CachesNext

-----------------------------------------------------------------------------
LEMMA InitAudioInv == CachesInit => AudioInv
<1> SUFFICES ASSUME Audio!Init PROVE AudioInv
  BY DEF CachesInit
<1>1. {atomic, mp3row} \subseteq BOOLEAN
  <2>1. atomic \in BOOLEAN /\ mp3row \in BOOLEAN
    BY Zenon DEF Audio!Init
  <2> QED BY <2>1, Zenon
<1>2. /\ ~mp3row /\ object = "none" /\ writing = {} /\ crashes = 0 /\ torn = FALSE
      /\ stage = [c \in Jobs |-> "idle"] /\ heard = [c \in Jobs |-> "nothing"]
  BY DEF Audio!Init
<1>3. Audio!TypeOK
  BY <1>1, <1>2 DEF Audio!TypeOK
<1> QED BY <1>2, <1>3 DEF AudioInv, RowHasObject, Audio!RowHasObject

LEMMA AudioStepKeeps ==
    ASSUME AudioInv, NEW c \in Jobs, AudioStep(c)
    PROVE  AudioInv'
<1> USE DEF AudioInv, Audio!TypeOK, RowHasObject, Audio!RowHasObject, Audio!Goto
<1>1. CASE Audio!Lookup(c)
  BY <1>1 DEF Audio!Lookup
<1>2. CASE Audio!Synthesize(c)
  BY <1>2 DEF Audio!Synthesize, Audio!AfterSynthesis
<1>3. CASE Audio!PutObject(c)
  BY <1>3 DEF Audio!PutObject
<1>4. CASE Audio!TruncateFile(c)
  BY <1>4 DEF Audio!TruncateFile
<1>5. CASE Audio!WriteFile(c)
  BY <1>5 DEF Audio!WriteFile
<1>6. CASE Audio!StoreRow(c)
  BY <1>6 DEF Audio!StoreRow
<1>7. CASE Audio!Fetch(c)
  BY <1>7 DEF Audio!Fetch
<1>8. CASE Audio!Cancel(c)
  BY <1>8 DEF Audio!Cancel
<1>9. CASE Audio!WriteFails(c)
  BY <1>9 DEF Audio!WriteFails
<1> QED BY <1>1, <1>2, <1>3, <1>4, <1>5, <1>6, <1>7, <1>8, <1>9 DEF AudioStep

LEMMA RestartKeepsAudio ==
    ASSUME AudioInv, Restart
    PROVE  AudioInv'
<1> USE DEF AudioInv, Audio!TypeOK, RowHasObject, Audio!RowHasObject
<1>1. Audio!Crash
  BY DEF Restart
<1>2. torn' = (torn \/ writing # {})
  BY <1>1, Zenon DEF Audio!Crash
<1>3. torn' \in BOOLEAN
  BY <1>2, Zenon
<1>4. writing # {} => torn'
  BY <1>2, Zenon
<1>5. torn => torn'
  BY <1>2, Zenon
<1> QED BY <1>1, <1>3, <1>4, <1>5 DEF Audio!Crash

LEMMA StillAudio ==
    ASSUME AudioInv, UNCHANGED audioVars
    PROVE  AudioInv'
  BY DEF AudioInv, Audio!TypeOK, RowHasObject, Audio!RowHasObject, audioVars

LEMMA NextAudioInv == AudioInv /\ [CachesNext]_<<vars, audioVars>> => AudioInv'
<1> SUFFICES ASSUME AudioInv, [CachesNext]_<<vars, audioVars>> PROVE AudioInv'
  OBVIOUS
<1>1. ASSUME NEW c \in Calls, TranslateStep(c) PROVE AudioInv'
  BY <1>1, StillAudio DEF TranslateStep
<1>2. ASSUME NEW c \in Jobs, AudioStep(c) PROVE AudioInv'
  BY <1>2, AudioStepKeeps
<1>3. CASE Restart
  BY <1>3, RestartKeepsAudio
<1>4. CASE UNCHANGED <<vars, audioVars>>
  BY <1>4, StillAudio
<1> QED BY <1>1, <1>2, <1>3, <1>4 DEF CachesNext

-----------------------------------------------------------------------------
(* Both invariants together hold in every reachable state.                 *)
THEOREM CachesInvariance == CachesSpec => [](CacheInv /\ AudioInv)
<1>1. CachesInit => CacheInv /\ AudioInv
  BY InitCacheInv, InitAudioInv
<1>2. CacheInv /\ AudioInv /\ [CachesNext]_<<vars, audioVars>> => (CacheInv /\ AudioInv)'
  BY NextCacheInv, NextAudioInv
<1> QED BY <1>1, <1>2, PTL DEF CachesSpec

(* A row that was served from the cache stays what every later caller gets *)
(* (translate_with_cache's DO UPDATE ... WHERE).                           *)
THEOREM CachedSenseIsStable == CachesSpec => []HitsAgree
<1>1. CacheInv => HitsAgree
  BY DEF CacheInv, HitsAgree
<1> QED BY <1>1, CachesInvariance, PTL

(* A complete result that was returned is cached for good.                 *)
THEOREM CompleteStaysCached == CachesSpec => []CompleteIsCached
<1>1. CacheInv => CompleteIsCached
  BY DEF CacheInv
<1> QED BY <1>1, CachesInvariance, PTL

(* No caller gets a misleading alternative, from the model or from a row   *)
(* of any age (_strip_low_value_alt on both paths).                        *)
THEOREM NobodyIsMisled == CachesSpec => []NoFalseFriends
<1>1. \A r, q \in Filtered : r.low = FALSE /\ (r.answer = q.answer => r = q)
  <2>1. \A r \in Filtered : r = [answer |-> r.answer, low |-> r.low]
    BY DEF Filtered
  <2>2. \A r \in Filtered : r.low = FALSE
    BY Zenon DEF Filtered
  <2> QED BY <2>1, <2>2, Zenon
<1>2. CacheInv => NoFalseFriends
  BY <1>1 DEF CacheInv, NoFalseFriends
<1> QED BY <1>2, CachesInvariance, PTL

(* A cached MP3 exists, whatever failed, was cancelled or crashed between  *)
(* the put and the insert of synthesize_with_cache; half a local file has  *)
(* a late writer, or had one that broke off (_write).                      *)
THEOREM CachedAudioExists == CachesSpec => []RowHasObject
<1>1. AudioInv => RowHasObject
  BY DEF AudioInv
<1> QED BY <1>1, CachesInvariance, PTL
=============================================================================
