----------------------------- MODULE WordCaches -----------------------------
(***************************************************************************)
(* The two shared caches one job of the pipeline goes through, in the      *)
(* order of worker.process_entry: the translation of the word, then the    *)
(* MP3 of its lemma, which the Anki card fetches back.  Both commit in     *)
(* transactions of their own; a cancelled or crashed job leaves behind     *)
(* what it had stored.                                                     *)
(***************************************************************************)
EXTENDS TranslationCache

CONSTANTS
    Listeners,      \* requests for the MP3 alone (routes/audio.live_audio)
    MaxCrashes      \* bound: restarts of the process

ASSUME CrashAssumption == MaxCrashes \in Nat /\ Listeners \cap Calls = {}

VARIABLES
    atomic,     \* AudioCache's variables: the storage,
    mp3row,     \* the audio_cache row,
    object,     \* the stored object,
    stage,      \* where each job's synthesize_with_cache is,
    writing,    \* threads that have truncated the file,
    torn,       \* whether one broke off since it was last written,
    heard,      \* what each job fetched for its card,
    crashes     \* and the restarts

audioVars == <<atomic, mp3row, object, stage, writing, torn, heard, crashes>>

Jobs == Calls \cup Listeners

Audio == INSTANCE AudioCache WITH Calls <- Jobs, row <- mp3row, pc <- stage, got <- heard

CachesTypeOK == TypeOK /\ Audio!TypeOK

CachesInit == Init /\ Audio!Init

(* translate_with_cache, awaited first.                                    *)
TranslateStep(c) ==
    /\ Lookup(c) \/ Translate(c) \/ AddExercise(c) \/ Store(c) \/ Fail(c)
    /\ UNCHANGED audioVars

(* synthesize_with_cache and storage.fetch, for the card or the listener.  *)
AudioStep(c) ==
    /\ c \in Calls => pc[c] = "returned"
    /\ \/ Audio!Lookup(c) \/ Audio!Synthesize(c) \/ Audio!PutObject(c)
       \/ Audio!TruncateFile(c) \/ Audio!WriteFile(c) \/ Audio!WriteFails(c)
       \/ Audio!StoreRow(c) \/ Audio!Fetch(c) \/ Audio!Cancel(c)
    /\ UNCHANGED vars

(* The process restarts: every job under way is gone, with its threads.    *)
Restart ==
    /\ Audio!Crash
    /\ LET cut == {c \in Calls : pc[c] \in {"translating", "completing", "storing"}}
       IN  /\ pc' = [c \in Calls |-> IF c \in cut THEN "failed" ELSE pc[c]]
           /\ got' = [c \in Calls |-> IF c \in cut THEN NoRow ELSE got[c]]
    /\ UNCHANGED <<cache, found>>

CachesNext == (\E c \in Calls : TranslateStep(c)) \/ (\E c \in Jobs : AudioStep(c)) \/ Restart

CachesSpec == CachesInit /\ [][CachesNext]_<<vars, audioVars>>

-----------------------------------------------------------------------------
(* A cached audio row never promises an object the store does not have,    *)
(* whatever failed, was cancelled or crashed between put and insert.  With *)
(* S3 every job that was given the URL fetches the whole MP3, also while   *)
(* others store it again; a local file is incomplete only while another    *)
(* job rewrites it, or since one broke off in the middle of that.          *)
RowHasObject == Audio!RowHasObject
=============================================================================
