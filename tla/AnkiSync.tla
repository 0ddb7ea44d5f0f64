------------------------------ MODULE AnkiSync ------------------------------
(***************************************************************************)
(* How a card write or field update of one user reaches the Anki sync      *)
(* server (anki_sync.AnkiSyncWriter).  Every call takes the user's         *)
(* asyncio.Lock and then runs in a thread: open the shadow collection,     *)
(* pull, reattach if it is detached, change it, push, resolve, wait for    *)
(* media, close.  A cancelled coroutine gives the lock back, its thread    *)
(* goes on.                                                                *)
(*                                                                         *)
(* A collection is a set of items (the note or the field edit of a call,   *)
(* or what another client added), a schema stamp (`scm') and whether its   *)
(* Vocab notetype still lacks a field or template.  The sync protocol and  *)
(* the other client are Anki's, modelled from how anki_sync.py uses them.  *)
(***************************************************************************)
EXTENDS Integers, FiniteSets

CONSTANTS
    Writes,         \* write_card calls
    Updates,        \* update_card calls
    PhoneItems,     \* what the user's other client may add
    Nobody,
    MaxTimeouts,    \* bound: cancelled coroutines
    MaxFaults,      \* bound: network errors and process restarts
    MaxSchemas      \* bound: schema changes the other client makes

ASSUME AnkiSyncAssumption ==
    /\ Writes \cap Updates = {}
    /\ PhoneItems \cap (Writes \cup Updates) = {}
    /\ Nobody \notin Writes \cup Updates
    /\ MaxTimeouts \in Nat /\ MaxFaults \in Nat /\ MaxSchemas \in Nat

Calls == Writes \cup Updates
Items == Calls \cup PhoneItems

VARIABLES
    server,     \* the canonical collection
    shadow,     \* the pod's private copy of it
    pc,         \* where each call's thread is
    answer,     \* what each call's coroutine got
    lock,       \* the coroutine that holds the user's asyncio.Lock
    open,       \* the thread that has the collection open
    required,   \* `required' of each call's last sync_collection
    changed,    \* schema_changed of each call
    stamp,      \* newest schema stamp given out
    schemas,    \* schema changes of the other client
    unseen,     \* what it synced since the last call pulled or reattached
    timeouts, faults

vars == <<server, shadow, pc, answer, lock, open, required, changed, stamp,
          schemas, unseen, timeouts, faults>>

-----------------------------------------------------------------------------
Collection == [items: SUBSET Items, scm: Nat, outdated: BOOLEAN]
Incremental == {"NO_CHANGES", "NORMAL_SYNC"}
Threads == {"opening", "pulling", "reattaching", "changing", "pushing",
            "resolving", "media"}

TypeOK ==
    /\ server \in Collection /\ shadow \in Collection
    /\ pc \in [Calls -> Threads \cup {"idle", "waiting", "ended"}]
    /\ answer \in [Calls -> {"none", "card id", "error", "cancelled"}]
    /\ lock \in Calls \cup {Nobody}
    /\ open \in Calls \cup {Nobody}
    /\ required \in [Calls -> Incremental \cup {"none", "FULL_SYNC",
                                   "FULL_DOWNLOAD", "FULL_UPLOAD"}]
    /\ changed \in [Calls -> BOOLEAN]
    /\ unseen \subseteq PhoneItems
    /\ stamp \in Nat /\ schemas \in Nat /\ timeouts \in Nat /\ faults \in Nat

(* A collection file that does not exist yet is created with a new stamp;  *)
(* its notetype will be created complete.                                  *)
Fresh(n) == [items |-> {}, scm |-> n, outdated |-> FALSE]

(* The server is empty or holds an older collection of the user's.         *)
Init ==
    /\ \/ server = Fresh(1)
       \/ PhoneItems # {} /\ \E p \in PhoneItems, o \in BOOLEAN :
             server = [items |-> {p}, scm |-> 1, outdated |-> o]
    /\ shadow = Fresh(2)
    /\ pc = [c \in Calls |-> "idle"]
    /\ answer = [c \in Calls |-> "none"]
    /\ lock = Nobody
    /\ open = Nobody
    /\ required = [c \in Calls |-> "none"]
    /\ changed = [c \in Calls |-> FALSE]
    /\ stamp = 2
    /\ unseen = {}
    /\ schemas = 0 /\ timeouts = 0 /\ faults = 0

-----------------------------------------------------------------------------
(* Anki's sync_collection: what it requires and, when the stamps agree,    *)
(* the merge it performs.                                                  *)
SyncVerdict(local, remote) ==
    IF local.scm # remote.scm
    THEN IF (local.items = {}) = (remote.items = {}) THEN "FULL_SYNC"
         ELSE IF local.items = {} THEN "FULL_DOWNLOAD" ELSE "FULL_UPLOAD"
    ELSE IF local = remote THEN "NO_CHANGES" ELSE "NORMAL_SYNC"

Merge(a, b) == [a EXCEPT !.items = @ \cup b.items,
                         !.outdated = @ /\ b.outdated]

SyncCollection(c) ==
    LET v == SyncVerdict(shadow, server)
    IN  /\ required' = [required EXCEPT ![c] = v]
        /\ IF v \in Incremental
           THEN /\ server' = Merge(server, shadow)
                /\ shadow' = Merge(server, shadow)
                /\ unseen' = {}
           ELSE UNCHANGED <<server, shadow, unseen>>

-----------------------------------------------------------------------------
(* The coroutine: async with lock, await to_thread.                        *)
Call(c) ==
    /\ pc[c] = "idle"
    /\ pc' = [pc EXCEPT ![c] = "waiting"]
    /\ UNCHANGED <<server, shadow, answer, lock, open, required, changed, stamp,
                   schemas, unseen, timeouts, faults>>

AcquireUnlocked(c) ==                         \* mutant: no per-user lock
    /\ pc[c] = "waiting"
    /\ pc' = [pc EXCEPT ![c] = "opening"]
    /\ UNCHANGED <<server, shadow, answer, lock, open, required, changed, stamp,
                   schemas, unseen, timeouts, faults>>
Acquire(c) ==
    /\ pc[c] = "waiting"
    /\ lock = Nobody
    /\ lock' = c
    /\ pc' = [pc EXCEPT ![c] = "opening"]
    /\ UNCHANGED <<server, shadow, answer, open, required, changed, stamp,
                   schemas, unseen, timeouts, faults>>

(* The thread ends: the collection is closed, and the coroutine, unless it *)
(* is long gone, gets the result and leaves the lock.                      *)
KeepLock(c) == UNCHANGED lock                 \* mutant: lock never released
Unlock(c) == lock' = IF lock = c THEN Nobody ELSE lock

EndOverwrites(c, result) ==                   \* mutant: answers a cancelled call
    /\ pc' = [pc EXCEPT ![c] = "ended"]
    /\ open' = IF open = c THEN Nobody ELSE open
    /\ answer' = [answer EXCEPT ![c] = result]
    /\ Unlock(c)
End(c, result) ==
    /\ pc' = [pc EXCEPT ![c] = "ended"]
    /\ open' = IF open = c THEN Nobody ELSE open
    /\ answer' = [answer EXCEPT ![c] = IF @ = "none" THEN result ELSE @]
    /\ Unlock(c)

CancelCloses(c) ==                            \* mutant: closes the collection too
    /\ timeouts < MaxTimeouts
    /\ pc[c] \in Threads
    /\ answer[c] = "none"
    /\ answer' = [answer EXCEPT ![c] = "cancelled"]
    /\ Unlock(c)
    /\ open' = Nobody
    /\ timeouts' = timeouts + 1
    /\ UNCHANGED <<server, shadow, pc, required, changed, stamp, schemas, unseen, faults>>
(* asyncio.timeout or a closing request cancels the coroutine; a thread    *)
(* that has started keeps running.                                         *)
Cancel(c) ==
    /\ timeouts < MaxTimeouts
    /\ pc[c] \in Threads \cup {"waiting"}
    /\ answer[c] = "none"
    /\ answer' = [answer EXCEPT ![c] = "cancelled"]
    /\ Unlock(c)
    /\ pc' = [pc EXCEPT ![c] = IF @ = "waiting" THEN "ended" ELSE @]
    /\ timeouts' = timeouts + 1
    /\ UNCHANGED <<server, shadow, open, required, changed, stamp, schemas, unseen, faults>>

-----------------------------------------------------------------------------
(* The thread: _write_and_sync and _update_and_sync.                       *)

Goto(c, next) ==
    /\ pc' = [pc EXCEPT ![c] = next]
    /\ UNCHANGED <<answer, lock, open, timeouts, faults>>

(* Collection(path): Anki keeps the file locked while it is open.          *)
OpenCollection(c) ==
    /\ pc[c] = "opening"
    /\ open = Nobody
    /\ open' = c
    /\ pc' = [pc EXCEPT ![c] = "pulling"]
    /\ UNCHANGED <<server, shadow, answer, lock, required, changed, stamp,
                   schemas, unseen, timeouts, faults>>

OpenFails(c) ==
    /\ pc[c] = "opening"
    /\ open # Nobody
    /\ End(c, "error")
    /\ UNCHANGED <<server, shadow, required, changed, stamp, schemas, unseen,
                   timeouts, faults>>

Pull(c) ==
    /\ pc[c] = "pulling"
    /\ SyncCollection(c)
    /\ Goto(c, IF required'[c] \in Incremental THEN "changing" ELSE "reattaching")
    /\ UNCHANGED <<changed, stamp, schemas>>

ReattachEmpty(c) ==                           \* mutant: downloads no notes
    /\ pc[c] = "reattaching"
    /\ shadow' = [server EXCEPT !.items = shadow.items]
    /\ unseen' = {}
    /\ Goto(c, "changing")
    /\ UNCHANGED <<server, required, changed, stamp, schemas>>
(* _reattach_before_write: the server's state replaces the shadow.         *)
Reattach(c) ==
    /\ pc[c] = "reattaching"
    /\ shadow' = server
    /\ unseen' = {}
    /\ Goto(c, "changing")
    /\ UNCHANGED <<server, required, changed, stamp, schemas>>

(* _ensure_notetype: a missing field or template is added, which gives the *)
(* collection a new stamp.                                                 *)
Migrated == IF shadow.outdated
            THEN [shadow EXCEPT !.scm = stamp + 1, !.outdated = FALSE]
            ELSE shadow

ChangeCollection(c) ==
    /\ pc[c] = "changing"
    /\ stamp' = IF shadow.outdated THEN stamp + 1 ELSE stamp
    /\ changed' = [changed EXCEPT ![c] = shadow.outdated]
    /\ IF c \in Writes \/ shadow.items \cap Writes # {}
       THEN /\ shadow' = [Migrated EXCEPT !.items = @ \cup {c}]
            /\ Goto(c, "pushing")
       ELSE /\ shadow' = Migrated               \* get_card finds no such card
            /\ End(c, "error")
            /\ UNCHANGED <<timeouts, faults>>
    /\ UNCHANGED <<server, required, schemas, unseen>>

Push(c) ==
    /\ pc[c] = "pushing"
    /\ SyncCollection(c)
    /\ Goto(c, "resolving")
    /\ UNCHANGED <<changed, stamp, schemas>>

(* _resolve_after_write: go on, upload the whole collection, or raise.     *)
MayUploadAlways(c) ==                         \* mutant: schema_changed ignored
    required[c] \in {"FULL_UPLOAD", "FULL_SYNC"}
MayUpload(c) ==
    required[c] = "FULL_UPLOAD" \/ (required[c] = "FULL_SYNC" /\ changed[c])

LandedVerdict(c) ==                           \* mutant: an update answers its verdict
    IF c \in Writes THEN Goto(c, "media")
    ELSE End(c, required[c]) /\ UNCHANGED <<timeouts, faults>>
Landed(c) == IF c \in Writes THEN Goto(c, "media")
             ELSE End(c, "card id") /\ UNCHANGED <<timeouts, faults>>

ResolveIncremental(c) ==
    /\ pc[c] = "resolving"
    /\ required[c] \in Incremental
    /\ Landed(c)
    /\ UNCHANGED <<server, shadow, required, changed, stamp, schemas, unseen>>

ResolveByUpload(c) ==
    /\ pc[c] = "resolving"
    /\ MayUpload(c)
    /\ server' = shadow
    /\ Landed(c)
    /\ UNCHANGED <<shadow, required, changed, stamp, schemas, unseen>>

ResolveSwallowed(c) ==                        \* mutant: no abort
    /\ pc[c] = "resolving"
    /\ required[c] \notin Incremental
    /\ ~MayUpload(c)
    /\ Landed(c)
    /\ UNCHANGED <<server, shadow, required, changed, stamp, schemas, unseen>>
ResolveByRaising(c) ==
    /\ pc[c] = "resolving"
    /\ required[c] \notin Incremental
    /\ ~MayUpload(c)
    /\ End(c, "error")
    /\ UNCHANGED <<server, shadow, required, changed, stamp, schemas, unseen,
                   timeouts, faults>>

(* _wait_for_media_sync ends when the transfer is done or aborted at the   *)
(* deadline; the call returns either way.                                  *)
WaitForMedia(c) ==
    /\ pc[c] = "media"
    /\ End(c, "card id")
    /\ UNCHANGED <<server, shadow, required, changed, stamp, schemas, unseen,
                   timeouts, faults>>

-----------------------------------------------------------------------------
(* Faults.                                                                 *)

CanFault == faults < MaxFaults /\ faults' = faults + 1

(* A request fails before the server sees it (a login or a media request   *)
(* included), or, for a push and the upload of the whole collection, after *)
(* the server has taken it.                                                *)
NetworkError(c) ==
    /\ CanFault
    /\ pc[c] \in {"pulling", "reattaching", "pushing", "resolving", "media"}
    /\ \/ UNCHANGED server
       \/ /\ pc[c] = "pushing"
          /\ SyncVerdict(shadow, server) \in Incremental
          /\ server' = Merge(server, shadow)
       \/ /\ pc[c] = "resolving"
          /\ MayUpload(c)
          /\ server' = shadow
    /\ End(c, "error")
    /\ UNCHANGED <<shadow, required, changed, stamp, schemas, unseen, timeouts>>

(* The pod restarts with a fresh shadow (emptyDir); threads, locks and     *)
(* unanswered calls are gone.                                              *)
Restart ==
    /\ CanFault
    /\ shadow' = Fresh(stamp + 1)
    /\ stamp' = stamp + 1
    /\ pc' = [c \in Calls |-> IF pc[c] = "idle" THEN "idle" ELSE "ended"]
    /\ answer' = [c \in Calls |-> IF pc[c] # "idle" /\ answer[c] = "none"
                                  THEN "error" ELSE answer[c]]
    /\ lock' = Nobody
    /\ open' = Nobody
    /\ UNCHANGED <<server, required, changed, schemas, unseen, timeouts>>

-----------------------------------------------------------------------------
(* The user's other client: an incremental sync, or a change of its own to *)
(* the schema (say, a deleted template) uploaded as a whole after a sync.  *)
PhoneSyncs(p) ==
    /\ p \notin server.items
    /\ server' = [server EXCEPT !.items = @ \cup {p}]
    /\ unseen' = unseen \cup {p}
    /\ UNCHANGED <<shadow, pc, answer, lock, open, required, changed, stamp,
                   schemas, timeouts, faults>>

PhoneChangesSchema ==
    /\ schemas < MaxSchemas
    /\ \E o \in BOOLEAN : server' = [server EXCEPT !.scm = stamp + 1, !.outdated = o]
    /\ stamp' = stamp + 1
    /\ schemas' = schemas + 1
    /\ UNCHANGED <<shadow, pc, answer, lock, open, required, changed, unseen,
                   timeouts, faults>>

-----------------------------------------------------------------------------
Coroutine(c) == Acquire(c)
Thread(c) ==
    \/ OpenCollection(c) \/ OpenFails(c) \/ Pull(c) \/ Reattach(c)
    \/ ChangeCollection(c) \/ Push(c)
    \/ ResolveIncremental(c) \/ ResolveByUpload(c) \/ ResolveByRaising(c)
    \/ WaitForMedia(c)

Next ==
    \/ \E c \in Calls : Call(c) \/ Coroutine(c) \/ Cancel(c) \/ Thread(c) \/ NetworkError(c)
    \/ Restart
    \/ \E p \in PhoneItems : PhoneSyncs(p)
    \/ PhoneChangesSchema

Spec == Init /\ [][Next]_vars

(* A started thread runs to its end (the media wait has a deadline), and a *)
(* free lock wakes a waiter.                                               *)
Fairness == \A c \in Calls : WF_vars(Coroutine(c)) /\ WF_vars(Thread(c))
FairSpec == Spec /\ Fairness

-----------------------------------------------------------------------------
(* A card the code reported as written stays on the server: a push that    *)
(* transferred nothing never counts as success (the detached shadow of     *)
(* #40), and no later reattach, upload, restart or retry takes it back.    *)
SuccessLasts == \A c \in Calls : answer[c] = "card id" => c \in server.items

(* A full upload replaces the user's collection, but a call may only lose  *)
(* what another client synced after the call had pulled or reattached: its *)
(* own earlier cards and edits, reported or not, and whatever was there    *)
(* when it started survive it, whoever was cancelled or restarted.  The    *)
(* window itself is what the code leaves open: nothing makes it look again *)
(* before _resolve_after_write uploads.                                    *)
ErasesOnlyUnseen == [][server.items \ server'.items \subseteq unseen]_vars

(* The backend keeps the promise every backend makes (CardStore): success  *)
(* lasts, an answer is final, nothing reaches the server for a call that   *)
(* was never made, also when coroutines are cancelled while their threads  *)
(* go on and when the pod restarts.                                        *)
Outcome(c) == CASE pc[c] = "idle"        -> "none"
                [] pc[c] # "idle" /\ answer[c] = "none" -> "open"
                [] answer[c] = "card id" -> "returned"
                [] OTHER                 -> "raised"

Store == INSTANCE CardStore WITH call <- [c \in Calls |-> Outcome(c)],
                                 held <- server.items \cap Calls

StoreSpec == Store!Spec

(* The thread that changes the shadow or pushes it is the one that opened  *)
(* it: no other thread reads or writes the file in between.                *)
OneThreadInCollection ==
    \A c \in Calls : pc[c] \in Threads \ {"opening"} => open = c

(* anki_sync.py:60 "Concurrent writes for the same user are serialized     *)
(* through an asyncio.Lock", as far as it is true: until a coroutine is    *)
(* cancelled, a thread about to open the collection finds it closed, also  *)
(* after errors and restarts.  A cancelled coroutine frees the lock while  *)
(* its thread still has the file open.                                     *)
SerializedUnlessCancelled ==
    timeouts = 0 => \A c \in Calls : pc[c] = "opening" => open = Nobody

(* The inductive invariant behind the safety theorems.  Whatever was       *)
(* reported is in the shadow of the thread that may upload it, because it  *)
(* pulled or reattached since it opened the collection.                    *)
Reported == {c \in Calls : answer[c] = "card id"}

OpenInv == \A c \in Calls : pc[c] \in Threads \ {"opening"} <=> open = c

LockInv == timeouts = 0 => \A c \in Calls : pc[c] \in Threads => lock = c

KeptInv ==
    \A c \in Calls :
        /\ pc[c] \in {"changing", "pushing", "resolving"} => Reported \subseteq shadow.items
        /\ pc[c] \in {"pushing", "resolving"} => c \in shadow.items
        /\ pc[c] = "resolving" /\ required[c] \in Incremental => c \in server.items
        /\ pc[c] = "media" => c \in server.items

IInv == TypeOK /\ OpenInv /\ LockInv /\ KeptInv /\ SuccessLasts

(* Every call is answered and the lock is free again.                      *)
CallsEnd == \A c \in Calls : pc[c] = "waiting" ~> pc[c] = "ended" /\ lock # c
=============================================================================
