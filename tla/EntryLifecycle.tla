--------------------------- MODULE EntryLifecycle ---------------------------
(***************************************************************************)
(* The life of a vocabulary entry between Postgres and Anki.               *)
(*                                                                         *)
(* Four kinds of actor share the rows of one user: the HTTP request that   *)
(* adds a word and processes it inline under a timeout (one per entry, so  *)
(* the entry stands for the request too), the background workers that      *)
(* claim pending rows, and the approve and reject requests.  Each runs in  *)
(* one database transaction (READ COMMITTED), while the Anki card is       *)
(* written OUTSIDE that transaction, before its commit, and is never taken *)
(* back.                                                                   *)
(*                                                                         *)
(* A row is what the database has committed.  Columns that no decision     *)
(* reads (translation, IPA, examples, cloze, timestamps) are left out;     *)
(* `translation' is NULL exactly when `lemma' is.                          *)
(***************************************************************************)
EXTENDS Integers, Sequences, FiniteSets

CONSTANTS
    Entries,        \* entry rows the run may create (and their add requests)
    Imported,       \* the entries that come from a Kindle file, not inline
    Workers,        \* background worker loops (replicas)
    Approvers,      \* approve requests
    Rejecters,      \* reject requests
    Lemmas,         \* lemmas a translation can report
    Senses,         \* sense_key slugs, the column's default included
    DefaultSense,   \* server default of sense_key
    NoLemma,        \* NULL
    Nobody,         \* no holder of a row lock
    MaxFailures     \* bound: exceptions, timeouts, crashes

ASSUME ActorsAssumption ==
    /\ Imported \subseteq Entries
    /\ Entries \cap (Workers \cup Approvers \cup Rejecters) = {}
    /\ Workers \cap (Approvers \cup Rejecters) = {}
    /\ Approvers \cap Rejecters = {}
    /\ Nobody \notin Entries \cup Workers \cup Approvers \cup Rejecters

ASSUME DataAssumption ==
    /\ DefaultSense \in Senses
    /\ NoLemma \notin Lemmas
    /\ MaxFailures \in Nat
    /\ IsFiniteSet(Entries)

Adders == Entries \ Imported
Jobs == Adders \cup Workers              \* what runs process_entry
Requests == Approvers \cup Rejecters
Actors == Entries \cup Workers \cup Requests

VARIABLES
    row,        \* committed entry rows
    owner,      \* holder of each row's lock (SELECT ... FOR UPDATE, UPDATE)
    created,    \* created_at of each row's transaction, 0 before it starts
    pc,         \* where each actor is
    target,     \* the entry an actor works on
    loaded,     \* the row as the actor's session loaded it
    draft,      \* the actor's in-memory ORM object
    audio,      \* lemmas whose MP3 is in the audio storage
    cards,      \* Anki notes, in the order they were written
    strays,     \* card writes whose coroutine is gone, the thread still running
    failures    \* failures so far

vars == <<row, owner, created, pc, target, loaded, draft, audio, cards,
          strays, failures>>

-----------------------------------------------------------------------------
Decided == {"needs-review", "synced", "rejected"}
Statuses == Decided \cup {"absent", "pending", "dropped"}

Card == [entry: Entries, lemma: Lemmas, sense: Senses]
Row == [status: Statuses, lemma: Lemmas \cup {NoLemma}, sense: Senses,
        voiced: BOOLEAN, card: Nat, twin: Entries \cup {Nobody}]
Stray == [actor: Actors, card: Card]

(* A freshly inserted row: pending, every worker column at its default.  A *)
(* card of 0 is NULL; only a dropped row has a twin, the entry it repeats. *)
Raw == [status |-> "pending", lemma |-> NoLemma, sense |-> DefaultSense,
        voiced |-> FALSE, card |-> 0, twin |-> Nobody]
Absent == [Raw EXCEPT !.status = "absent"]
Dropped(f) == [Raw EXCEPT !.status = "dropped", !.twin = f]

Visible(e) == row[e].status \in Decided \cup {"pending"}

ConflictOnLemma(e, r) ==                 \* mutant: the constraint without sense_key
    r.lemma # NoLemma /\ \E f \in Entries \ {e} : Visible(f) /\ row[f].lemma = r.lemma
(* uq_entry_user_lemma_lang_sense: SQL's UNIQUE ignores a NULL lemma.      *)
Conflict(e, r) ==
    /\ r.lemma # NoLemma
    /\ \E f \in Entries \ {e} : /\ Visible(f)
                                /\ row[f].lemma = r.lemma
                                /\ row[f].sense = r.sense

(* The UPDATE of an approve request names only the columns that differ     *)
(* from the loaded ones.                                                   *)
MergedStatusOnly(a) ==                   \* mutant: anki_card_id not stored
    [row[target[a]] EXCEPT !.status = "synced"]
Column(d, o, r) == IF d = o THEN r ELSE d
Merged(a) ==
    LET r == row[target[a]]
        d == draft[a]
        o == loaded[a]
    IN  [r EXCEPT !.lemma = Column(d.lemma, o.lemma, r.lemma),
                  !.status = Column(d.status, o.status, r.status),
                  !.card = d.card]

(* An UPDATE sent but not committed holds its row's old and its new key:   *)
(* whoever needs either in the unique index waits for that transaction.    *)
Blocked(e, r) ==
    /\ r.lemma # NoLemma
    /\ \E f \in Entries \ {e}, a \in Approvers :
          /\ owner[f] = a
          /\ \E k \in {row[f], Merged(a)} : k.lemma = r.lemma /\ k.sense = r.sense

TypeOK ==
    /\ row \in [Entries -> Row]
    /\ owner \in [Entries -> Workers \cup Approvers \cup {Nobody}]
    /\ created \in [Entries -> Nat]
    /\ pc \in [Actors -> {"idle", "translating", "dropping", "enriching",
                          "preparing", "writing", "finishing", "deferred",
                          "rejecting", "done"}]
    /\ target \in [Actors -> Entries \cup {Nobody}]
    /\ loaded \in [Actors -> Row]
    /\ draft \in [Actors -> Row]
    /\ audio \subseteq Lemmas
    /\ cards \in Seq(Card)
    /\ strays \subseteq Stray
    /\ failures \in Nat

Init ==
    /\ row = [e \in Entries |-> Absent]
    /\ owner = [e \in Entries |-> Nobody]
    /\ created = [e \in Entries |-> 0]
    /\ pc = [a \in Actors |-> "idle"]
    /\ target = [a \in Actors |-> Nobody]
    /\ loaded = [a \in Actors |-> Absent]
    /\ draft = [a \in Actors |-> Absent]
    /\ audio = {}
    /\ cards = <<>>
    /\ strays = {}
    /\ failures = 0

-----------------------------------------------------------------------------
(* Helpers of the actions.                                                 *)

(* The actor's session takes up entry e, seeing row r.                     *)
Begin(a, e, r, next) ==
    /\ pc' = [pc EXCEPT ![a] = next]
    /\ target' = [target EXCEPT ![a] = e]
    /\ loaded' = [loaded EXCEPT ![a] = r]

(* The actor's session closes and its identity map is gone.                *)
Leave(a, next) ==
    /\ pc' = [pc EXCEPT ![a] = next]
    /\ target' = [target EXCEPT ![a] = Nobody]
    /\ loaded' = [loaded EXCEPT ![a] = Absent]
    /\ draft' = [draft EXCEPT ![a] = Absent]

Goto(a, next) ==
    /\ pc' = [pc EXCEPT ![a] = next]
    /\ UNCHANGED <<target, loaded>>

(* A worker loops; a request answers once.                                 *)
AfterLeaving(a) == IF a \in Workers THEN "idle" ELSE "done"

ReleaseForgotten(a) ==                   \* mutant: a worker leaks its lock
    owner' = [e \in Entries |-> IF owner[e] = a /\ a \notin Workers THEN Nobody ELSE owner[e]]
(* The end of a transaction releases the row lock it took.                 *)
Release(a) == owner' = [e \in Entries |-> IF owner[e] = a THEN Nobody ELSE owner[e]]

NextTick(S) ==
    created' = [e \in Entries |-> IF e \in S
                                  THEN Cardinality({f \in Entries : created[f] # 0}) + 1
                                  ELSE created[e]]

-----------------------------------------------------------------------------
(* Adding words.                                                           *)

(* add_entry / htmx_create_entry: the row is inserted and flushed, not     *)
(* committed, so no other transaction sees it until the request commits.   *)
AddEntry(e) ==
    /\ e \in Adders
    /\ pc[e] = "idle"
    /\ Begin(e, e, Raw, "translating")
    /\ draft' = [draft EXCEPT ![e] = Raw]
    /\ NextTick({e})
    /\ UNCHANGED <<row, owner, audio, cards, strays, failures>>

(* import_kindle_entries: one transaction inserts several raw rows, all    *)
(* with its now().                                                         *)
ImportEntries(S) ==
    /\ S # {}
    /\ \A e \in S : pc[e] = "idle"
    /\ row' = [e \in Entries |-> IF e \in S THEN Raw ELSE row[e]]
    /\ pc' = [a \in Actors |-> IF a \in S THEN "done" ELSE pc[a]]
    /\ NextTick(S)
    /\ UNCHANGED <<owner, target, loaded, draft, audio, cards, strays, failures>>

(* _claim_one_pending: the oldest pending row nobody has locked, locked    *)
(* until the worker's transaction ends.                                    *)
ClaimableLocked == {e \in Entries : row[e].status = "pending"}   \* mutant: no SKIP LOCKED
ClaimableHeld ==                        \* mutant: held rows are reprocessed
    {e \in Entries : row[e].status \in {"pending", "needs-review"} /\ owner[e] = Nobody}
Claimable == {e \in Entries : row[e].status = "pending" /\ owner[e] = Nobody}

ClaimUnlocked(w) ==                      \* mutant: SELECT without FOR UPDATE
    /\ pc[w] = "idle"
    /\ \E e \in Claimable :
        /\ \A f \in Claimable : created[e] <= created[f]
        /\ Begin(w, e, row[e], "translating")
        /\ draft' = [draft EXCEPT ![w] = row[e]]
    /\ UNCHANGED <<row, owner, created, audio, cards, strays, failures>>
ClaimOnePending(w) ==
    /\ pc[w] = "idle"
    /\ \E e \in Claimable :
        /\ \A f \in Claimable : created[e] <= created[f]
        /\ owner' = [owner EXCEPT ![e] = w]
        /\ Begin(w, e, row[e], "translating")
        /\ draft' = [draft EXCEPT ![w] = row[e]]
    /\ UNCHANGED <<row, created, audio, cards, strays, failures>>

-----------------------------------------------------------------------------
(* process_entry, run by a job: an adder inline or a worker.               *)

Siblings(e, l) == {f \in Entries \ {e} : Visible(f) /\ row[f].lemma = l}

(* _find_duplicate: an equal sense key proves a duplicate; otherwise the   *)
(* model is asked and may name any known sense of the lemma, or none.      *)
FindDuplicate(e, l, s) ==
    LET known == Siblings(e, l)
        same == {f \in known : row[f].sense = s}
    IN  IF same # {} THEN same ELSE known \cup {Nobody}

(* The translation arrives (any lemma and sense: the model picks both per  *)
(* call) and the user's committed rows are searched for a duplicate.       *)
Translate(j) ==
    /\ pc[j] = "translating"
    /\ \E l \in Lemmas, s \in Senses :
        \E f \in FindDuplicate(target[j], l, s) :
            IF f = Nobody
            THEN /\ draft' = [draft EXCEPT ![j] = [@ EXCEPT !.lemma = l, !.sense = s]]
                 /\ Goto(j, "enriching")
            ELSE /\ draft' = [draft EXCEPT ![j] = Dropped(f)]
                 /\ Goto(j, "dropping")
    /\ UNCHANGED <<row, owner, created, audio, cards, strays, failures>>

EnrichNoAwait(j) ==                      \* mutant: `synced' before the write
    /\ pc[j] = "enriching"
    /\ audio' = audio \cup {draft[j].lemma}
    /\ draft' = [draft EXCEPT ![j] = [@ EXCEPT !.voiced = TRUE, !.status = "synced"]]
    /\ Goto(j, "finishing")
    /\ UNCHANGED <<row, owner, created, cards, strays, failures>>
(* Plausibility, audio of the lemma (stored and cached independently of    *)
(* the entry's transaction), cloze, columns; then either held for review   *)
(* or on to Anki with the MP3 just stored.                                 *)
Enrich(j) ==
    /\ pc[j] = "enriching"
    /\ audio' = audio \cup {draft[j].lemma}
    /\ \/ /\ draft' = [draft EXCEPT ![j] = [@ EXCEPT !.voiced = TRUE, !.status = "needs-review"]]
          /\ Goto(j, "finishing")
       \/ /\ draft' = [draft EXCEPT ![j].voiced = TRUE]
          /\ Goto(j, "writing")
    /\ UNCHANGED <<row, owner, created, cards, strays, failures>>

NewCard(a) == [entry |-> target[a], lemma |-> draft[a].lemma, sense |-> draft[a].sense]

(* write_entry_to_anki: the note exists as soon as write_card returns; the *)
(* row that points to it is still only in memory.                          *)
WriteCard(a) ==
    /\ pc[a] = "writing"
    /\ cards' = Append(cards, NewCard(a))
    /\ draft' = [draft EXCEPT ![a] = [@ EXCEPT !.card = Len(cards) + 1, !.status = "synced"]]
    /\ Goto(a, "finishing")
    /\ UNCHANGED <<row, owner, created, audio, strays, failures>>

(* session.delete(entry) and commit: the new word repeats its twin.        *)
DropDuplicate(j) ==
    /\ pc[j] = "dropping"
    /\ row' = [row EXCEPT ![target[j]] = draft[j]]
    /\ Leave(j, AfterLeaving(j))
    /\ Release(j)
    /\ UNCHANGED <<created, audio, cards, strays, failures>>

CommitEntryBarging(j) ==              \* mutant: waits for no flushed key
    /\ pc[j] = "finishing"
    /\ ~Conflict(target[j], draft[j])
    /\ row' = [row EXCEPT ![target[j]] = draft[j]]
    /\ Leave(j, AfterLeaving(j))
    /\ Release(j)
    /\ UNCHANGED <<created, audio, cards, strays, failures>>
(* The row reaches the database at the flush that ends the savepoint (add) *)
(* or the transaction (worker).                                            *)
CommitEntry(j) ==
    /\ pc[j] = "finishing"
    /\ ~Blocked(target[j], draft[j])
    /\ ~Conflict(target[j], draft[j])
    /\ row' = [row EXCEPT ![target[j]] = draft[j]]
    /\ Leave(j, AfterLeaving(j))
    /\ Release(j)
    /\ UNCHANGED <<created, audio, cards, strays, failures>>

(* The flush violates the unique constraint: the add falls back to the raw *)
(* row, the worker's transaction rolls back and the row stays pending.     *)
UniqueViolation(j) ==
    /\ pc[j] = "finishing"
    /\ ~Blocked(target[j], draft[j])
    /\ Conflict(target[j], draft[j])
    /\ IF j \in Workers
       THEN Leave(j, "idle") /\ Release(j)
       ELSE /\ Goto(j, "deferred")
            /\ draft' = [draft EXCEPT ![j] = Raw]
            /\ UNCHANGED owner
    /\ UNCHANGED <<row, created, audio, cards, strays, failures>>

(* process_entry_or_defer swallowed the failure: the caller commits the    *)
(* raw row and the worker will retry it.                                   *)
CommitRaw(e) ==
    /\ pc[e] = "deferred"
    /\ row' = [row EXCEPT ![e] = draft[e]]
    /\ Leave(e, "done")
    /\ UNCHANGED <<owner, created, audio, cards, strays, failures>>

-----------------------------------------------------------------------------
(* Approve and reject requests.                                            *)

LoadUntranslated(a) ==                   \* mutant: no `not yet translated' check
    /\ pc[a] = "idle"
    /\ \E e \in Entries :
        /\ Visible(e)
        /\ Begin(a, e, row[e], "preparing")
        /\ draft' = [draft EXCEPT ![a] = row[e]]
    /\ UNCHANGED <<row, owner, created, audio, cards, strays, failures>>
(* approve_entry: any row that has, or is given, a lemma and translation;  *)
(* the payload may override the lemma.                                     *)
LoadForApproval(a) ==
    /\ pc[a] = "idle"
    /\ \E e \in Entries :
        /\ Visible(e)
        /\ \E l \in (Lemmas \cup {row[e].lemma}) \ {NoLemma} :
            /\ Begin(a, e, row[e], "preparing")
            /\ draft' = [draft EXCEPT ![a] = [row[e] EXCEPT !.lemma = l]]
    /\ UNCHANGED <<row, owner, created, audio, cards, strays, failures>>

(* _backfill_worker_fields of a row whose generation markers are unset:    *)
(* before it asks the cache, translate_with_cache's query autoflushes what *)
(* the payload changed.  The UPDATE waits for the row and for its key, and *)
(* fails if the row is gone (StaleDataError) or its key taken; otherwise   *)
(* the request holds the row from here to the end of its transaction.      *)
BackfillFlush(a) ==
    /\ pc[a] = "preparing"
    /\ owner[target[a]] = Nobody
    /\ ~Blocked(target[a], Merged(a))
    /\ IF Visible(target[a]) /\ ~Conflict(target[a], Merged(a))
       THEN /\ owner' = [owner EXCEPT ![target[a]] = a]
            /\ UNCHANGED <<pc, target, loaded, draft>>
       ELSE Leave(a, "done") /\ UNCHANGED owner
    /\ UNCHANGED <<row, created, audio, cards, strays, failures>>

(* Cloze, the rest of the backfill and storage.fetch of the MP3 named      *)
(* after the lemma.  A row loaded raw has never been processed, so its     *)
(* backfill has flushed before.                                            *)
PrepareApproval(a) ==
    /\ pc[a] = "preparing"
    /\ loaded[a].lemma = NoLemma => owner[target[a]] = a
    /\ draft[a].voiced => draft[a].lemma \in audio
    /\ Goto(a, "writing")
    /\ UNCHANGED <<row, owner, created, draft, audio, cards, strays, failures>>

(* storage.fetch finds no such file: the request fails.                    *)
ApprovalWithoutAudio(a) ==
    /\ pc[a] = "preparing"
    /\ draft[a].voiced
    /\ draft[a].lemma \notin audio
    /\ Leave(a, "done")
    /\ Release(a)
    /\ UNCHANGED <<row, created, audio, cards, strays, failures>>

(* The UPDATE waits for the row lock, unless the request has flushed, and  *)
(* for its key; it finds the row gone (StaleDataError), hits the unique    *)
(* constraint, or commits.                                                 *)
CommitApproval(a) ==
    /\ pc[a] = "finishing"
    /\ owner[target[a]] \in {Nobody, a}
    /\ ~Blocked(target[a], Merged(a))
    /\ IF Visible(target[a]) /\ ~Conflict(target[a], Merged(a))
       THEN row' = [row EXCEPT ![target[a]] = Merged(a)]
       ELSE UNCHANGED row
    /\ Leave(a, "done")
    /\ Release(a)
    /\ UNCHANGED <<created, audio, cards, strays, failures>>

(* reject_entry: loads the row without a lock.                             *)
LoadForReject(a) ==
    /\ pc[a] = "idle"
    /\ \E e \in Entries :
        /\ Visible(e)
        /\ Begin(a, e, row[e], "rejecting")
        /\ draft' = [draft EXCEPT ![a] = [row[e] EXCEPT !.status = "rejected"]]
    /\ UNCHANGED <<row, owner, created, audio, cards, strays, failures>>

CommitRejectDeletes(a) ==                \* mutant: reject deletes the row
    /\ pc[a] = "rejecting"
    /\ owner[target[a]] = Nobody
    /\ row' = [row EXCEPT ![target[a]] = Absent]
    /\ Leave(a, "done")
    /\ UNCHANGED <<owner, created, audio, cards, strays, failures>>
(* No UPDATE when the loaded status already was `rejected'; otherwise the  *)
(* UPDATE waits for the row lock and rewrites the status whatever it is by *)
(* then.                                                                   *)
CommitReject(a) ==
    /\ pc[a] = "rejecting"
    /\ \/ /\ loaded[a].status = "rejected"
          /\ UNCHANGED row
       \/ /\ loaded[a].status # "rejected"
          /\ owner[target[a]] = Nobody
          /\ row' = IF Visible(target[a])
                    THEN [row EXCEPT ![target[a]].status = "rejected"]
                    ELSE row
    /\ Leave(a, "done")
    /\ UNCHANGED <<owner, created, audio, cards, strays, failures>>

-----------------------------------------------------------------------------
(* Failures.  A coroutine that fails while its card write is in a thread   *)
(* (asyncio.timeout, shutdown, a crash) leaves the thread behind.          *)

LeaveStray(a) ==
    strays' = IF pc[a] = "writing"
              THEN strays \cup {[actor |-> a, card |-> NewCard(a)]}
              ELSE strays

CanFail == failures < MaxFailures /\ failures' = failures + 1

DeferNoSavepoint(e) ==                   \* mutant: half-processed row kept
    /\ CanFail
    /\ pc[e] \in {"translating", "enriching", "writing", "finishing"}
    /\ LeaveStray(e)
    /\ Goto(e, "deferred")
    /\ UNCHANGED <<row, owner, created, draft, audio, cards>>
(* The inline job times out or raises: savepoint rolled back, row kept.    *)
Defer(e) ==
    /\ CanFail
    /\ pc[e] \in {"translating", "enriching", "writing", "finishing"}
    /\ LeaveStray(e)
    /\ draft' = [draft EXCEPT ![e] = Raw]
    /\ Goto(e, "deferred")
    /\ UNCHANGED <<row, owner, created, audio, cards>>

(* A crash, a lost connection or an exception ends the transaction: its    *)
(* row changes and its lock are gone, its card is not.                     *)
Abort(a) ==
    /\ CanFail
    /\ pc[a] \notin {"idle", "done"}
    /\ LeaveStray(a)
    /\ Leave(a, AfterLeaving(a))
    /\ Release(a)
    /\ UNCHANGED <<row, created, audio, cards>>

(* The abandoned thread finishes its write_card after all.                 *)
StrayLands(s) ==
    /\ strays' = strays \ {s}
    /\ cards' = Append(cards, s.card)
    /\ UNCHANGED <<row, owner, created, pc, target, loaded, draft, audio, failures>>

-----------------------------------------------------------------------------
Process(j) == Translate(j) \/ Enrich(j) \/ WriteCard(j) \/ DropDuplicate(j)
              \/ CommitEntry(j) \/ UniqueViolation(j)

Add(e) == AddEntry(e) \/ Process(e) \/ CommitRaw(e)
Work(w) == ClaimOnePending(w) \/ Process(w)
Approve(a) == LoadForApproval(a) \/ BackfillFlush(a) \/ PrepareApproval(a)
              \/ ApprovalWithoutAudio(a) \/ WriteCard(a) \/ CommitApproval(a)
Reject(a) == LoadForReject(a) \/ CommitReject(a)

Next ==
    \/ \E e \in Adders : Add(e) \/ Defer(e)
    \/ \E S \in SUBSET Imported : ImportEntries(S)
    \/ \E w \in Workers : Work(w)
    \/ \E a \in Approvers : Approve(a)
    \/ \E a \in Rejecters : Reject(a)
    \/ \E a \in Actors : Abort(a)
    \/ \E s \in strays : StrayLands(s)

Spec == Init /\ [][Next]_vars

(* The event loop keeps running every coroutine that can move; a worker    *)
(* replica polls for ever.  Nothing makes a user send a request.           *)
Fairness ==
    /\ \A e \in Adders : WF_vars(Process(e) \/ CommitRaw(e))
    /\ \A w \in Workers : WF_vars(Work(w))
    /\ \A a \in Approvers : WF_vars(BackfillFlush(a) \/ PrepareApproval(a)
                                    \/ ApprovalWithoutAudio(a) \/ WriteCard(a)
                                    \/ CommitApproval(a))
    /\ \A a \in Rejecters : WF_vars(CommitReject(a))

FairSpec == Spec /\ Fairness

-----------------------------------------------------------------------------
(* Safety.                                                                 *)

(* A row the database calls synced points to a note that exists in Anki    *)
(* and was written for this very entry, whatever crashed, timed out or     *)
(* raced: the status is only committed after write_card returned           *)
(* (worker.write_entry_to_anki, apply_approve).                            *)
SyncedHasCard ==
    \A e \in Entries :
        row[e].status = "synced" => /\ row[e].card \in 1..Len(cards)
                                    /\ cards[row[e].card].entry = e

(* A committed pending row carries nothing of an earlier attempt: the      *)
(* savepoint of process_entry_or_defer, or the worker's rollback, took     *)
(* back every column a half-finished attempt had filled.                   *)
PendingIsRaw == \A e \in Entries : row[e].status = "pending" => row[e] = Raw

(* A claimed row stays pending until its worker's transaction ends, and no *)
(* two workers hold it: approve and reject requests wait for the lock.     *)
ClaimIsExclusive ==
    /\ \A e \in Entries, w \in Workers :
          owner[e] = w => target[w] = e /\ row[e].status = "pending"
    /\ \A v, w \in Workers :
          target[v] # Nobody /\ target[v] = target[w] => v = w

(* A word dropped as a duplicate is never lost: the entry it was dropped   *)
(* for is still there (a row that can be a twin is never deleted).         *)
DroppedHasTwin ==
    \A e \in Entries :
        row[e].status = "dropped" => /\ row[e].twin \in Entries
                                     /\ row[row[e].twin].status \in Decided

(* Only an approve request makes a rejected word come back: no worker that *)
(* claimed the row before the reject overwrites it.                        *)
OnlyApprovalUndoesRejection ==
    [][\A e \in Entries :
          row[e].status = "rejected" /\ row'[e].status # "rejected"
             => \E a \in Approvers : pc[a] = "finishing" /\ target[a] = e]_vars

(* As long as nothing failed and nobody approves, the only cards without a *)
(* row are those the unique constraint refused: another row of the very    *)
(* same meaning got there first.  The savepoint, a retry, a drop, a reject *)
(* or a second worker never costs a row its card.                          *)
OrphansLostARace ==
    failures = 0 /\ (\A a \in Approvers : pc[a] = "idle") =>
        \A i \in 1..Len(cards) :
            \/ row[cards[i].entry].card = i
            \/ \E a \in Actors : target[a] = cards[i].entry /\ draft[a].card = i
            \/ \E f \in Entries \ {cards[i].entry} :
                  /\ Visible(f)
                  /\ row[f].lemma = cards[i].lemma /\ row[f].sense = cards[i].sense

(* The inductive invariant behind the safety theorems: which actor may be  *)
(* where, who holds which row, and what each draft may contain there.      *)
Valid(e, c) == c \in 1..Len(cards) /\ cards[c].entry = e

PlaceInv ==
    /\ \A w \in Workers : pc[w] \in {"idle", "translating", "dropping",
                                     "enriching", "writing", "finishing"}
    /\ \A a \in Approvers : pc[a] \in {"idle", "preparing", "writing",
                                       "finishing", "done"}
    /\ \A a \in Rejecters : pc[a] \in {"idle", "rejecting", "done"}
    /\ \A e \in Adders : /\ pc[e] \notin {"preparing", "rejecting"}
                         /\ pc[e] # "done" => row[e].status = "absent"
                         /\ target[e] \in {e, Nobody}
    /\ \A e \in Imported : /\ pc[e] \in {"idle", "done"}
                           /\ pc[e] = "idle" => row[e].status = "absent"
    /\ \A a \in Actors : target[a] = Nobody <=> pc[a] \in {"idle", "done"}

LockInv ==
    /\ \A w \in Workers : target[w] # Nobody => owner[target[w]] = w
    /\ \A e \in Entries : owner[e] # Nobody =>
          /\ target[owner[e]] = e
          /\ owner[e] \in Workers => row[e].status = "pending"
          /\ owner[e] \in Approvers => Visible(e)

(* A flushed approval never loses its key: no committed row has it, and no *)
(* other transaction holds it.                                             *)
KeyInv ==
    \A e \in Entries, a \in Approvers :
        owner[e] = a => ~Conflict(e, Merged(a)) /\ ~Blocked(e, Merged(a))

DraftInv ==
    /\ \A a \in Actors :
        /\ pc[a] \in {"translating", "deferred"} => draft[a] = Raw
        /\ pc[a] \in {"enriching", "preparing", "writing", "finishing"}
              => draft[a].lemma \in Lemmas
        /\ pc[a] = "dropping" => /\ draft[a].status = "dropped"
                                 /\ draft[a].twin \in Entries
                                 /\ row[draft[a].twin].status \in Decided
        /\ pc[a] = "finishing" => /\ draft[a].status \in {"needs-review", "synced"}
                                  /\ draft[a].status = "synced" => Valid(target[a], draft[a].card)
    /\ \A a \in Approvers :
        /\ pc[a] = "finishing" => draft[a].status = "synced"
        /\ loaded[a].status \in Decided => /\ target[a] \in Entries
                                           /\ row[target[a]].status \in Decided

IInv == /\ TypeOK /\ PlaceInv /\ LockInv /\ KeyInv /\ DraftInv
        /\ SyncedHasCard /\ PendingIsRaw /\ DroppedHasTwin

(* README.md:88 "one card per meaning".                                    *)
OneCardPerMeaning ==
    \A i, k \in 1..Len(cards) :
        cards[i].lemma = cards[k].lemma /\ cards[i].sense = cards[k].sense => i = k

-----------------------------------------------------------------------------
(* Liveness.                                                               *)

(* A pending row does not stay pending: locks are released, retries see    *)
(* the row they collided with.                                             *)
QueueDrains ==
    \A e \in Entries : row[e].status = "pending" ~> row[e].status # "pending"

(* Every approve or reject request that got hold of a row is answered,     *)
(* also when it had to wait for a worker's row lock.                       *)
RequestsAnswered ==
    \A a \in Requests : pc[a] # "idle" ~> pc[a] = "done"

-----------------------------------------------------------------------------
(* What a user sees of an entry.                                           *)
Status == INSTANCE EntryStatus
             WITH status <- [e \in Entries |-> row[e].status],
                  carded <- {e \in Entries : \E i \in 1..Len(cards) : cards[i].entry = e}
StatusSpec == Status!Spec
=============================================================================
