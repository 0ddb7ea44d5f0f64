# vocab-api in TLA+

A verification project for the code in `src/`: vocab-api, a service that takes
English, Spanish, … words from a browser extension, an MCP client, a web page
or a Kindle file, has a language model translate and check them, keeps them in
Postgres and turns them into cards in the user's Anki collection.

The modules model what that code does, TLC checks them on small instances, and
TLAPS proves the safety of every part that is modelled (the entry life cycle,
the worker's backoff, both Anki backends and the notetype, the caches, rotation
and backfill, card fronts, the Kindle import, the browser extension) for any
number of words, workers, requests and calls.
Paths below are relative to `src/`; `vocab_api/` stands for
`src/vocab_api/`. `PROJECT.json` maps every definition to the lines it models.

Contents: 1 inventory · 2 modules · 3 runs · 4 fairness · 5 proofs ·
6 where code and documents differ · 7 what is not modelled · 8 plan.

## 1. Inventory

### The parts and how they interact

    HTTP / MCP request ──> operations.py ──┐                    ┌─> translation_cache
    Kindle upload ───────> kindle.py ──────┤ Postgres rows      ├─> audio storage
                                           ├──> process_entry ──┤
    background worker ───> worker.py ──────┘   (worker.py)      └─> Anki backend ─> sync server
    rotate / backfill ───> vocab_service.py ────────────────────────^   (another client syncs too)
    browser extension ───> identity provider, HTTP API

| Part | State | Operations | Hard behaviour | What makes it correct |
|---|---|---|---|---|
| Entry life cycle: `operations.py`, `worker.py`, `vocab_service.py`, `models.py` | `entry` rows, row locks, each session's identity map, the cards in Anki | `add_entry`, `import_kindle_entries`, `_claim_one_pending`, `process_entry`, `process_entry_or_defer`, `approve_entry`, `reject_entry` | The card is written before the row is committed; a timeout leaves a thread that still writes; requests load rows without a lock; a query flushes half an approval early | A synced row owns a card; a pending row is raw; dropped words have a twin; rejections stick; the queue drains |
| Worker loop: `worker.py` | `consecutive_failures`, the queue | `run_worker`, `_worker_loop`, `_process_one`, `_backoff_seconds` | Outages, an entry that always fails, the float range of the exponential | Never hammers; recovers |
| Anki sync backend: `anki_sync.py` | Shadow collection per user, `asyncio.Lock` per user, the server | `write_card`, `update_card`, `_reattach_before_write`, `_resolve_after_write`, `_wait_for_media_sync` | Cancelled coroutines whose thread goes on, restarts with an empty shadow, another client, schema changes that force full transfers | What was reported as written stays; an upload loses only what its call could not have seen; every call ends |
| Anki notetype: `anki_writer.py` | The Vocab notetype and its templates | `_ensure_notetype`, `_migrate_notetype`, `_sync_templates` | Collections of earlier releases, changing language and direction | No template lost or doubled; new notes' cards in their deck; schema changes die out |
| Local Anki backend: `anki_writer.AnkiWriter` | A collection file per user | `write_card`, `update_card` | One thread per call and no lock; cancelled and killed threads | The promise of `AnkiBackend`: what returned is there for good |
| Translation cache: `llm.translate_with_cache` | `translation_cache` | look up, ask twice, filter, upsert | Concurrent callers, legacy rows, bare answers, rows stored before the filter | Hits agree; a complete answer stays; no alternative the filter recognises as misleading is served |
| Audio cache: `audio.py` | `audio_cache`, S3 or files | `synthesize_with_cache`, `put`, `fetch` | Cancel or crash between the object and its row, a write that breaks off | A row has its object |
| Rotation and backfill: `vocab_service.py` | `cloze_index`, `definition_en` of rows and cards | `rotate_cloze_sentences`, `backfill_exercises` | Push before commit, failing entries in the middle of a list, savepoints, overlapping calls | Card and row in step; failed entries stay candidates; the backfill reaches all |
| Card fronts: `cloze.py`, `exercise.py`, `operations.cloze_pool` | Sentence, gap sentence, examples, `cloze_index` | mask, choose, render, override the lemma | Two periods driven by one counter, lemma and surface form | One solvable gap, hidden answer, everything turns up |
| Kindle import: `kindle.py`, `operations.py` | The file, `entry` rows | `parse_kindle_vocab`, `import_kindle_entries` | Rows come and go between and during uploads; a word may come twice from the file | Every word read is stored once, with its own user |
| Users: `auth.py`, `mcp_server.py` | `user` rows | `current_user`, `_resolve_user` | First requests that collide | One row per name, refused at most once |
| Extension, tokens: `background.js`, `options.js` | Stored tokens | `getAccessToken`, login, logout | Concurrent refreshes, rotating refresh tokens, logout during a refresh, a stopped service worker | The stored token is accepted |
| Extension, tooltip: `content.js`, `background.js` | The tooltip shown, its button, timers | menu clicks, save button, dismissal | Answers out of order or lost, a new page, a stopped service worker | The button says what became of its own word; every click ends |
| Routes, schemas, configuration, i18n, templates, migrations | none of their own | adapters | none | – |

All requests and the worker of one pod share one event loop; replicas share
Postgres only. Database transactions are READ COMMITTED, sessions keep their
objects after a commit (`expire_on_commit=False`) and write back only the
columns they changed. Both facts matter and are built into the modules.

The hazards this code is exposed to, each at its line and with the properties
that would notice, are in `PROJECT.json` (`hazards`).

## 2. Modules

| Module | Models | State and actions |
|---|---|---|
| `EntryLifecycle` | The life of an entry between Postgres and Anki | `row` are committed rows, `owner` the `FOR UPDATE` locks, `loaded`/`draft` what a session loaded and holds in memory, `cards` the notes in the order they were written, `strays` card writes whose coroutine was cancelled. One action per await-separated step of `process_entry`, of `approve_entry` and of `reject_entry`; `BackfillFlush` is the early UPDATE of an approval, which then holds its row (`owner`) and its place in the unique index (`Blocked`) while it waits for the LLM and Anki. `Defer`, `Abort` and `StrayLands` are the failures. An entry also stands for the request that adds it. |
| `EntryStatus` | The promise about one entry: its status, and whether it ever got a card | No transactions, locks, drafts or retries. `EntryLifecycle` implements it with `status <- row[e].status` and `carded <- {entries with a card}`. |
| `AnkiSync` | `AnkiSyncWriter` for one user | A collection is a set of items, a schema stamp and whether its notetype still has to be migrated. A call is a coroutine (`Acquire`, `Cancel`) and a thread (`OpenCollection` … `WaitForMedia`) that outlives it. `SyncCollection` and the phone are Anki's, modelled from how the code uses them. `unseen` remembers what the phone synced since a call last pulled or reattached. |
| `CardStore` | The promise of the `AnkiBackend` protocol, for both backends | `call` is what each caller got, `held` what is in the collection; `Serve` lets any calls begin, arrive, be answered. `AnkiSync` implements it with `held <- server.items \cap Calls`, `LocalAnki` with `held <- notes`. |
| `Notetype` | `_ensure_notetype` and the cards Anki makes | The template list, name by name, with its pinned deck, and the kinds of notes there are (`kinds`); `AddVocabNote` and `UpdateVocabNote` each run the whole migration. A template that is added makes cards of the notes there are (`Late`); `strewn` counts the writes that put one in another language's deck. The initial states are what every release in the code's history may have left. No specification of its own: `LocalAnki` runs it. |
| `LocalAnki` | `AnkiWriter`: threads that open, change and close one file without a lock | EXTENDS `Notetype`. `OpenFails` is the second thread, `Cancel` leaves a thread running, `Restart` ends them all; `OtherCall` stands for any number of calls that meet nobody. |
| `TranslationCache`, `AudioCache` | The two shared caches, one key each | `found`/`got` are what a call read and holds; an answer may have a misleading alternative attached (`low`). `Translate` and `AddExercise` are the two requests. The storage kind is a variable chosen in `Init`, so that one run covers S3 and files. `WriteFails` leaves half a file behind (`torn`). |
| `WordCaches` | Composition: one job goes through both caches in the order of `process_entry`; listeners (`GET /audio/…`) use the second only | EXTENDS `TranslationCache`, instantiates `AudioCache`; `Restart` hits both at once. |
| `WorkerLoop` | One worker loop: poll, process, sleep, back off | Processing succeeds or raises; the jittered pause is any value of the interval `_backoff_seconds` draws from. `Overflows` stands for Python's `OverflowError` when `2 ** (attempt - 1)` no longer fits a float. `Shutdown` and `Startup` are the application's: the task is cancelled wherever it is, a new one counts from zero. |
| `CardUpkeep` | `rotate_cloze_sentences` and `backfill_exercises` | Rows and cards are reduced to `cloze_index` and "has an exercise". `Push`, `Commit`, and the failures `RotationFails`, `BackfillSkips`, `Crash`. Several calls at a time, each with the entries as it loaded them; `alone` and `overlapped` remember whether calls met. |
| `CardFront` | What a card's front shows | Sentences are short sequences of words. `Masked`, `ClozePool`, `ExercisePool`, `Position` are the pure functions; `MaskSource`, `InventExample`, `StoreTranslation`, `OverrideLemma`, `RotateCloze` the operations on them. |
| `Users` | Get-or-create of the user row | `SelectUser` and `InsertUser` are its two awaits, `Retry` the client's second try. |
| `KindleImport` | Uploads of several users next to everything else that adds and drops rows | EXTENDS `Users`: each request resolves its user first. `SelectNew` and `InsertNew` are the two halves of one upload; `added` and `peak` count what other requests added and how many uploads met. |
| `ExtensionAuth` | Token refresh, login, logout | One `getAccessToken` per click, split at its awaits; the provider gives no refresh token, keeps it, or accepts each once. `endpoint` is the address a login stores and a logout removes; without it nothing is refreshed. |
| `Extension` | Context menus, tooltip, messages, the calls of the API | EXTENDS `ExtensionAuth`. `req` is where each click's request is; `Answer` and `SendTranslation`/`SendError` are the two ways back into the page, `Navigate` and `StopWorker` take either end away. |
| `MC*` | Model values and symmetry sets for TLC | – |
| `EntryLifecycleProofs` (with `EntryStatus`), `WorkerLoopProofs`, `AnkiSyncProofs`, `LocalAnkiProofs` (with `Notetype`), `WordCachesProofs` (both caches), `CardProofs` (`CardUpkeep` and `CardFront`), `KindleImportProofs` (with `Users`), `ExtensionProofs` (with `ExtensionAuth`) | The theorems and the inductive invariants they need | see 5 |

Definitions commented `mutant:` are deliberately wrong variants of the
definition below them, a plausible bug each. No specification uses them: they
are there to show, by substituting one at a time, that each checked property
can fail (`PROJECT.json`, `mutants`).

How the parts fit: `WriteCard` in `EntryLifecycle` and `Push` in `CardUpkeep`
are whole calls of an Anki backend. `CardStore` says what such a call may do
when it returns, is cancelled or fails: exactly the outcomes the callers allow
for (the card is there, it is not, or it lands later). `AnkiSync` and
`LocalAnki` are checked to implement it. `Translate` and `Enrich` use the caches
of `WordCaches`; the index `CardUpkeep` advances is the one `CardFront` reads;
`SchemaSettles` in `Notetype` bounds the schema changes that lead to the full
uploads of `AnkiSync`.

## 3. Runs

All bounds are constants named in the configurations. The proofs of section 5
hold for every value of them and cover all safety properties below, the
refinements included; only the two violations and the liveness properties have
no theorem. Those that end in
`Failures`, `Faults`, `Crashes`, `Timeouts`, `Outages`, `Errors` and so on only
cap how often something bad happens; it may happen at any point.

| Run | Shows | Bounds, and why they are enough |
|---|---|---|
| `EntrySafety` | `IInv` and the safety properties; that `EntryLifecycle` implements `EntryStatus` | Two entries, one added inline and one imported, two workers, an approval (flushed early or not), a reject, one lemma with two senses, one failure. Every property relates at most two entries and two actors; two replicas can race for one row, and one lemma with two senses is what separates a duplicate from a homonym. The proofs lift the bounds. |
| `EntryLiveness` | `QueueDrains`, `RequestsAnswered` | One worker, an approval, two lemmas (so that an override may name an MP3 nobody stored), one failure. No reject: it waits for the same lock as an approval. |
| `FindOneCard` | *Violation*: two simultaneous adds of one meaning leave two cards | Two inline adds, no failure at all. |
| `SyncCalls` | `AnkiSync`'s safety properties, that it implements `CardStore`, and that calls end | Two writes and an update of one user, an item on the phone, one cancelled call, one fault, one foreign schema change: enough for one thread to be left behind in the collection while another call meets a restart or a changed schema. The proofs lift the bounds for all but `CallsEnd`. |
| `CachedJobs` | Agreement, durability and honesty of both caches | Three jobs (one stores, one overwrites, one reads) and a listener, two complete answers, both with a misleading alternative, a bare one, a legacy row, a crash, and at any point a local write that fails. |
| `WorkerRecovers` | Backoff stays in its bounds; the queue recovers | Three entries, the second of which always fails; two outages; two restarts of the application; a float range of `2^4` instead of `2^1024`, so that the overflow is reached after the cap as in the code. |
| `UpkeepCalls` | Card and row in step, repaired after an overlap, backfill complete | Four entries: rotatable ones before and after one whose card is gone, and one the model cannot define; limit 3, two rotation callers and a backfill caller of which two run at a time, three rotations, one fault. |
| `FindStuckRotation` | *Violation*: a card deleted in Anki stops all rotations behind it | Three entries, no fault. |
| `NotetypeWrites` | Schema changes, decks, templates kept; that `LocalAnki` implements `CardStore` | A write and an update in threads of their own, any number of other calls between them, two languages (interchangeable, by symmetry) and all three directions, from every kind of old collection with every kind of notes, restarts and cancellations at any point. The other calls already put every sequence of migrations before, between and after the two threads; more threads only queue for the same file. |
| `ExtensionClicks` | The token left in storage is accepted; the button is honest; every click ends | Two menu clicks (lookup or save) and two presses: one tooltip can be replaced or dismissed while its save is under way, one save repeated. A login, any number of logouts, and two of: token grown old, answer lost or refused, new page, service worker stopped. All three kinds of provider. |
| `CardFronts` | Gap sentences and exercises | Every sentence and example of one or two words over two forms and a filler, every set of exercises, one to three distractors, ids 1 and 2, two rotations from any state; the properties quantify over all later indices they need. |
| `KindleUploads` | One row per user; every word once | Three requests of two users, each an upload or a single word, a word that is in the file up to twice, one row dropped by the worker. |

What the safety properties say, and of which code:

- `SyncedHasCard`, `PendingIsRaw`, `DroppedHasTwin`, `ClaimIsExclusive`: the
  database never promises more than Anki has; retries start from a raw row; a
  dropped word's twin survives; no row is processed twice at a time.
- `OnlyApprovalUndoesRejection`: a worker that claimed a row cannot overwrite
  a reject of it, because the reject waits for the row lock.
- `OrphansLostARace`: without failures and approvals, the only cards without a
  row are those of adds that lost the race for their meaning.
- `SuccessLasts`: no reattach, upload or restart takes back a card that was
  reported. `ErasesOnlyUnseen`: a full upload may cost another client what it
  synced after the call had pulled or reattached, and nothing else: no earlier
  card or edit, reported or not, whichever upload, download, restart or lost
  reply lies between. `SerializedUnlessCancelled`: as long as
  nobody was cancelled, no thread meets another's open collection. `StoreSpec`
  and `LocalStoreSpec`: both backends keep the promise of `CardStore`.
- `HitsAgree`, `CompleteIsCached`, `NoFalseFriends`, `RowHasObject`: cached
  answers do not change under their readers, are not overwritten by worse ones,
  are the same for the caller that paid for them and the ones they are served
  to, and a cached MP3 can be fetched; a local file is incomplete only while it
  is being rewritten or since the last rewrite broke off. `NoFalseFriends`
  speaks of the alternatives the filter recognises; others are left to the
  prompt (`llm.py:492`).
- `CardInStep`, `FilledIsShown`, `DeckAdvancesTogether`: whatever fails between
  push and commit, the next call repeats it; failed entries are tried again.
  They hold until two calls overlap. After that an update may be lost and a card
  show older fields, and `RotationRepairs` says for how long: until the next
  rotation that runs alone.
- `TemplatesKept`, `SchemaSettles`, `CardsInOwnDeck`: migrating at every write
  is safe. The cards of a new note go to the decks of its language; a template
  that is added makes the old notes' cards in the decks of the language of that
  write, which happens at most once in the life of a collection.
- `GapsAreSolvable`, `AnswerIsHidden`, `EverythingTurnsUp`, `NoFixedSlot`: one
  gap, hidden answer, no starving exercise, no slot to memorize.
- `StoredIsAccepted`: concurrent refreshes, logins, logouts and lost answers
  never leave a refresh token behind that another one has replaced, except the
  very token a click had sent to a rotating provider when its service worker was
  stopped.
  `ButtonIsHonest`: a button says "saved" only if its own word was, and saves
  again only after it reported a failure. `ClicksSettle`: every menu click ends
  in a tooltip or notification and no button stays busy, with the exceptions
  that are the code's (a stopped service worker, a page without content script).
- `OneUserRow`: colliding first requests share one row, and a request refused
  for it finds that row. `EachWordOnce`: what an upload has read is stored with
  its own user; uploads alone double a word only if they ran at the same time.

`EntrySafety`, `CachedJobs`, `NotetypeWrites` and `KindleUploads` use symmetry of
interchangeable workers, jobs, languages and requests; they check invariants and step properties only, for which it is sound.
`CHECK_DEADLOCK FALSE` stands where the system may really stop: when every
request was answered and nothing is pending. `CardFronts` checks for deadlock.

## 4. Fairness

- `EntryLifecycle!FairSpec`: weak fairness of every coroutine that can move
  (the event loop runs all of them) and of polling (the worker's `while`
  loop). Whoever waits for a row lock or for a key in the unique index is
  enabled again as soon as the holder's transaction ends (`HoldersGoOn`: the
  holder waits for nobody, or for one that does not), and is never overtaken for
  ever because each request answers once. Nothing makes a user add, approve or reject.
- `AnkiSync!FairSpec`: weak fairness of threads (the media wait has a deadline
  and network requests time out) and of lock hand-over (`asyncio.Lock` wakes
  its waiters). Nothing is assumed about faults, cancellations or the phone.
- `WorkerLoop!FairSpec`: the loop goes on, outages end and a stopped application
  is started again. `QueueRecovers`
  excepts entries behind one that always fails, and a worker whose exponential
  has overflowed (see 6).
- `CardUpkeep!FairSpec`: a started call runs on. `BackfillReachesAll` says what
  repeated calls achieve, so it assumes a user who keeps calling (strong
  fairness of `StartBackfill`) and a limit above the number of entries that can
  never be filled.
- `Extension!FairSpec`: weak fairness of what the service worker does for each
  click (fetches end, messages are delivered) and of the page's timers. Nothing
  makes the user click, dismiss or log in, and nothing keeps the browser from
  stopping the service worker.

## 5. Proofs

Each module of theorems proves its component's properties for every value of
the constants that satisfies the named assumptions, always along the same
lines: an inductive invariant, checked by TLC on the instance of the
component's run before it was proved, one lemma per action that shows that the
action keeps it, and the properties as consequences.

### Entry life cycle

`EntryLifecycleProofs` proves, for arbitrary finite `Entries`, arbitrary sets
of workers, requests, lemmas and senses and any `MaxFailures`, from
`ActorsAssumption` (the kinds of actor are disjoint) and `DataAssumption` (the
default sense is one, `NULL` is no lemma, `Entries` is finite):

| Theorem | Establishes |
|---|---|
| `Invariance` | `Spec => []IInv` |
| `TypeCorrect` | `Spec => []TypeOK` |
| `SyncedRowsHaveTheirCard` | `Spec => []SyncedHasCard` |
| `PendingRowsAreRaw` | `Spec => []PendingIsRaw` |
| `TwinsSurvive` | `Spec => []DroppedHasTwin` |
| `ClaimsAreExclusive` | `Spec => []ClaimIsExclusive` |
| `HoldersGoOn` | `Spec => []WaitsEnd`, the safety half of `RequestsAnswered` and `QueueDrains` |
| `RejectionsStick` | `Spec => OnlyApprovalUndoesRejection` |
| `OrphansOnlyLoseRaces` | `Spec => []OrphansLostARace` |
| `ImplementsEntryStatus` | `Spec => StatusSpec`, the refinement |

None of the safety properties is inductive. That a commit leaves a synced row
with a card of its own depends on what the session's draft holds at that
moment; that the draft is right depends on where the actor is and on what it
wrote before; that nobody changed the row in between depends on the lock.
Hence

    IInv == TypeOK /\ PlaceInv /\ LockInv /\ KeyInv /\ DraftInv
                   /\ SyncedHasCard /\ PendingIsRaw /\ DroppedHasTwin

`PlaceInv` says which actor can be where and that a row added inline is not in
the database while its request runs; `LockInv` that a worker's row is locked by
it and pending, and that whoever holds a row is working on it; `KeyInv` that
nobody has taken, or is about to take, the key of an approval that has flushed
(without it the commit of a flushed approval could be refused, or wait for one
that waits for it); `DraftInv` what a draft may contain at each place, in
particular that a draft that says `synced` names a card of its own entry, and
that a twin found by the duplicate guard stays decided until the drop commits.
The proof has a lemma per action (`AddEntryStep` … `StrayLandsStep`), put
together by `NextStep`; TLC checks `IInv` in `EntrySafety`. `RejectionsStick`
adds a case analysis over the actions that write rows (`ReviveStep`). The
refinement maps each step to a step of `EntryStatus` or to a stutter: only
`WriteCard` and `StrayLands` change `carded`, only commits and imports
`status`.

`OrphansOnlyLoseRaces` has an invariant of its own, `OrphanInv`, for runs that
no failure and no approval has disturbed: every card is owned by its row,
carried by the session that wrote it, or repeated by a row of the same meaning.
To be inductive it also needs that no thread was left behind, that rows not yet
inserted have no card, that a session with a card is about to commit exactly
what that card shows (`JobCardInv`; the unique constraint that refuses the row
then names the other row of the same meaning), and that what a reject loaded is
still its row's card (`RejectCardInv`).

### Anki sync backend

`AnkiSyncProofs` proves, for any numbers of calls, other clients' items,
cancellations, faults and schema changes, from `AnkiSyncAssumption` (writes,
updates and foreign items are different things):

| Theorem | Establishes |
|---|---|
| `SyncInvariance` | `Spec => []IInv` |
| `ReportedCardsStay` | `Spec => []SuccessLasts` |
| `OneThreadAtATime` | `Spec => []OneThreadInCollection`, also after cancellations |
| `LockSerializes` | `Spec => []SerializedUnlessCancelled` |
| `LocksHaveARunningHolder` | `Spec => []HolderRuns`, the safety half of `CallsEnd` |
| `UploadsLoseOnlyUnseen` | `Spec => ErasesOnlyUnseen` |
| `SyncIsAStore` | `Spec => StoreSpec`, the refinement of `CardStore` |

    IInv == TypeOK /\ OpenInv /\ LockInv /\ KeptInv /\ SuccessLasts

`SuccessLasts` alone is not inductive: a full upload replaces the server by the
shadow, so the shadow must hold everything reported so far. It does because
the uploading thread pulled or reattached after it had opened the collection,
and no other thread can have reported anything since (`OpenInv`: a thread past
its opening is the one that has the file open); `KeptInv` says so for every
place such a thread can be in. What the phone synced in the meantime is not in
the shadow, which is difference 7 of section 6; that it is all that is missing
there is `SeenInv`, from which `UploadsLoseOnlyUnseen` follows: what the server
has, a thread that may upload has in its shadow or the phone synced since. It
rests on `OpenInv` too, since another thread that pushed in between would have
added more. `LockInv` holds the lock and
the thread together as long as nobody was cancelled. Two lemmas carry most
cases: `OwnStep` for steps of the thread that has the file open, `StillStep`
for steps that report nothing and bring no thread closer to its push.

`CallsEnd` needs fairness, but fairness helps a waiter only if whoever it waits
for can move. `HolderRuns` says that: the lock's holder has a thread that is
somewhere between its opening and its end and a coroutine that still waits for
it, after cancellations and restarts too, and an open collection belongs to
such a thread. `WaitsEnd` is the corresponding fact of the rows' locks.

The refinement needs one fact more, `BegunInv`: a call that has not begun has
no answer and no item on the server or in the shadow. Then every step is a
`Serve` of `CardStore`: items only move between the two collections
(`ItemsMove`), and a call is answered at most once (`AnswersSettle`).

### Local Anki backend and notetype

`LocalAnkiProofs`, for any languages, number of releases, writes and updates,
from `LocalAnkiAssumption` (writes are not updates) and `NotetypeAssumption`:

| Theorem | Establishes |
|---|---|
| `LocalInvariance` | `Spec => []LocalInv` |
| `SchemaChangesTwice` | `Spec => []SchemaSettles` |
| `CardsArrive` | `Spec => []CardsInOwnDeck` |
| `TemplatesSurvive` | `Spec => TemplatesKept` |
| `LocalAnkiIsAStore` | `Spec => LocalStoreSpec`, the refinement of `CardStore` |

That migrations end is a matter of counting: `NoteInv` ties the number of
schema changes to what the notetype must have by then (all fields and two of
the three templates after the first, everything after the second). Names must
be distinct after the renaming of "Card 1", which is why `NoteInv` speaks of
the renamed list, not of the list. `CardsInOwnDeck` needs to know which
templates are there once there are notes, and once cards have strayed: only the
second of the two directions can make an old note's card late, since a filled
exercise has its template already. `LocalInv` adds that a call whose thread is
about to return has its note in the collection. It needs nothing of who has the
file open: a thread that opens it later finds what the earlier ones left.

### Caches

`WordCachesProofs`, for any calls, listeners and answers and any number of
crashes, from `CacheAssumption` (complete, bare and legacy answers are
different things, and misleading ones come from the model) and `CrashAssumption`:

| Theorem | Establishes |
|---|---|
| `CachesInvariance` | `CachesSpec => [](CacheInv /\ AudioInv)` |
| `CachedSenseIsStable` | `CachesSpec => []HitsAgree` |
| `CompleteStaysCached` | `CachesSpec => []CompleteIsCached` |
| `NobodyIsMisled` | `CachesSpec => []NoFalseFriends` |
| `CachedAudioExists` | `CachesSpec => []RowHasObject` |

`HitsAgree` is not inductive without "and what it found is complete": only a
complete row is never overwritten. `NoFalseFriends` needs that an answer is
filtered as soon as it may be stored or returned, on both paths. `AudioInv`
says where half an object can come from: a writer under way, or one that broke
off by an error or with its process; and that a row is only inserted after a
whole object was written. The two
caches share no state, so the steps of one are stutters for the other.

### Rotation and backfill

`CardProofs`, for any finite set of entries (whichever of them are rich,
dead or mute), any calls, limit and number of failures, from
`UpkeepAssumption`:

| Theorem | Establishes |
|---|---|
| `UpkeepInvariance` | `Spec => []UpkeepInv` |
| `CardsInStep` | `Spec => []CardInStep` |
| `FilledRowsShown` | `Spec => []FilledIsShown` |
| `DeckInUnison` | `Spec => []DeckAdvancesTogether` |
| `LoneRotationRepairs` | `Spec => RotationRepairs` |

    UpkeepInv == TypeOK /\ CallsInv /\ AloneInv /\ SessionInv /\ CardsInv /\ DeckInv

The properties speak of rows and cards between calls; what makes them true is
what a session holds in between. `SessionInv` says that of a session nobody
has disturbed: entries still to visit are as loaded, the one just pushed is as
its card, and those a rotation has done are in step. It speaks of `alone`
calls, not of runs without overlap, because `RotationRepairs` is about what
happens after one. `DeckInv` compares entries by where the rotation under way
is going to take them (`Goal`). Entries are visited in the order of their ids:
that the smallest exists (`MinOfNats`) comes from the library's `WFMin`.

### Card fronts

`CardProofs`, for any words, sentences of any length, any number of examples,
ids, distractors and rotations, from `FrontAssumption`:

| Theorem | Establishes |
|---|---|
| `FrontInvariance` | `FrontSpec => []FrontInv` |
| `FrontsAreSolvable` | `FrontSpec => []GapsAreSolvable` |
| `FrontsHideTheAnswer` | `FrontSpec => []AnswerIsHidden` |
| `NothingStarves` | `FrontSpec => []EverythingTurnsUp` |
| `AnswersWander` | `FrontSpec => []NoFixedSlot` |

`FrontInv` adds to the types that the stored gap sentence has one gap and fits
the stored sentence (`GapInv`), which an overridden lemma does not change. The
rest is about pure functions of a state.

- *Gaps.* `MaskedOnce`: a sentence that has the word gets exactly one gap, and
  the word gives the sentence back. `PoolShape`: every later member of the pool
  is `Masked(s)` of a stored example that has one of the two forms.
- *Recursion.* `ClozePool` is the last value of a recursive function,
  `poolUpTo`. Its definition means what it says only if such a function exists
  (`PoolExists`). The library's induction theorems take an operator as a
  parameter, which no installed prover can instantiate, so both that and
  `PoolShape` use induction over a *set* of numbers: `NatsInSet`, from `WFMin`.
- *Counters.* `EveryRemainder`: among `m` consecutive numbers each remainder
  modulo `m` occurs. That gives `EverythingTurnsUp` for each of the two pools.
  For `NoFixedSlot` two periods have to meet, the one that picks the exercise
  and the slower one that picks the slot: `BothTurn`. With no more exercises than
  slots they meet while the slot stands still; four exercises and three slots,
  or three and two, have no common factor; four and two is difference 14 of
  section 6.

### Worker loop

`WorkerLoopProofs`, for any entries, interval, throttle, cap, float range and
number of outages and restarts, from `LoopAssumption` (the poll interval is
positive and not above the cap):

| Theorem | Establishes |
|---|---|
| `LoopInvariance` | `Spec => []LoopInv` |
| `BackoffNeverHammers` | `Spec => NoHammering` |
| `OnlyOverflowKills` | `Spec => []DiesByOverflow`, the safety half of `QueueRecovers` |

`NoHammering` compares two sleeps, so the invariant has to remember what the
first was allowed to be: `PauseInv`, the pause is at most the unjittered backoff
of the failures counted so far. That backoff grows with the count
(`RawBackoffGrows`), and jitter keeps at least half of it (`EqualJitter`). The
powers of two are a recursive function too, and are treated like `poolUpTo`.
`PauseInv` also ties the state of the task to the count: it runs exactly as
long as the power fits a float.

### Users and Kindle import

`KindleImportProofs`, for any names and words and a finite set of requests
(`KindleAssumption`; without it "how many uploads met" is not a number):

| Theorem | Establishes |
|---|---|
| `KindleInvariance` | `Spec => []KindleInv` |
| `OneRowPerUser` | `Spec => []OneUserRow` |
| `ImportedOnce` | `Spec => []EachWordOnce` |

`UserInv` holds a request to the id of its own name from the step that resolved
it. `ReadInv` says that an upload leaves out only words it saw a row of, as
long as no row was dropped. `CountInv` bounds, for each user and word, the rows
there are *and those under way* by the uploads that met and the rows added
otherwise; without those under way an upload that inserts would break it.

### Browser extension

`ExtensionProofs`, for any number of clicks, logins and faults, from
`AuthAssumption` and `ExtensionAssumption` (menu clicks are not button presses):

| Theorem | Establishes |
|---|---|
| `ExtensionInvariance` | `Spec => [](AuthInv /\ ButtonInv)` |
| `ExtensionTypes` | `Spec => []TypeOK` |
| `StoredTokenWorks` | `Spec => []StoredIsAccepted` |
| `ButtonTellsTheTruth` | `Spec => []ButtonIsHonest` |

With a provider that rotates tokens, the token a click has received stays good
only because nobody else has it and so nobody can use it up: that is `Fresh`,
which `AuthInv` demands of every answer not stored yet. A stored token that is
no longer accepted then always has a click that had sent this very token and
will replace or remove it, or was stopped before it could (`Retired`). `CountInv` counts presses, not saves, against
the errors reported, since a press may reach the API and still look failed.

### What is only model-checked

- Liveness (`QueueDrains`, `RequestsAnswered`, `CallsEnd`, `QueueRecovers`,
  `BackfillReachesAll`, `ClicksSettle`): fairness and ENABLED are out of the
  prover's reach.
- `FindOneCard` and `FindStuckRotation`, which are violations.

Of four liveness properties the safety half is proved: that whoever is waited
for is running (`WaitsEnd`, `HolderRuns`), that nothing but the overflow
ends the worker (`DiesByOverflow`), that a failed entry stays a candidate of the
backfill (`FilledIsShown`).

## 6. Where code and documents differ

The first two have a run that shows them. The others were met while modelling;
the models follow the code, and the properties are stated as far as they hold.

1. `README.md:88`, "one card per meaning": the guard sees committed rows only
   and the card precedes the commit, so simultaneous adds leave two cards
   (`FindOneCard`).
2. `vocab_api/vocab_service.py:117`, "Advance cloze_index for every synced
   entry with something to rotate": the first card that is gone from Anki ends
   the call (`FindStuckRotation`). The backfill skips such an entry.
3. `vocab_api/mcp_server.py:226`, "Reject a queued entry. The word will not get
   an Anki card.": any entry can be rejected, also one that has its card, or is
   just getting it; the card stays.
4. `vocab_api/mcp_server.py:187`, "The entry must be in 'needs-review' status":
   nothing checks it. A second approval writes a second card; the row points
   to the later one.
5. `vocab_api/mcp_server.py:185`, "You can override the auto-generated lemma":
   if the new lemma's MP3 was never stored, the approval fails
   (`ApprovalWithoutAudio`).
6. `vocab_api/anki_sync.py:60`, "Concurrent writes for the same user are
   serialized": not once a coroutine was cancelled; its thread still has the
   file open and the next call fails to open it.
7. `vocab_api/anki_sync.py:236`, "the pull right before the write means the
   shadow already holds the server's state, so we upload": another client may
   sync between the pull and the upload, and loses what it synced.
8. `vocab_api/anki_sync.py:203`, "The shadow has no local writes yet, so
   downloading is always safe": a note left there by a failed push is
   discarded. The caller was told of the failure, so `SuccessLasts` holds.
9. `docs/ARCHITECTURE.md:224`, identical keys make "no duplicate call": bare
   answers are stored but never fresh, so each caller asks again.
10. `vocab_api/worker.py:42` computes `base * 2 ** (attempt - 1)` before it caps
    it: after 1024 consecutive failures (some three days at the cap) the
    product no longer fits a float, the exception leaves the handler and the
    task ends.
11. `docs/ARCHITECTURE.md:173`, the "background worker picks it up": an entry
    that always fails is always the oldest, and nothing behind it is processed.
12. `README.md:98`, decks "per (source language, direction)": a template kept
    from another direction keeps the deck of the language it was last wanted in,
    and a template that is added makes the cards of all old notes in the deck of
    the language of that one write (`anki_writer.py:402`, `:469`;
    `tests/test_anki_writer.py:793` relies on the cards, not on their deck).
13. `extension/background.js:51` clears the tokens when a refresh is refused,
    including those a concurrent refresh has just stored: the user has to log
    in again although a valid token existed. (`StoredIsAccepted` still holds.)
    And a refresh that ends after a logout stores tokens whose endpoint the
    logout has removed: they work until they expire and cannot be refreshed.
14. `vocab_api/exercise.py:57`, "no fixed slot to memorize": with one
    distractor and all four exercises the slot turns exactly twice between two
    choices and never moves.
15. `vocab_api/operations.py:63`, "a smaller pool is better than exposing the
    answer": only the first occurrence is masked, so an example with the word
    twice exposes it.
16. `README.md:128`, "Already-imported words are skipped, so re-uploads … are
    safe": a word the worker dropped as a duplicate has no row any more and is
    imported, translated and dropped again at each upload. Two uploads at the
    same time both import a word (`EachWordOnce` says that nothing else does).
17. `README.md:107`, "the extension itself has no login": its options page has
    one, and every request sends the token it stores (`ExtensionAuth`).

## 7. What is not modelled, and what the models leave out

- **Language model, speech service, identity provider, browser, Anki,
  Postgres**: their answers are choices; their guarantees are those the code
  relies on (row locks, savepoints, READ COMMITTED, unique usernames, Anki's
  sync verdicts, one thread per collection file). A merge conflict inside Anki
  is left out. An invented example is taken to follow its prompt.
- **Routes**: those that resolve users, import files, serve MP3s and start the
  worker are in `Users`, `KindleImport`, `WordCaches`, `WorkerLoop`; the others
  only translate requests into operations that are actions elsewhere. The UI's
  "create" without an API key commits the raw row, which `EntryLifecycle` has
  as a deferral. Changing `card_direction` is a choice each write in `Notetype`
  makes anew.
- **LLM client**: prompts are text. Lookups, invented examples, plausibility
  and sense matching are single calls whose answers are choices where they are
  used; that a sense match is one of the known senses is built into
  `FindDuplicate`.
- **Schemas, configuration, i18n, static files, Alembic, scripts**: no state of
  their own, or run by hand.
- **`EntryLifecycle`**: columns no decision reads, and the audio of an
  idiomatic alternative. Whether a row other than a raw one lacks the markers
  that make an approval backfill it, and so flush early, is a choice. After its
  commit `add_entry` refreshes the row it returns, which a worker may have
  deleted by then: an error of one request that changes no state.
- **`CardUpkeep`**: approve and reject of an entry that is being maintained,
  and which of the other fields a backfill copies into an old row
  (`operations.py:208`). What two overlapping calls promise about single
  updates: nothing, in the source; `RotationRepairs` is what can be said.
- **`AnkiSync`**: the other client adds notes and changes the schema, it never
  deletes: a card the user deletes is gone because the user wanted it, and
  `SuccessLasts` is about what the backend takes back. What a deletion does to
  later calls is in `CardUpkeep` (dead cards) and `LocalAnki` (`ChangeRaises`).
- **`AudioCache`**: `RowHasObject` claims whole reads at all times for S3 only;
  a local file, which is for development, may be read while it is rewritten.
  If that rewrite breaks off (a full disk, a killed process) after another
  caller has committed the row, half an MP3 stays under it and no later call
  rewrites it, since the row is a hit (`RowHasObject`: it is the only way
  to half a file).
- **`Extension`**: more than one tab; finding the sentence around a selection
  and the form of the options page. A refresh that ends after a logout logs the
  user in again, which is in the model but contradicts nothing written.
  `StoredIsAccepted` excepts the token a click had sent when its service worker
  was stopped, if the provider rotates tokens: there the code can only lose.
  Its run has one login (a second makes it several times as large); a login
  during a refresh is in the theorem, for any number of logins.
- **`CardFront`**: letter case, word boundaries and HTML. Which lemma makes a
  synonym or antonym a telling one is a choice of `OverrideLemma`.

Several larger instances (two lemmas and two senses at once, liveness with two
workers) were left out because they take longer than a run should; they add
interleavings of the same kinds.

## 8. Plan

Done: `EntryLifecycle` with `EntryStatus` and their proofs first, as the heart
of the system; then `AnkiSync` with its proofs, the caches and their
composition, `WorkerLoop`, `CardUpkeep`, `Notetype`, `ExtensionAuth`,
`CardFront`, `KindleImport`. Then `CardStore` with `LocalAnki` as its second
implementation, `Users` under `KindleImport`, `Extension` over `ExtensionAuth`,
restarts in `WorkerLoop`, overlapping calls in `CardUpkeep`, the two requests
and the filter in `TranslationCache`, listeners in `WordCaches`.

Then the proofs, beginning with the inductive invariants: the caches, users
and import, rotation and backfill, the local backend with its notetype, the
extension, both refinements of `CardStore`, and last `OrphansLostARace`.

Last, what needed induction over data: card fronts and the worker's backoff,
with the sets-of-numbers induction described in section 5, and the safety
halves of the liveness properties.

Left:

1. Liveness beyond TLC's instances needs a prover with fairness and ENABLED.
2. Composition at the level of the promises: that what `EntryLifecycle` assumes
   of `WriteCard` is `CardStore`'s `Serve`. An entry's later calls would need
   identities of their own (a history variable), since a call of `CardStore` is
   answered once; what it would show is argued in section 2.
