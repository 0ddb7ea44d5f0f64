----------------------------- MODULE CardUpkeep -----------------------------
(***************************************************************************)
(* The two maintenance calls on synced entries (vocab_service.py): the     *)
(* nightly rotation, which advances cloze_index, and the backfill, which   *)
(* gives old entries their exercise.  Both read the user's entries once,   *)
(* in order of id, then for each one push the changed fields to the Anki   *)
(* card and only then commit the row.                                      *)
(*                                                                         *)
(* A row or a card is reduced to the cloze_index it was rendered from and  *)
(* to whether it has an exercise (definition_en).                          *)
(***************************************************************************)
EXTENDS Integers, FiniteSets, FiniteSetsExt

CONSTANTS
    Entries,        \* ids of the user's synced entries
    Rich,           \* entries with more than one cloze sentence
    Dead,           \* entries whose card is gone from Anki: update_card raises
    Mute,           \* entries for which the model gives no definition
    Rotations,      \* rotate-cloze callers
    Backfills,      \* backfill-exercises callers
    Limit,          \* `limit' of a backfill call
    MaxActive,      \* bound: calls at the same time
    MaxRotations,   \* bound: rotate calls
    MaxFaults       \* bound: failed pushes and crashes

ASSUME UpkeepAssumption ==
    /\ Entries \subseteq Nat /\ IsFiniteSet(Entries)
    /\ Rich \subseteq Entries /\ Dead \subseteq Entries /\ Mute \subseteq Entries
    /\ Rotations \cap Backfills = {}
    /\ Limit \in Nat \ {0}
    /\ {MaxActive, MaxRotations, MaxFaults} \subseteq Nat

Calls == Rotations \cup Backfills

VARIABLES
    row,        \* committed rows
    card,       \* what each entry's Anki card shows
    pc,         \* where each call is
    todo,       \* entries each call still has to visit
    draft,      \* each call's session: its entries as loaded and changed
    dirty,      \* entries each session changed and has not committed
    alone,      \* running calls that no other call has run next to (history)
    overlapped, \* two calls have run at the same time (history)
    rotations,  \* rotate calls so far
    faults

vars == <<row, card, pc, todo, draft, dirty, alone, overlapped, rotations, faults>>

Face == [index : Nat, filled : BOOLEAN]

TypeOK ==
    /\ row \in [Entries -> Face] /\ card \in [Entries -> Face]
    /\ pc \in [Calls -> {"idle", "pushing", "committing"}]
    /\ todo \in [Calls -> SUBSET Entries]
    /\ draft \in [Calls -> [Entries -> Face]]
    /\ dirty \in [Calls -> SUBSET Entries]
    /\ alone \subseteq Calls /\ overlapped \in BOOLEAN
    /\ rotations \in Nat /\ faults \in Nat
    /\ \A q \in Calls : dirty[q] # {} => pc[q] = "committing"

Closed == [e \in Entries |-> [index |-> 0, filled |-> FALSE]]    \* no session

Init ==
    /\ \E filled \in SUBSET Entries :
          row = [e \in Entries |-> [index |-> 0, filled |-> e \in filled]]
    /\ card = row
    /\ pc = [q \in Calls |-> "idle"]
    /\ todo = [q \in Calls |-> {}]
    /\ draft = [q \in Calls |-> Closed]
    /\ dirty = [q \in Calls |-> {}]
    /\ alone = {} /\ overlapped = FALSE
    /\ rotations = 0 /\ faults = 0

-----------------------------------------------------------------------------
(* An entry rotates when it has a second sentence or, with its exercise,   *)
(* a second exercise type.                                                 *)
RotatableBoth == {e \in Rich : row[e].filled}   \* mutant: `or' for `and'
Rotatable == {e \in Entries : e \in Rich \/ row[e].filled}

(* _missing_exercise ORDER BY id LIMIT.                                    *)
CandidatesAny ==                                \* mutant: filter dropped
    {e \in Entries : Cardinality({d \in Entries : d < e}) < Limit}
Candidates ==
    LET missing == {e \in Entries : ~row[e].filled}
    IN  {e \in missing : Cardinality({d \in missing : d < e}) < Limit}

Running == {q \in Calls : pc[q] # "idle"}

Start(q, visits) ==
    /\ pc[q] = "idle"
    /\ Cardinality(Running) < MaxActive
    /\ pc' = [pc EXCEPT ![q] = "pushing"]
    /\ todo' = [todo EXCEPT ![q] = visits]
    /\ draft' = [draft EXCEPT ![q] = row]
    /\ alone' = IF Running = {} THEN {q} ELSE {}
    /\ overlapped' = (overlapped \/ Running # {})
    /\ UNCHANGED <<row, card, dirty, faults>>

End(q) ==
    /\ pc' = [pc EXCEPT ![q] = "idle"]
    /\ todo' = [todo EXCEPT ![q] = {}]
    /\ draft' = [draft EXCEPT ![q] = Closed]
    /\ dirty' = [dirty EXCEPT ![q] = {}]
    /\ alone' = alone \ {q}
    /\ UNCHANGED overlapped

StartRotation(q) ==
    /\ rotations < MaxRotations
    /\ rotations' = rotations + 1
    /\ Start(q, Rotatable)

StartBackfill(q) == Start(q, Candidates) /\ UNCHANGED rotations

(* The entry at hand, and what the call makes of it: rotate_cloze adds one *)
(* to the index as loaded, _backfill_worker_fields fills what is missing.  *)
Current(q) == Min(todo[q])

Changed(q) ==
    LET d == draft[q][Current(q)]
    IN  IF q \in Rotations THEN [d EXCEPT !.index = @ + 1]
                           ELSE [d EXCEPT !.filled = Current(q) \notin Mute]

RenderedBefore(q) == draft[q][Current(q)]       \* mutant: renders, then advances
RenderedClozeOnly(q) ==                         \* mutant: exercise not pushed
    IF q \in Rotations THEN [card[Current(q)] EXCEPT !.index = Changed(q).index]
                       ELSE Changed(q)
Rendered(q) == Changed(q)

(* The session holds the change; the push shows it on the card.            *)
Push(q) ==
    /\ pc[q] = "pushing" /\ todo[q] # {}
    /\ Current(q) \notin Dead
    /\ card' = [card EXCEPT ![Current(q)] = Rendered(q)]
    /\ draft' = [draft EXCEPT ![q][Current(q)] = Changed(q)]
    /\ dirty' = [dirty EXCEPT ![q] = @ \cup {Current(q)}]
    /\ pc' = [pc EXCEPT ![q] = "committing"]
    /\ UNCHANGED <<row, todo, alone, overlapped, rotations, faults>>

(* The UPDATE names only the columns this call changed.                    *)
Updated(q, e) ==
    IF e \notin dirty[q] THEN row[e]
    ELSE IF q \in Rotations THEN [row[e] EXCEPT !.index = draft[q][e].index]
                            ELSE [row[e] EXCEPT !.filled = draft[q][e].filled]

Commit(q) ==
    /\ pc[q] = "committing"
    /\ row' = [e \in Entries |-> Updated(q, e)]
    /\ dirty' = [dirty EXCEPT ![q] = {}]
    /\ todo' = [todo EXCEPT ![q] = @ \ {Current(q)}]
    /\ pc' = [pc EXCEPT ![q] = "pushing"]
    /\ UNCHANGED <<card, draft, alone, overlapped, rotations, faults>>

Finish(q) ==
    /\ pc[q] = "pushing" /\ todo[q] = {}
    /\ End(q)
    /\ UNCHANGED <<row, card, rotations, faults>>

-----------------------------------------------------------------------------
(* update_card raises: the card is gone, or the sync failed before or      *)
(* after the server took the change.                                       *)
PushRaises(q) ==
    /\ pc[q] = "pushing" /\ todo[q] # {}
    /\ \/ Current(q) \in Dead /\ UNCHANGED <<card, faults>>
       \/ /\ Current(q) \notin Dead
          /\ faults < MaxFaults /\ faults' = faults + 1
          /\ card' \in {card, [card EXCEPT ![Current(q)] = Rendered(q)]}

(* The exception ends a rotation, the entries not yet visited included.    *)
RotationFails(q) ==
    /\ q \in Rotations
    /\ PushRaises(q)
    /\ End(q)
    /\ UNCHANGED <<row, rotations>>

BackfillKeepsDirty(q) ==                        \* mutant: no savepoint
    /\ q \in Backfills
    /\ PushRaises(q)
    /\ todo' = [todo EXCEPT ![q] = @ \ {Current(q)}]
    /\ draft' = [draft EXCEPT ![q][Current(q)] = Changed(q)]
    /\ dirty' = [dirty EXCEPT ![q] = @ \cup {Current(q)}]
    /\ UNCHANGED <<row, pc, alone, overlapped, rotations>>
(* A backfill rolls the savepoint of the entry back and goes on.           *)
BackfillSkips(q) ==
    /\ q \in Backfills
    /\ PushRaises(q)
    /\ todo' = [todo EXCEPT ![q] = @ \ {Current(q)}]
    /\ UNCHANGED <<row, pc, draft, dirty, alone, overlapped, rotations>>

(* The process or the database connection dies between push and commit.    *)
Crash(q) ==
    /\ pc[q] # "idle"
    /\ faults < MaxFaults /\ faults' = faults + 1
    /\ End(q)
    /\ UNCHANGED <<row, card, rotations>>

-----------------------------------------------------------------------------
Step(q) == Push(q) \/ Commit(q) \/ Finish(q) \/ RotationFails(q) \/ BackfillSkips(q)

Next ==
    \/ \E q \in Rotations : StartRotation(q)
    \/ \E q \in Backfills : StartBackfill(q)
    \/ \E q \in Calls : Step(q) \/ Crash(q)

Spec == Init /\ [][Next]_vars

(* Calls run to their end; a user who has entries to backfill calls again. *)
FairSpec ==
    /\ Spec
    /\ \A q \in Calls : WF_vars(Step(q))
    /\ \A q \in Backfills : SF_vars(StartBackfill(q))

-----------------------------------------------------------------------------
Resting == Running = {}

(* As long as calls have not overlapped, a card is never behind its row,   *)
(* and failures never make it drift: it shows the committed rotation or    *)
(* the one the next call will push again.  Between calls, and as long as   *)
(* nothing failed, card and row agree.                                     *)
CardInStep ==
    ~overlapped =>
        /\ \A e \in Entries : card[e].index - row[e].index \in {0, 1}
        /\ Resting /\ faults = 0 => card = row

(* An entry that no longer counts as missing its exercise shows it: a      *)
(* failed entry stays a candidate, whatever the call commits after it.     *)
(* Only a rotation that loaded the entry before takes it off again.        *)
FilledIsShown ==
    ~overlapped => \A e \in Entries : row[e].filled => card[e].filled

(* Every entry a rotation can reach is rotated by every call that ends:    *)
(* the deck advances together (exercise.py, "The nightly job bumps every   *)
(* entry together").  A card that is gone from Anki cuts off what follows. *)
Reached == {e \in Rich \ Dead : \A d \in Dead \cap Rotatable : e < d}

DeckAdvancesTogether ==
    Resting /\ faults = 0 /\ ~overlapped
    => \A d, e \in Reached : row[d].index = row[e].index

(* vocab_service.py:117 "Advance cloze_index for every synced entry with   *)
(* something to rotate": also when a card before it is gone from Anki.     *)
EveryEntryRotates ==
    Resting /\ faults = 0 => \A d, e \in Rich \ Dead : row[d].index = row[e].index

(* Whatever calls that overlapped, failed or died have left behind, a      *)
(* rotation that runs alone to its end puts every card it visits back in   *)
(* step with its row.                                                      *)
RotationRepairs ==
    [][\A q \in Rotations :
           Finish(q) /\ q \in alone => \A e \in Rotatable : card[e] = row[e]]_vars

(* As long as fewer entries than the limit can never be filled, repeated   *)
(* backfill calls fill all the others, and no call empties them again.     *)
BackfillReachesAll ==
    <>[](\A e \in Entries \ (Dead \cup Mute) : row[e].filled)
=============================================================================
