------------------------ MODULE EntryLifecycleProofs ------------------------
(***************************************************************************)
(* The safety of EntryLifecycle for any number of entries, workers and     *)
(* requests, any lemmas and senses, and any number of failures. IInv is    *)
(* shown to hold initially and to be kept by every action, one lemma per   *)
(* action; the invariants the runs check follow from it.  At the end, that *)
(* EntryLifecycle implements EntryStatus.                                  *)
(***************************************************************************)
EXTENDS EntryLifecycle, FiniteSetTheorems, TLAPS

USE ActorsAssumption, DataAssumption

(* Who is who: the sets of actors do not overlap, except that an entry     *)
(* also stands for the request that adds it.                               *)
LEMMA ActorSets ==
    /\ Adders \subseteq Entries
    /\ Jobs \subseteq Actors
    /\ Adders \cap Imported = {}
    /\ Entries = Adders \cup Imported
    /\ \A a \in Approvers : /\ a \in Actors /\ a \notin Entries
                            /\ a \notin Workers /\ a \notin Rejecters
    /\ \A a \in Rejecters : a \in Actors /\ a \notin Entries /\ a \notin Workers
    /\ \A w \in Workers : w \in Actors /\ w \notin Entries
    /\ \A j \in Jobs : j \in Adders \/ j \in Workers
    /\ Entries \subseteq Actors
    /\ Nobody \notin Entries \cup Workers \cup Approvers \cup Rejecters
  BY DEF Adders, Jobs, Actors, Requests

(* The rows the code builds from scratch have the type of rows and the     *)
(* status their name says.                                                 *)
LEMMA RowShapes ==
    /\ Raw \in Row /\ Raw.status = "pending" /\ Raw.lemma = NoLemma
    /\ Absent \in Row /\ Absent.status = "absent"
    /\ \A f \in Entries : /\ Dropped(f) \in Row
                          /\ Dropped(f).status = "dropped"
                          /\ Dropped(f).twin = f
  BY DEF Raw, Absent, Dropped, Row, Statuses, Decided

(* created_at stays a number: only finitely many rows have been created.   *)
LEMMA TickType ==
    ASSUME TypeOK, NEW S \in SUBSET Entries, NextTick(S)
    PROVE  created' \in [Entries -> Nat]
<1> DEFINE T == {f \in Entries : created[f] # 0}
<1>1. IsFiniteSet(T)
  <2>1. T \subseteq Entries OBVIOUS
  <2> QED BY <2>1, FS_Subset
<1>2. Cardinality(T) + 1 \in Nat
  BY <1>1, FS_CardinalityType
<1>3. created' = [e \in Entries |-> IF e \in S THEN Cardinality(T) + 1
                                             ELSE created[e]]
  BY DEF NextTick
<1> HIDE DEF T
<1> QED BY <1>2, <1>3 DEF TypeOK

(* Closing a session keeps the types of what it touches.                   *)
LEMMA LeaveType ==
    ASSUME TypeOK, NEW x \in Actors, NEW p \in {"idle", "done", "deferred"},
           Leave(x, p)
    PROVE /\ pc' \in [Actors -> {"idle", "translating", "dropping", "enriching",
                          "preparing", "writing", "finishing", "deferred",
                          "rejecting", "done"}]
          /\ target' \in [Actors -> Entries \cup {Nobody}]
          /\ loaded' \in [Actors -> Row]
          /\ draft' \in [Actors -> Row]
  BY RowShapes DEF TypeOK, Leave

(* Releasing locks keeps the type of owner.                                *)
LEMMA ReleaseType ==
    ASSUME TypeOK, NEW x, Release(x)
    PROVE  owner' \in [Entries -> Workers \cup Approvers \cup {Nobody}]
  BY DEF TypeOK, Release

(* The row an approval's UPDATE produces is a row; it has the draft's      *)
(* card, and its status is the loaded one's unless the draft changed it.   *)
LEMMA MergedType ==
    ASSUME TypeOK, NEW x \in Actors, target[x] \in Entries
    PROVE  /\ Merged(x) \in Row
           /\ Merged(x).card = draft[x].card
           /\ Merged(x).status
                = Column(draft[x].status, loaded[x].status, row[target[x]].status)
<1> DEFINE l == Column(draft[x].lemma, loaded[x].lemma, row[target[x]].lemma)
           s == Column(draft[x].status, loaded[x].status, row[target[x]].status)
<1>1. row[target[x]] \in Row /\ draft[x] \in Row /\ loaded[x] \in Row
  BY DEF TypeOK
<1>2. l \in Lemmas \cup {NoLemma} /\ s \in Statuses /\ draft[x].card \in Nat
   BY <1>1 DEF Row, Column
<1>3. Merged(x)
        = [row[target[x]] EXCEPT !.lemma = l, !.status = s, !.card = draft[x].card]
  BY DEF Merged
<1> HIDE DEF l, s
<1> DEFINE rr == row[target[x]] cc == draft[x].card mm == Merged(x)
<1>4. rr \in Row /\ cc \in Nat /\ mm = [rr EXCEPT !.lemma = l, !.status = s, !.card = cc]
  BY <1>1, <1>2, <1>3
<1> HIDE DEF rr, cc, mm
<1>5. mm \in Row /\ mm.status = s /\ mm.card = cc
  BY <1>2, <1>4 DEF Row
<1> QED BY <1>5 DEF s, mm, cc

(* A job in the middle of process_entry: a worker holds the lock of a row  *)
(* that is still pending, an inline add has not committed its row.         *)
LEMMA JobFacts ==
    ASSUME IInv, NEW j \in Jobs, pc[j] \notin {"idle", "done"}
    PROVE  /\ j \in Actors /\ target[j] \in Entries
           /\ pc[j] \in {"translating", "dropping", "enriching", "writing",
                         "finishing", "deferred"}
           /\ draft[j] \in Row
           /\ j \in Workers => /\ owner[target[j]] = j
                               /\ row[target[j]].status = "pending"
           /\ j \notin Workers => /\ j \in Adders /\ target[j] = j
                                  /\ row[j].status = "absent" /\ owner[j] = Nobody
<1>1. /\ j \in Actors /\ target[j] \in Entries /\ draft[j] \in Row
      /\ pc[j] \in {"translating", "dropping", "enriching", "writing",
                    "finishing", "deferred"}
  BY ActorSets DEF IInv, TypeOK, PlaceInv
<1>2. CASE j \in Workers
  <2>1. owner[target[j]] = j
    BY <1>1, <1>2, ActorSets DEF IInv, LockInv
  <2>2. row[target[j]].status = "pending"
    BY <1>1, <1>2, <2>1, ActorSets DEF IInv, LockInv
  <2> QED BY <1>1, <1>2, <2>1, <2>2
<1>3. CASE j \notin Workers
  <2>1. j \in Adders /\ j \in Entries /\ target[j] = j /\ row[j].status = "absent"
    BY <1>1, <1>3, ActorSets DEF IInv, PlaceInv
  <2>2. ~Visible(j)
    BY <2>1 DEF Visible, Decided
  <2>3. owner[j] \in Workers \cup Approvers \cup {Nobody}
    BY <2>1 DEF IInv, TypeOK
  <2>4. owner[j] = Nobody
    BY <2>1, <2>2, <2>3, ActorSets DEF IInv, LockInv
  <2> QED BY <1>1, <1>3, <2>1, <2>4
<1> QED BY <1>2, <1>3

(* A held row is its holder's target, and its holder is a worker or an     *)
(* approval; a request that holds its row holds no other.                  *)
LEMMA HolderFacts ==
    ASSUME IInv, NEW e \in Entries, owner[e] # Nobody
    PROVE  /\ owner[e] \in Workers \/ owner[e] \in Approvers
           /\ owner[e] \in Actors /\ target[owner[e]] = e
           /\ owner[e] \in Workers => row[e].status = "pending"
           /\ owner[e] \in Approvers => Visible(e)
  BY ActorSets DEF IInv, TypeOK, LockInv

-----------------------------------------------------------------------------
(* Keys of the unique index.                                               *)
SameKey(r, q) == r.lemma = q.lemma /\ r.sense = q.sense

(* The columns an approval's UPDATE does not name come from the row.       *)
LEMMA MergedKey ==
    ASSUME NEW r \in Row, NEW l, NEW s, NEW c
    PROVE  LET m == [r EXCEPT !.lemma = l, !.status = s, !.card = c]
           IN  m.lemma = l /\ m.sense = r.sense
  BY DEF Row

(* The key an approval's UPDATE writes changes only with the lemma of its  *)
(* draft or with the row it updates.                                       *)
LEMMA MergedStays ==
    ASSUME TypeOK, NEW a \in Actors, target[a] \in Entries,
           target'[a] = target[a], loaded'[a].lemma = loaded[a].lemma,
           draft'[a].lemma = draft[a].lemma, row'[target[a]] = row[target[a]]
    PROVE  SameKey(Merged(a)', Merged(a))
<1> DEFINE r == row[target[a]]
           l == Column(draft[a].lemma, loaded[a].lemma, r.lemma)
           s == Column(draft[a].status, loaded[a].status, r.status)
           c == draft[a].card
           t == Column(draft'[a].status, loaded'[a].status, r.status)
           d == draft'[a].card
<1>1. r \in Row
  BY DEF TypeOK
<1>2. Merged(a) = [r EXCEPT !.lemma = l, !.status = s, !.card = c]
  BY DEF Merged
<1>3. Merged(a)' = [r EXCEPT !.lemma = l, !.status = t, !.card = d]
  BY DEF Merged, Column
<1>4. Merged(a).lemma = l /\ Merged(a).sense = r.sense
  <2> HIDE DEF r, l, s, c
  <2> QED BY <1>1, <1>2, MergedKey
<1>5. Merged(a)'.lemma = l /\ Merged(a)'.sense = r.sense
  <2> HIDE DEF r, l, t, d
  <2> QED BY <1>1, <1>3, MergedKey
<1> QED BY <1>4, <1>5 DEF SameKey

(* Flushed approvals keep their keys in a step of x that takes no lock,    *)
(* changes no flushed row, and gives no visible row a key somebody holds.  *)
LEMMA KeyStep ==
    ASSUME IInv, NEW x \in Actors,
           \A y \in Actors \ {x} : /\ target'[y] = target[y] /\ loaded'[y] = loaded[y]
                                   /\ draft'[y] = draft[y],
           \A e \in Entries : owner'[e] \in Approvers =>
               /\ owner'[e] = owner[e] /\ row'[e] = row[e]
               /\ owner[e] = x => /\ target'[x] = target[x] /\ loaded'[x] = loaded[x]
                                  /\ draft'[x].lemma = draft[x].lemma,
           \A f \in Entries : \/ row'[f] = row[f]
                              \/ ~Visible(f)'
                              \/ row'[f].lemma = NoLemma
                              \/ Visible(f) /\ SameKey(row'[f], row[f])
                              \/ ~Blocked(f, row'[f])
    PROVE  KeyInv'
<1>1. ASSUME NEW e \in Entries, NEW a \in Approvers, owner'[e] = a
      PROVE  /\ owner[e] = a /\ row'[e] = row[e]
             /\ SameKey(Merged(a)', Merged(a))
  <2>1. owner[e] = a /\ row'[e] = row[e]
    BY <1>1
  <2>2. a \in Actors /\ target[a] = e
    BY <2>1, HolderFacts, ActorSets
  <2>3. /\ target'[a] = target[a] /\ loaded'[a] = loaded[a]
        /\ draft'[a].lemma = draft[a].lemma
    BY <1>1, <2>1, <2>2
  <2> QED BY <2>1, <2>2, <2>3, MergedStays DEF IInv
<1>2. SUFFICES ASSUME NEW e \in Entries, NEW a \in Approvers, owner'[e] = a
               PROVE  ~Conflict(e, Merged(a))' /\ ~Blocked(e, Merged(a))'
  BY DEF KeyInv
<1>3. /\ SameKey(Merged(a)', Merged(a)) /\ owner[e] = a
      /\ ~Conflict(e, Merged(a)) /\ ~Blocked(e, Merged(a))
  BY <1>1, <1>2 DEF IInv, KeyInv
<1>4. ASSUME NEW f \in Entries \ {e}, Visible(f)', Merged(a)'.lemma # NoLemma,
             SameKey(row'[f], Merged(a)')
      PROVE  FALSE
  <2>1. SameKey(row'[f], Merged(a)) /\ Merged(a).lemma # NoLemma
    BY <1>3, <1>4 DEF SameKey
  <2>2. CASE Visible(f) /\ SameKey(row'[f], row[f])
    BY <1>3, <2>1, <2>2 DEF SameKey, Conflict
  <2>3. CASE row'[f] = row[f]
    BY <1>4, <2>2, <2>3 DEF SameKey, Visible
  <2>4. CASE row'[f].lemma = NoLemma
    BY <1>4, <2>4 DEF SameKey
  <2>5. CASE ~Blocked(f, row'[f])
    BY <1>3, <2>1, <2>5 DEF Blocked, SameKey
  <2> QED BY <1>4, <2>2, <2>3, <2>4, <2>5
<1>5. ASSUME NEW f \in Entries \ {e}, NEW b \in Approvers, owner'[f] = b,
             Merged(a)'.lemma # NoLemma,
             NEW k \in {row'[f], Merged(b)'}, SameKey(k, Merged(a)')
      PROVE  FALSE
  <2>1. /\ owner[f] = b /\ row'[f] = row[f]
        /\ SameKey(Merged(b)', Merged(b))
    BY <1>1, <1>5
  <2>2. \E h \in {row[f], Merged(b)} : SameKey(h, Merged(a))
    BY <1>3, <1>5, <2>1 DEF SameKey
  <2>3. Merged(a).lemma # NoLemma
    BY <1>3, <1>5 DEF SameKey
  <2> QED BY <1>3, <2>1, <2>2, <2>3 DEF Blocked, SameKey
<1>6. ~Conflict(e, Merged(a))'
  BY <1>4 DEF Conflict, SameKey
<1>7. ~Blocked(e, Merged(a))'
  BY <1>5 DEF Blocked, SameKey
<1> QED BY <1>6, <1>7

(* A job's step: no lock of an approval is its own, and the row it         *)
(* commits, if any, is its own.                                            *)
LEMMA JobKeys ==
    ASSUME IInv, NEW x \in Jobs, pc[x] \notin {"idle", "done"},
           \A y \in Actors \ {x} : /\ target'[y] = target[y] /\ loaded'[y] = loaded[y]
                                   /\ draft'[y] = draft[y],
           UNCHANGED owner \/ Release(x),
           \/ UNCHANGED row
           \/ /\ row' = [row EXCEPT ![target[x]] = draft[x]]
              /\ \/ draft[x].status = "dropped"
                 \/ draft[x].lemma = NoLemma
                 \/ ~Blocked(target[x], draft[x])
    PROVE  KeyInv'
<1>1. PICK g \in Entries : g = target[x]
  BY JobFacts
<1>2. x \in Actors /\ x \notin Approvers /\ owner[g] \notin Approvers
  BY <1>1, JobFacts, ActorSets
<1>3. ASSUME NEW e \in Entries, owner'[e] \in Approvers
      PROVE  owner'[e] = owner[e] /\ owner[e] # x /\ e # g
  <2>1. owner'[e] = owner[e] \/ owner'[e] = Nobody
    BY DEF Release
  <2> QED BY <1>2, <1>3, <2>1, ActorSets
<1>4. \A e \in Entries \ {g} : row'[e] = row[e]
  BY <1>1 DEF IInv, TypeOK
<1>5. \/ row'[g] = row[g]
      \/ /\ row'[g] = draft[x]
         /\ \/ draft[x].status = "dropped"
            \/ draft[x].lemma = NoLemma
            \/ ~Blocked(g, draft[x])
  BY <1>1 DEF IInv, TypeOK
<1>6. draft[x].status = "dropped" /\ row'[g] = draft[x] => ~Visible(g)'
  BY DEF Visible, Decided
<1>7. \A f \in Entries : \/ row'[f] = row[f] \/ ~Visible(f)' \/ row'[f].lemma = NoLemma
                         \/ ~Blocked(f, row'[f])
  BY <1>4, <1>5, <1>6
<1> QED BY <1>2, <1>3, <1>4, <1>7, KeyStep

(* A step that touches no committed row, no lock and no session of an      *)
(* approval.                                                               *)
LEMMA KeysUntouched ==
    ASSUME IInv, UNCHANGED <<row, owner>>, NEW x \in Actors, x \notin Approvers,
           \A y \in Actors \ {x} : /\ target'[y] = target[y] /\ loaded'[y] = loaded[y]
                                   /\ draft'[y] = draft[y]
    PROVE  KeyInv'
<1>1. \A e \in Entries : owner'[e] \in Approvers => owner'[e] = owner[e] /\ owner[e] # x
  OBVIOUS
<1> QED BY <1>1, KeyStep

(* A request without a lock has nothing to release.                        *)
LEMMA NothingHeld ==
    ASSUME IInv, NEW x \in Requests, target[x] \in Entries, UNCHANGED owner,
           x \in Approvers => owner[target[x]] = Nobody
    PROVE  Release(x)
<1>1. ASSUME NEW e \in Entries, owner[e] = x PROVE FALSE
  BY <1>1, HolderFacts, ActorSets DEF Requests
<1>2. owner \in [Entries -> Workers \cup Approvers \cup {Nobody}]
  BY DEF IInv, TypeOK
<1> QED BY <1>1, <1>2 DEF Release

-----------------------------------------------------------------------------
(* The last step of an approve or reject request keeps the invariant if it *)
(* changes at most one visible row, that nobody else has locked, to a      *)
(* decided one whose card, if it is called synced, exists and whose key is *)
(* the old one or one that nobody holds.                                   *)
LEMMA RequestEnds ==
    ASSUME IInv, NEW x \in Requests, NEW e \in Entries, Leave(x, "done"), Release(x),
           row' \in [Entries -> Row],
           \A f \in Entries \ {e} : row'[f] = row[f],
           \/ row'[e] = row[e]
           \/ /\ owner[e] \in {Nobody, x}
              /\ Visible(e)
              /\ row'[e].status \in Decided
              /\ row'[e].status = "synced" => Valid(e, row'[e].card)
              /\ SameKey(row'[e], row[e]) \/ ~Blocked(e, row'[e]),
           UNCHANGED <<created, audio, cards, strays, failures>>
    PROVE  IInv'
<1>1. x \in Actors /\ x \notin Entries /\ x \notin Workers
  BY ActorSets DEF Requests
<1>2. /\ TypeOK /\ PlaceInv /\ LockInv /\ DraftInv
      /\ SyncedHasCard /\ PendingIsRaw /\ DroppedHasTwin
  BY DEF IInv
<1>3. TypeOK'
  BY <1>1, <1>2, LeaveType, ReleaseType DEF TypeOK
<1>4. \A f \in Entries : /\ row[f].status = "absent" => row'[f].status = "absent"
                         /\ row[f].status \in Decided => row'[f].status \in Decided
                         /\ owner[f] \notin {Nobody, x} => row'[f] = row[f]
                         /\ row'[f].status \notin Decided => row'[f] = row[f]
                         /\ row'[f].status = "synced" => \/ row'[f] = row[f]
                                                         \/ Valid(f, row'[f].card)
  BY <1>2 DEF Visible, Decided
<1>5. \A f \in Entries : /\ owner'[f] # Nobody => owner'[f] = owner[f] /\ owner[f] # x
                         /\ owner[f] # x => owner'[f] = owner[f]
  BY DEF Release
<1>6. \A y \in Actors \ {x} : /\ target'[y] = target[y] /\ loaded'[y] = loaded[y]
                              /\ draft'[y] = draft[y] /\ pc'[y] = pc[y]
  BY <1>1, <1>2 DEF TypeOK, Leave
<1>7. PlaceInv'
  BY <1>1, <1>2, <1>4, ActorSets DEF TypeOK, PlaceInv, Leave, Requests
<1>8. LockInv'
  <2>1. ASSUME NEW w \in Workers, target'[w] # Nobody PROVE owner'[target'[w]] = w
    <3>1. w \in Actors /\ w # x /\ target'[w] = target[w]
      BY <1>1, <1>6, ActorSets
    <3>2. target[w] \in Entries /\ owner[target[w]] = w
      BY <1>2, <2>1, <3>1 DEF LockInv, TypeOK
    <3> QED BY <1>5, <3>1, <3>2
  <2>2. ASSUME NEW f \in Entries, owner'[f] # Nobody
        PROVE  /\ target'[owner'[f]] = f
               /\ owner'[f] \in Workers => row'[f].status = "pending"
               /\ owner'[f] \in Approvers => Visible(f)'
    <3>1. owner'[f] = owner[f] /\ owner[f] # x /\ owner[f] # Nobody
      BY <1>5, <2>2
    <3>2. row'[f] = row[f] /\ target'[owner[f]] = target[owner[f]]
      BY <1>4, <1>6, <3>1, HolderFacts
    <3> QED BY <3>1, <3>2, HolderFacts DEF Visible
  <2> QED BY <2>1, <2>2 DEF LockInv
<1>9. KeyInv'
  <2>1. \A f \in Entries : owner'[f] \in Approvers =>
            owner'[f] = owner[f] /\ owner[f] # x /\ row'[f] = row[f]
    BY <1>4, <1>5, ActorSets
  <2> QED BY <1>1, <1>6, <2>1, KeyStep
<1>10. DraftInv'
  BY <1>1, <1>2, <1>4, ActorSets, RowShapes DEF TypeOK, DraftInv, Valid,
     Leave, Decided
<1>11. SyncedHasCard'
  BY <1>2, <1>4 DEF SyncedHasCard, Valid
<1>12. PendingIsRaw'
  BY <1>2, <1>4 DEF PendingIsRaw, Decided
<1>13. DroppedHasTwin'
  BY <1>2, <1>4 DEF DroppedHasTwin, Decided
<1> QED BY <1>3, <1>7, <1>8, <1>9, <1>10, <1>11, <1>12, <1>13 DEF IInv

(* The initial state satisfies the inductive invariant.                    *)
LEMMA InitIInv == Init => IInv
  BY ActorSets, RowShapes DEF Init, IInv, TypeOK, PlaceInv, LockInv, KeyInv, DraftInv,
     SyncedHasCard, PendingIsRaw, DroppedHasTwin, Decided, Actors

(* Inserting the row of an inline add changes nothing another transaction  *)
(* sees.                                                                   *)
LEMMA AddEntryStep == ASSUME IInv, NEW x \in Adders, AddEntry(x) PROVE IInv'
<1>1. TypeOK'
  <2>1. created' \in [Entries -> Nat]
    BY ActorSets, TickType DEF IInv, AddEntry
  <2> QED BY <2>1, ActorSets, RowShapes DEF IInv, TypeOK, AddEntry, Begin
<1>2. PlaceInv'
  BY ActorSets DEF IInv, TypeOK, PlaceInv, AddEntry, Begin
<1>3. LockInv'
  BY ActorSets, RowShapes DEF IInv, TypeOK, LockInv, Visible, PlaceInv, AddEntry, Begin
<1>4. DraftInv'
  BY ActorSets DEF IInv, TypeOK, DraftInv, Valid, AddEntry, Begin
<1>5. SyncedHasCard'
  BY DEF IInv, SyncedHasCard, AddEntry
<1>6. PendingIsRaw'
  BY DEF IInv, PendingIsRaw, AddEntry
<1>7. DroppedHasTwin'
  BY DEF IInv, DroppedHasTwin, AddEntry
<1>8. KeyInv'
  BY ActorSets, KeysUntouched DEF IInv, TypeOK, AddEntry, Begin
<1> QED BY <1>1, <1>2, <1>3, <1>4, <1>5, <1>6, <1>7, <1>8 DEF IInv

(* An import only adds raw rows of entries that did not exist.             *)
LEMMA ImportEntriesStep ==
    ASSUME IInv, NEW x \in SUBSET Imported, ImportEntries(x)
    PROVE  IInv'
<1>1. TypeOK'
  <2>1. created' \in [Entries -> Nat]
    BY ActorSets, TickType DEF IInv, ImportEntries
  <2> QED BY <2>1, ActorSets, RowShapes DEF IInv, TypeOK, ImportEntries
<1>2. PlaceInv'
  BY ActorSets DEF IInv, TypeOK, PlaceInv, ImportEntries
<1>3. LockInv'
  BY ActorSets, RowShapes DEF IInv, TypeOK, LockInv, Visible, PlaceInv, ImportEntries
<1>4. DraftInv'
  <2>1. \A e \in Entries : row[e].status \in Decided => row'[e] = row[e]
    BY ActorSets DEF IInv, TypeOK, PlaceInv, ImportEntries, Decided
  <2>2. \A e \in Entries : row'[e].status = "dropped" => row'[e] = row[e]
    BY ActorSets, RowShapes DEF IInv, TypeOK, ImportEntries
  <2>3. \A a \in Actors : pc'[a] = pc[a] \/ pc'[a] = "done"
    BY ActorSets DEF IInv, TypeOK, ImportEntries
  <2>4. UNCHANGED <<target, loaded, draft, cards>>
    BY DEF ImportEntries
  <2>5. DraftInv
    BY DEF IInv
  <2> QED BY <2>1, <2>3, <2>4, <2>5, ActorSets DEF DraftInv, Valid
<1>5. SyncedHasCard'
  BY ActorSets, RowShapes DEF IInv, TypeOK, SyncedHasCard, PlaceInv,
     ImportEntries
<1>6. PendingIsRaw'
  BY DEF IInv, PendingIsRaw, ImportEntries
<1>7. DroppedHasTwin'
  <2>1. \A e \in Entries : row[e].status \in Decided => row'[e] = row[e]
    BY ActorSets DEF IInv, TypeOK, PlaceInv, ImportEntries, Decided
  <2>2. \A e \in Entries : row'[e].status = "dropped" => row'[e] = row[e]
    BY ActorSets, RowShapes DEF IInv, TypeOK, ImportEntries
  <2>3. \A e \in Entries : row[e].status = "dropped" => row[e].twin \in Entries
    BY DEF IInv, TypeOK, DroppedHasTwin
  <2> QED BY <2>1, <2>2, <2>3 DEF IInv, DroppedHasTwin
<1>8. KeyInv'
  <2>1. PICK y \in x : y \in Actors
    BY ActorSets DEF ImportEntries
  <2>2. \A e \in Entries : row'[e] = row[e] \/ (e \in x /\ row'[e].lemma = NoLemma)
    BY RowShapes DEF ImportEntries
  <2>3. ASSUME NEW e \in Entries, owner'[e] \in Approvers PROVE row'[e] = row[e]
    <3>1. Visible(e)
      BY <2>3 DEF ImportEntries, IInv, LockInv
    <3>2. e \notin x
      BY <3>1 DEF ImportEntries, IInv, PlaceInv, Visible, Decided
    <3> QED BY <2>2, <3>2
  <2>4. UNCHANGED <<owner, target, loaded, draft>>
    BY DEF ImportEntries
  <2> QED BY <2>1, <2>2, <2>3, <2>4, KeyStep
<1> QED BY <1>1, <1>2, <1>3, <1>4, <1>5, <1>6, <1>7, <1>8 DEF IInv

(* A claim locks a pending row nobody holds, and its draft is that raw     *)
(* row.                                                                    *)
LEMMA ClaimOnePendingStep ==
    ASSUME IInv, NEW x \in Workers, ClaimOnePending(x)
    PROVE  IInv'
<1>a. PICK e \in Entries : /\ row[e] = Raw /\ row[e].status = "pending"
                           /\ owner[e] = Nobody
                           /\ owner' = [owner EXCEPT ![e] = x]
                           /\ pc' = [pc EXCEPT ![x] = "translating"]
                           /\ target' = [target EXCEPT ![x] = e]
                           /\ loaded' = [loaded EXCEPT ![x] = Raw]
                           /\ draft' = [draft EXCEPT ![x] = Raw]
  BY DEF ClaimOnePending, Claimable, Begin, IInv, PendingIsRaw
<1>b. /\ x \in Actors /\ pc[x] = "idle"
      /\ UNCHANGED <<row, created, audio, cards, strays, failures>>
  BY ActorSets DEF ClaimOnePending
<1>1. TypeOK'
  BY <1>a, <1>b, RowShapes DEF IInv, TypeOK
<1>2. PlaceInv'
  BY <1>a, <1>b, ActorSets DEF IInv, TypeOK, PlaceInv
<1>3. LockInv'
  BY <1>a, <1>b, ActorSets DEF IInv, TypeOK, PlaceInv, LockInv, Visible
<1>4. DraftInv'
  BY <1>a, <1>b, ActorSets, RowShapes DEF IInv, TypeOK, DraftInv, Valid, Decided
<1>5. SyncedHasCard'
  BY <1>b DEF IInv, SyncedHasCard
<1>6. PendingIsRaw'
  BY <1>b DEF IInv, PendingIsRaw
<1>7. DroppedHasTwin'
  BY <1>b DEF IInv, DroppedHasTwin
<1>8. KeyInv'
  <2>1. x \notin Approvers /\ x \in Actors
    BY ActorSets
  <2>2. \A y \in Actors \ {x} : /\ target'[y] = target[y] /\ loaded'[y] = loaded[y]
                                /\ draft'[y] = draft[y]
    BY <1>a DEF IInv, TypeOK
  <2>3. \A f \in Entries : owner'[f] \in Approvers => owner'[f] = owner[f] /\ owner[f] # x
    BY <1>a, <2>1 DEF IInv, TypeOK
  <2> QED BY <1>b, <2>1, <2>2, <2>3, KeyStep
<1> QED BY <1>1, <1>2, <1>3, <1>4, <1>5, <1>6, <1>7, <1>8 DEF IInv

(* A duplicate is only named among committed rows with a lemma, which are  *)
(* decided because a pending row is raw.                                   *)
LEMMA TranslateStep == ASSUME IInv, NEW x \in Jobs, Translate(x) PROVE IInv'
<1>a. PICK l \in Lemmas, s \in Senses : \E f \in FindDuplicate(target[x], l, s) :
          IF f = Nobody
          THEN /\ draft' = [draft EXCEPT ![x] = [@ EXCEPT !.lemma = l, !.sense = s]]
               /\ Goto(x, "enriching")
          ELSE /\ draft' = [draft EXCEPT ![x] = Dropped(f)]
               /\ Goto(x, "dropping")
  BY DEF Translate
<1>b. PICK f \in FindDuplicate(target[x], l, s) :
          IF f = Nobody
          THEN /\ draft' = [draft EXCEPT ![x] = [@ EXCEPT !.lemma = l, !.sense = s]]
               /\ Goto(x, "enriching")
          ELSE /\ draft' = [draft EXCEPT ![x] = Dropped(f)]
               /\ Goto(x, "dropping")
  BY <1>a
<1>c. f # Nobody => f \in Entries /\ row[f].status \in Decided
  BY RowShapes DEF FindDuplicate, Siblings, Visible, IInv, PendingIsRaw
<1>d. /\ x \in Actors /\ pc[x] = "translating" /\ draft[x] \in Row
      /\ UNCHANGED <<row, owner, created, target, loaded, audio, cards, strays, failures>>
  BY <1>b, JobFacts DEF Translate, Goto
<1>e. /\ draft' \in [Actors -> Row]
      /\ \A a \in Actors \ {x} : draft'[a] = draft[a]
      /\ f = Nobody => draft'[x].lemma \in Lemmas
      /\ f # Nobody => draft'[x] = Dropped(f)
  <2>1. CASE f = Nobody
    <3>1. draft[x] \in Row
      BY <1>d
    <3>2. /\ [draft[x] EXCEPT !.lemma = l, !.sense = s] \in Row
          /\ [draft[x] EXCEPT !.lemma = l, !.sense = s].lemma = l
      BY <3>1 DEF Row
    <3>3. draft \in [Actors -> Row]
      BY DEF IInv, TypeOK
    <3>4. draft' = [draft EXCEPT ![x] = [draft[x] EXCEPT !.lemma = l, !.sense = s]]
      BY <1>b, <2>1, <3>3
    <3>5. draft' = [a \in Actors |-> IF a = x THEN [draft[x] EXCEPT !.lemma = l, !.sense = s]
                                             ELSE draft[a]]
      BY <3>3, <3>4
    <3> QED BY <1>d, <2>1, <3>2, <3>3, <3>5
  <2>2. CASE f # Nobody
    BY <1>b, <1>c, <1>d, <2>2, RowShapes DEF IInv, TypeOK
  <2> QED BY <2>1, <2>2
<1>f. pc' = [pc EXCEPT ![x] = IF f = Nobody THEN "enriching" ELSE "dropping"]
  BY <1>b DEF Goto
<1>1. TypeOK'
  BY <1>d, <1>e, <1>f DEF IInv, TypeOK
<1>2. PlaceInv'
  BY <1>d, <1>f, ActorSets, JobFacts DEF IInv, TypeOK, PlaceInv
<1>3. LockInv'
  BY <1>d DEF IInv, LockInv, Visible
<1>4. DraftInv'
  BY <1>c, <1>d, <1>e, <1>f, ActorSets, RowShapes, JobFacts DEF IInv, TypeOK,
     DraftInv, Valid
<1>5. SyncedHasCard'
  BY <1>d DEF IInv, SyncedHasCard
<1>6. PendingIsRaw'
  BY <1>d DEF IInv, PendingIsRaw
<1>7. DroppedHasTwin'
  BY <1>d DEF IInv, DroppedHasTwin
<1>8. KeyInv'
  BY <1>d, <1>e, ActorSets, KeysUntouched DEF Jobs
<1> QED BY <1>1, <1>2, <1>3, <1>4, <1>5, <1>6, <1>7, <1>8 DEF IInv

(* Enriching fills the draft and puts its audio in the storage; the row is *)
(* untouched.                                                              *)
LEMMA EnrichStep == ASSUME IInv, NEW x \in Jobs, Enrich(x) PROVE IInv'
<1>a. /\ x \in Actors /\ pc[x] = "enriching" /\ draft[x] \in Row
      /\ draft[x].lemma \in Lemmas
      /\ UNCHANGED <<row, owner, created, target, loaded, cards, strays, failures>>
      /\ audio' = audio \cup {draft[x].lemma}
  BY JobFacts DEF Enrich, Goto, IInv, DraftInv
<1>b. PICK t \in {"needs-review", draft[x].status}, p \in {"finishing", "writing"} :
        /\ p = "finishing" => t = "needs-review"
        /\ pc' = [pc EXCEPT ![x] = p]
        /\ draft' = [draft EXCEPT ![x] = [@ EXCEPT !.voiced = TRUE, !.status = t]]
  <2>1. CASE /\ pc' = [pc EXCEPT ![x] = "finishing"]
             /\ draft' = [draft EXCEPT
                   ![x] = [@ EXCEPT !.voiced = TRUE, !.status = "needs-review"]]
    BY <2>1
  <2>2. CASE /\ pc' = [pc EXCEPT ![x] = "writing"]
             /\ draft' = [draft EXCEPT ![x].voiced = TRUE]
    <3>1. [draft[x] EXCEPT !.voiced = TRUE]
            = [draft[x] EXCEPT !.voiced = TRUE, !.status = draft[x].status]
      BY <1>a DEF Row
    <3> QED BY <2>2, <3>1
  <2> QED BY <2>1, <2>2 DEF Enrich, Goto
<1>c. /\ draft' \in [Actors -> Row]
      /\ \A a \in Actors \ {x} : draft'[a] = draft[a]
      /\ draft'[x].lemma \in Lemmas /\ draft'[x].status = t
  <2>1. t \in Statuses
    BY <1>a DEF Row, Statuses, Decided
  <2>2. /\ [draft[x] EXCEPT !.voiced = TRUE, !.status = t] \in Row
        /\ [draft[x] EXCEPT !.voiced = TRUE, !.status = t].lemma = draft[x].lemma
        /\ [draft[x] EXCEPT !.voiced = TRUE, !.status = t].status = t
    BY <1>a, <2>1 DEF Row
  <2> QED BY <1>a, <1>b, <2>2 DEF IInv, TypeOK
<1>1. TypeOK'
  BY <1>a, <1>b, <1>c DEF IInv, TypeOK
<1>2. PlaceInv'
  BY <1>a, <1>b, ActorSets, JobFacts DEF IInv, TypeOK, PlaceInv
<1>3. LockInv'
  BY <1>a DEF IInv, LockInv, Visible
<1>4. DraftInv'
  BY <1>a, <1>b, <1>c, ActorSets DEF IInv, TypeOK, DraftInv, Valid
<1>5. SyncedHasCard'
  BY <1>a DEF IInv, SyncedHasCard
<1>6. PendingIsRaw'
  BY <1>a DEF IInv, PendingIsRaw
<1>7. DroppedHasTwin'
  BY <1>a DEF IInv, DroppedHasTwin
<1>8. KeyInv'
  <2>1. UNCHANGED <<row, owner, target, loaded>> /\ x \notin Approvers
    BY <1>a, ActorSets DEF Enrich, Goto
  <2> QED BY <1>a, <1>c, <2>1, KeysUntouched
<1> QED BY <1>1, <1>2, <1>3, <1>4, <1>5, <1>6, <1>7, <1>8 DEF IInv

(* Writing the note appends the card the draft then points to.             *)
LEMMA WriteCardStep == ASSUME IInv, NEW x \in Actors, WriteCard(x) PROVE IInv'
<1>a. /\ pc[x] = "writing" /\ target[x] \in Entries /\ draft[x] \in Row
      /\ draft[x].lemma \in Lemmas
      /\ cards \in Seq(Card) /\ NewCard(x) \in Card
      /\ UNCHANGED <<row, owner, created, target, loaded, audio, strays, failures>>
  <2>1. /\ pc[x] = "writing" /\ target[x] \in Entries /\ draft[x] \in Row
        /\ draft[x].lemma \in Lemmas /\ cards \in Seq(Card)
        /\ UNCHANGED <<row, owner, created, target, loaded, audio, strays, failures>>
    BY DEF WriteCard, Goto, IInv, TypeOK, PlaceInv, DraftInv
  <2> QED BY <2>1 DEF NewCard, Card, Row
<1>b. /\ cards' \in Seq(Card) /\ Len(cards') = Len(cards) + 1
      /\ \A i \in 1..Len(cards) : cards'[i] = cards[i]
      /\ cards'[Len(cards) + 1] = NewCard(x)
      /\ Len(cards) \in Nat
  BY <1>a DEF WriteCard
<1>c. /\ draft' \in [Actors -> Row]
      /\ \A a \in Actors \ {x} : draft'[a] = draft[a]
      /\ draft'[x].lemma \in Lemmas /\ draft'[x].status = "synced"
      /\ draft'[x].lemma = draft[x].lemma
      /\ draft'[x].card = Len(cards) + 1
  <2> DEFINE n == Len(cards) + 1
             new == [draft[x] EXCEPT !.card = n, !.status = "synced"]
  <2>1. n \in Nat /\ "synced" \in Statuses
    BY <1>b DEF Statuses, Decided
  <2>2. draft' = [draft EXCEPT ![x] = new]
    BY DEF WriteCard
  <2> HIDE DEF n
  <2>3. /\ new \in Row
        /\ new.lemma = draft[x].lemma
        /\ new.card = n
        /\ new.status = "synced"
    BY <1>a, <2>1 DEF Row
  <2> HIDE DEF new
  <2>4. /\ draft' \in [Actors -> Row]
        /\ \A a \in Actors \ {x} : draft'[a] = draft[a]
        /\ draft'[x] = new
    BY <2>2, <2>3 DEF IInv, TypeOK
  <2> QED BY <1>a, <2>3, <2>4 DEF n
<1>d. pc' = [pc EXCEPT ![x] = "finishing"]
  BY DEF WriteCard, Goto
<1>e. NewCard(x).entry = target[x]
  BY DEF NewCard
<1>1. TypeOK'
  BY <1>a, <1>b, <1>c, <1>d DEF IInv, TypeOK
<1>2. PlaceInv'
  BY <1>a, <1>d, ActorSets DEF IInv, TypeOK, PlaceInv
<1>3. LockInv'
  BY <1>a DEF IInv, LockInv, Visible
<1>4. DraftInv'
  BY <1>a, <1>b, <1>c, <1>d, <1>e, ActorSets DEF IInv, TypeOK, DraftInv, Valid
<1>5. SyncedHasCard'
  BY <1>a, <1>b DEF IInv, SyncedHasCard
<1>6. PendingIsRaw'
  BY <1>a DEF IInv, PendingIsRaw
<1>7. DroppedHasTwin'
  BY <1>a DEF IInv, DroppedHasTwin
<1>8. KeyInv'
  <2>1. \A e \in Entries : owner'[e] = owner[e] /\ row'[e] = row[e]
    BY <1>a
  <2> QED BY <1>a, <1>c, <2>1, KeyStep
<1> QED BY <1>1, <1>2, <1>3, <1>4, <1>5, <1>6, <1>7, <1>8 DEF IInv

(* Deleting a duplicate releases the row; its twin is decided.             *)
LEMMA DropDuplicateStep ==
    ASSUME IInv, NEW x \in Jobs, DropDuplicate(x)
    PROVE  IInv'
<1>1. TypeOK'
  <2>1. /\ x \in Actors /\ AfterLeaving(x) \in {"idle", "done", "deferred"}
        /\ Leave(x, AfterLeaving(x)) /\ Release(x)
    BY JobFacts DEF DropDuplicate, AfterLeaving
  <2>2. row' \in [Entries -> Row]
    BY JobFacts DEF DropDuplicate, IInv, TypeOK
  <2>3. TypeOK
    BY DEF IInv
  <2> QED BY <2>1, <2>2, <2>3, LeaveType, ReleaseType DEF TypeOK, DropDuplicate
<1>2. PlaceInv'
  BY ActorSets, JobFacts DEF IInv, TypeOK, PlaceInv, DropDuplicate, Leave,
     Release, AfterLeaving
<1>3. LockInv'
  BY ActorSets, RowShapes, JobFacts DEF IInv, TypeOK, LockInv, Visible, PlaceInv,
     DropDuplicate, Leave, Release, AfterLeaving
<1>4. DraftInv'
  BY ActorSets, RowShapes, JobFacts DEF IInv, TypeOK, DraftInv, Valid,
     PlaceInv, LockInv, Decided, DropDuplicate, Leave, Release, AfterLeaving
<1>5. SyncedHasCard'
  BY ActorSets, RowShapes, JobFacts DEF IInv, TypeOK, SyncedHasCard, PlaceInv,
     DraftInv, LockInv, Decided, DropDuplicate, Leave, Release, AfterLeaving
<1>6. PendingIsRaw'
  BY ActorSets, RowShapes, JobFacts DEF IInv, TypeOK, PendingIsRaw, PlaceInv,
     DraftInv, LockInv, Decided, DropDuplicate, Leave, Release, AfterLeaving
<1>7. DroppedHasTwin'
  BY ActorSets, RowShapes, JobFacts DEF IInv, TypeOK, DroppedHasTwin,
     PlaceInv, DraftInv, LockInv, Decided, DropDuplicate, Leave, Release, AfterLeaving
<1>8. KeyInv'
  <2>1. pc[x] \notin {"idle", "done"} /\ Release(x)
    BY DEF DropDuplicate
  <2>2. \A y \in Actors \ {x} : /\ target'[y] = target[y] /\ loaded'[y] = loaded[y]
                                /\ draft'[y] = draft[y]
    BY ActorSets DEF IInv, TypeOK, Leave, DropDuplicate
  <2>3. /\ row' = [row EXCEPT ![target[x]] = draft[x]]
        /\ draft[x].status = "dropped" \/ ~Blocked(target[x], draft[x])
    BY ActorSets DEF DropDuplicate, IInv, DraftInv
  <2> QED BY <2>1, <2>2, <2>3, JobKeys
<1> QED BY <1>1, <1>2, <1>3, <1>4, <1>5, <1>6, <1>7, <1>8 DEF IInv

(* Committing a processed entry publishes its draft and releases the row.  *)
LEMMA CommitEntryStep == ASSUME IInv, NEW x \in Jobs, CommitEntry(x) PROVE IInv'
<1>1. TypeOK'
  <2>1. /\ x \in Actors /\ AfterLeaving(x) \in {"idle", "done", "deferred"}
        /\ Leave(x, AfterLeaving(x)) /\ Release(x)
    BY JobFacts DEF CommitEntry, AfterLeaving
  <2>2. row' \in [Entries -> Row]
    BY JobFacts DEF CommitEntry, IInv, TypeOK
  <2>3. TypeOK
    BY DEF IInv
  <2> QED BY <2>1, <2>2, <2>3, LeaveType, ReleaseType DEF TypeOK, CommitEntry
<1>2. PlaceInv'
  BY ActorSets, JobFacts DEF IInv, TypeOK, PlaceInv, CommitEntry, Leave,
     Release, AfterLeaving
<1>3. LockInv'
  BY ActorSets, RowShapes, JobFacts DEF IInv, TypeOK, LockInv, Visible, PlaceInv,
     CommitEntry, Leave, Release, AfterLeaving
<1>4. DraftInv'
  BY ActorSets, RowShapes, JobFacts DEF IInv, TypeOK, DraftInv, Valid,
     PlaceInv, LockInv, Decided, CommitEntry, Leave, Release, AfterLeaving
<1>5. SyncedHasCard'
  BY ActorSets, RowShapes, JobFacts DEF IInv, TypeOK, PlaceInv, LockInv,
     DraftInv, SyncedHasCard, Valid, CommitEntry, Leave, Release, AfterLeaving
<1>6. PendingIsRaw'
  BY ActorSets, RowShapes, JobFacts DEF IInv, TypeOK, PendingIsRaw, PlaceInv,
     DraftInv, LockInv, Decided, CommitEntry, Leave, Release, AfterLeaving
<1>7. DroppedHasTwin'
  BY ActorSets, RowShapes, JobFacts DEF IInv, TypeOK, DroppedHasTwin,
     PlaceInv, DraftInv, LockInv, Decided, CommitEntry, Leave, Release, AfterLeaving
<1>8. KeyInv'
  <2>1. pc[x] \notin {"idle", "done"} /\ Release(x)
    BY DEF CommitEntry
  <2>2. \A y \in Actors \ {x} : /\ target'[y] = target[y] /\ loaded'[y] = loaded[y]
                                /\ draft'[y] = draft[y]
    BY ActorSets DEF IInv, TypeOK, Leave, CommitEntry
  <2>3. /\ row' = [row EXCEPT ![target[x]] = draft[x]]
        /\ draft[x].status = "dropped" \/ ~Blocked(target[x], draft[x])
    BY ActorSets DEF CommitEntry, IInv, DraftInv
  <2> QED BY <2>1, <2>2, <2>3, JobKeys
<1> QED BY <1>1, <1>2, <1>3, <1>4, <1>5, <1>6, <1>7, <1>8 DEF IInv

(* A unique violation leaves every committed row as it was.                *)
LEMMA UniqueViolationStep ==
    ASSUME IInv, NEW x \in Jobs, UniqueViolation(x)
    PROVE  IInv'
<1>a. /\ x \in Actors /\ target[x] \in Entries /\ pc[x] = "finishing"
      /\ UNCHANGED <<row, created, audio, cards, strays, failures>>
  BY JobFacts DEF UniqueViolation
<1>b. TypeOK /\ PlaceInv /\ LockInv /\ DraftInv
  BY DEF IInv
<1>c. KeyInv'
  <2>1. \A y \in Actors \ {x} : /\ target'[y] = target[y] /\ loaded'[y] = loaded[y]
                                /\ draft'[y] = draft[y]
    BY <1>a, <1>b DEF TypeOK, Leave, Goto, UniqueViolation
  <2>2. UNCHANGED owner \/ Release(x)
    BY DEF UniqueViolation
  <2> QED BY <1>a, <2>1, <2>2, JobKeys
<1>1. CASE x \in Workers
  <2>1. Leave(x, "idle") /\ Release(x)
    BY <1>1 DEF UniqueViolation
  <2>2. TypeOK'
    BY <1>a, <1>b, <2>1, LeaveType, ReleaseType DEF TypeOK
  <2>3. PlaceInv'
    BY <1>a, <1>b, <1>1, <2>1, ActorSets DEF TypeOK, PlaceInv, Leave
  <2>4. LockInv'
    BY <1>a, <1>b, <1>1, <2>1, ActorSets DEF TypeOK, LockInv, Visible, Leave, Release
  <2>5. DraftInv'
    BY <1>a, <1>b, <1>1, <2>1, ActorSets, RowShapes DEF TypeOK, DraftInv,
       Valid, Leave, Decided
  <2> QED BY <1>a, <1>c, <2>2, <2>3, <2>4, <2>5 DEF IInv, SyncedHasCard,
          PendingIsRaw, DroppedHasTwin
<1>2. CASE x \notin Workers
  <2>1. /\ pc' = [pc EXCEPT ![x] = "deferred"]
        /\ draft' = [draft EXCEPT ![x] = Raw]
        /\ UNCHANGED <<owner, target, loaded>>
    BY <1>2 DEF UniqueViolation, Goto
  <2>2. TypeOK'
    BY <1>a, <1>b, <2>1, RowShapes DEF TypeOK
  <2>3. PlaceInv'
    BY <1>a, <1>b, <1>2, <2>1, ActorSets, JobFacts DEF TypeOK, PlaceInv
  <2>4. LockInv'
    BY <1>a, <1>b, <2>1 DEF LockInv, Visible
  <2>5. DraftInv'
    BY <1>a, <1>b, <1>2, <2>1, ActorSets, RowShapes DEF TypeOK, DraftInv, Valid
  <2> QED BY <1>a, <1>c, <2>2, <2>3, <2>4, <2>5 DEF IInv, SyncedHasCard,
          PendingIsRaw, DroppedHasTwin
<1> QED BY <1>1, <1>2

(* The fallback commit publishes a raw row.                                *)
LEMMA CommitRawStep == ASSUME IInv, NEW x \in Adders, CommitRaw(x) PROVE IInv'
<1>1. TypeOK'
  BY ActorSets, RowShapes DEF IInv, TypeOK, CommitRaw, Leave
<1>2. PlaceInv'
  BY ActorSets DEF IInv, TypeOK, PlaceInv, CommitRaw, Leave
<1>3. LockInv'
  <2>1. /\ x \in Entries /\ x \in Actors /\ x \notin Workers /\ owner[x] = Nobody
        /\ UNCHANGED owner
    BY ActorSets, JobFacts DEF CommitRaw, Jobs
  <2>2. /\ \A e \in Entries \ {x} : row'[e] = row[e]
        /\ \A a \in Actors \ {x} : target'[a] = target[a]
    BY <2>1 DEF IInv, TypeOK, CommitRaw, Leave
  <2>3. \A e \in Entries : owner[e] # Nobody => e # x /\ owner[e] # x /\ owner[e] \in Actors
    BY <2>1, HolderFacts, ActorSets
  <2>4. \A w \in Workers : w # x /\ w \in Actors
    BY <2>1, ActorSets
  <2>5. LockInv
    BY DEF IInv
  <2> QED BY <2>1, <2>2, <2>3, <2>4, <2>5 DEF LockInv, Visible
<1>4. DraftInv'
  BY ActorSets, RowShapes DEF IInv, TypeOK, DraftInv, Valid, PlaceInv,
     LockInv, Decided, CommitRaw, Leave
<1>5. SyncedHasCard'
  BY ActorSets, RowShapes DEF IInv, TypeOK, SyncedHasCard, PlaceInv, DraftInv,
     LockInv, Decided, CommitRaw, Leave
<1>6. PendingIsRaw'
  BY ActorSets, RowShapes DEF IInv, TypeOK, PendingIsRaw, PlaceInv, DraftInv,
     LockInv, Decided, CommitRaw, Leave
<1>7. DroppedHasTwin'
  BY ActorSets, RowShapes DEF IInv, TypeOK, DroppedHasTwin, PlaceInv,
     DraftInv, LockInv, Decided, CommitRaw, Leave
<1>8. KeyInv'
  <2>1. x \in Jobs /\ pc[x] = "deferred" /\ target[x] = x /\ draft[x].lemma = NoLemma
    BY ActorSets, RowShapes, JobFacts DEF CommitRaw, Jobs, IInv, DraftInv
  <2>2. \A y \in Actors \ {x} : /\ target'[y] = target[y] /\ loaded'[y] = loaded[y]
                                /\ draft'[y] = draft[y]
    BY ActorSets DEF IInv, TypeOK, Leave, CommitRaw
  <2>3. row' = [row EXCEPT ![target[x]] = draft[x]] /\ UNCHANGED owner
    BY <2>1 DEF CommitRaw
  <2> QED BY <2>1, <2>2, <2>3, JobKeys
<1> QED BY <1>1, <1>2, <1>3, <1>4, <1>5, <1>6, <1>7, <1>8 DEF IInv

(* An approve request loads a visible row; its draft has a lemma.          *)
LEMMA LoadForApprovalStep ==
    ASSUME IInv, NEW x \in Approvers, LoadForApproval(x)
    PROVE  IInv'
<1>a. PICK e \in Entries, d \in Row :
          /\ Visible(e)
          /\ pc' = [pc EXCEPT ![x] = "preparing"]
          /\ target' = [target EXCEPT ![x] = e]
          /\ loaded' = [loaded EXCEPT ![x] = row[e]]
          /\ draft' = [draft EXCEPT ![x] = d]
          /\ d.lemma \in Lemmas
  <2>0. PICK e \in Entries : \E l \in (Lemmas \cup {row[e].lemma}) \ {NoLemma} :
          /\ Visible(e)
          /\ Begin(x, e, row[e], "preparing")
          /\ draft' = [draft EXCEPT ![x] = [row[e] EXCEPT !.lemma = l]]
    BY DEF LoadForApproval
  <2>1. PICK l \in (Lemmas \cup {row[e].lemma}) \ {NoLemma} :
          /\ Visible(e)
          /\ Begin(x, e, row[e], "preparing")
          /\ draft' = [draft EXCEPT ![x] = [row[e] EXCEPT !.lemma = l]]
    BY <2>0
  <2> DEFINE r == row[e]
             d == [r EXCEPT !.lemma = l]
  <2>2. r \in Row /\ l \in Lemmas
    BY <2>1 DEF IInv, TypeOK, Row
  <2> HIDE DEF r
  <2>3. d \in Row /\ d.lemma = l
    BY <2>2 DEF Row
  <2>4. draft' = [draft EXCEPT ![x] = d]
    BY <2>1 DEF r
  <2> HIDE DEF d
  <2> QED BY <2>1, <2>2, <2>3, <2>4 DEF Begin
<1>b. /\ x \in Actors /\ pc[x] = "idle"
      /\ UNCHANGED <<row, owner, created, audio, cards, strays, failures>>
  BY ActorSets DEF LoadForApproval
<1>1. TypeOK'
  BY <1>a, <1>b DEF IInv, TypeOK
<1>2. PlaceInv'
  BY <1>a, <1>b, ActorSets DEF IInv, TypeOK, PlaceInv
<1>3. LockInv'
  <2>1. x \notin Workers /\ target[x] = Nobody
    BY <1>b, ActorSets DEF IInv, PlaceInv
  <2>2. \A y \in Actors \ {x} : target'[y] = target[y]
    BY <1>a DEF IInv, TypeOK
  <2>3. \A f \in Entries : owner[f] # Nobody => owner[f] # x /\ owner[f] \in Actors
    BY <2>1, HolderFacts, ActorSets
  <2>4. \A w \in Workers : w # x /\ w \in Actors
    BY <2>1, ActorSets
  <2> QED BY <1>b, <2>2, <2>3, <2>4 DEF IInv, LockInv, Visible
<1>4. DraftInv'
  BY <1>a, <1>b, ActorSets, RowShapes DEF IInv, TypeOK, DraftInv, Valid,
     Decided, Visible
<1>5. SyncedHasCard'
  BY <1>b DEF IInv, SyncedHasCard
<1>6. PendingIsRaw'
  BY <1>b DEF IInv, PendingIsRaw
<1>7. DroppedHasTwin'
  BY <1>b DEF IInv, DroppedHasTwin
<1>8. KeyInv'
  <2>1. target[x] = Nobody
    BY <1>b DEF IInv, PlaceInv
  <2>2. \A f \in Entries : owner[f] # x
    BY <2>1, HolderFacts, ActorSets
  <2>3. \A y \in Actors \ {x} : /\ target'[y] = target[y] /\ loaded'[y] = loaded[y]
                                /\ draft'[y] = draft[y]
    BY <1>a DEF IInv, TypeOK
  <2> QED BY <1>b, <2>2, <2>3, KeyStep
<1> QED BY <1>1, <1>2, <1>3, <1>4, <1>5, <1>6, <1>7, <1>8 DEF IInv

(* Preparing an approval only moves the request on.                        *)
LEMMA PrepareApprovalStep ==
    ASSUME IInv, NEW x \in Approvers, PrepareApproval(x)
    PROVE  IInv'
<1>1. TypeOK'
  BY ActorSets DEF IInv, TypeOK, PrepareApproval, Goto
<1>2. PlaceInv'
  BY ActorSets DEF IInv, TypeOK, PlaceInv, PrepareApproval, Goto
<1>3. LockInv'
  BY ActorSets DEF IInv, LockInv, Visible, PrepareApproval, Goto
<1>4. DraftInv'
  BY ActorSets DEF IInv, TypeOK, DraftInv, Valid, PrepareApproval, Goto
<1>5. SyncedHasCard'
  BY DEF IInv, SyncedHasCard, PrepareApproval
<1>6. PendingIsRaw'
  BY DEF IInv, PendingIsRaw, PrepareApproval
<1>7. DroppedHasTwin'
  BY DEF IInv, DroppedHasTwin, PrepareApproval
<1>8. KeyInv'
  BY ActorSets, KeyStep DEF PrepareApproval, Goto
<1> QED BY <1>1, <1>2, <1>3, <1>4, <1>5, <1>6, <1>7, <1>8 DEF IInv

(* The early flush of an approval takes an unlocked, visible row whose new *)
(* key nobody has, or ends the request.                                    *)
LEMMA BackfillFlushStep ==
    ASSUME IInv, NEW x \in Approvers, BackfillFlush(x)
    PROVE  IInv'
<1>a. PICK g \in Entries : g = target[x]
  BY ActorSets DEF BackfillFlush, IInv, TypeOK, PlaceInv
<1>b. /\ x \in Actors /\ x \in Requests /\ pc[x] = "preparing"
      /\ owner[g] = Nobody /\ ~Blocked(g, Merged(x))
      /\ UNCHANGED <<row, created, audio, cards, strays, failures>>
  BY <1>a, ActorSets DEF BackfillFlush, Requests
<1>c. TypeOK /\ PlaceInv /\ LockInv /\ KeyInv
  BY DEF IInv
<1>1. CASE Leave(x, "done") /\ UNCHANGED owner
  <2>1. Release(x)
    BY <1>a, <1>b, <1>1, NothingHeld
  <2> QED BY <1>b, <1>c, <1>1, <2>1, RequestEnds DEF TypeOK
<1>2. CASE /\ Visible(g) /\ ~Conflict(g, Merged(x))
           /\ owner' = [owner EXCEPT ![g] = x]
           /\ UNCHANGED <<pc, target, loaded, draft>>
  <2>1. TypeOK'
    BY <1>b, <1>c, <1>2 DEF TypeOK
  <2>2. PlaceInv'
    BY <1>b, <1>c, <1>2 DEF PlaceInv
  <2>3. \A e \in Entries : owner'[e] = IF e = g THEN x ELSE owner[e]
    BY <1>c, <1>2 DEF TypeOK
  <2>4. LockInv'
    <3>1. \A w \in Workers : target[w] # Nobody => target[w] \in Entries /\ target[w] # g
      BY <1>a, <1>b, <1>c, ActorSets DEF LockInv, TypeOK
    <3> QED BY <1>a, <1>b, <1>c, <1>2, <2>3, <3>1, ActorSets DEF LockInv, Visible
  <2>5. ASSUME NEW e \in Entries, NEW a \in Approvers, owner'[e] = a
        PROVE  ~Conflict(e, Merged(a)) /\ ~Blocked(e, Merged(a))'
    <3>1. UNCHANGED Merged(a)
      BY <1>b, <1>2 DEF Merged
    <3>2. ASSUME NEW f \in Entries \ {e}, NEW b \in Approvers, owner'[f] = b,
                 NEW k \in {row[f], Merged(b)}, SameKey(k, Merged(a)),
                 Merged(a).lemma # NoLemma
          PROVE  FALSE
      <4>1. CASE e # g /\ f # g
        BY <1>c, <2>3, <2>5, <3>2, <4>1 DEF KeyInv, Blocked, SameKey
      <4>2. CASE e = g
        <5>1. a = x /\ f # g /\ owner[f] = b
          BY <2>3, <2>5, <3>2, <4>2
        <5> QED BY <1>b, <3>2, <4>2, <5>1 DEF Blocked, SameKey
      <4>3. CASE f = g
        <5>1. b = x /\ e # g /\ owner[e] = a
          BY <2>3, <2>5, <3>2, <4>3
        <5>2. CASE k = row[f]
          BY <1>2, <1>c, <3>2, <4>3, <5>1, <5>2 DEF KeyInv, Conflict, SameKey
        <5>3. CASE k = Merged(b)
          BY <1>b, <3>2, <4>3, <5>1, <5>3 DEF Blocked, SameKey
        <5> QED BY <3>2, <5>2, <5>3
      <4> QED BY <4>1, <4>2, <4>3
    <3>3. \A b \in Approvers : UNCHANGED Merged(b)
      BY <1>b, <1>2 DEF Merged
    <3>4. ~Blocked(e, Merged(a))'
      BY <1>b, <3>2, <3>3 DEF Blocked, SameKey
    <3>5. ~Conflict(e, Merged(a))
      BY <1>c, <1>2, <2>3, <2>5 DEF KeyInv
    <3> QED BY <3>4, <3>5
  <2>6. KeyInv'
    <3>1. \A b \in Approvers : UNCHANGED Merged(b)
      BY <1>b, <1>2 DEF Merged
    <3>2. \A e \in Entries, a \in Approvers :
              ~Conflict(e, Merged(a)) => ~Conflict(e, Merged(a))'
      BY <1>b, <3>1 DEF Conflict, Visible
    <3> QED BY <2>5, <3>2 DEF KeyInv
  <2>7. DraftInv'
    BY <1>b, <1>2 DEF IInv, DraftInv, Valid
  <2> QED BY <1>b, <2>1, <2>2, <2>4, <2>6, <2>7
          DEF IInv, SyncedHasCard, PendingIsRaw, DroppedHasTwin
<1> QED BY <1>a, <1>1, <1>2 DEF BackfillFlush

(* An approval that finds no audio file changes no row.                    *)
LEMMA ApprovalWithoutAudioStep ==
    ASSUME IInv, NEW x \in Approvers, ApprovalWithoutAudio(x)
    PROVE  IInv'
<1>1. /\ x \in Requests /\ target[x] \in Entries /\ row \in [Entries -> Row]
      /\ Leave(x, "done") /\ Release(x)
      /\ UNCHANGED <<row, created, audio, cards, strays, failures>>
  BY ActorSets DEF ApprovalWithoutAudio, IInv, TypeOK, PlaceInv, Requests
<1> QED BY <1>1, RequestEnds

(* An approval turns a visible row nobody else has locked into a decided   *)
(* one with the card it wrote.                                             *)
LEMMA CommitApprovalStep ==
    ASSUME IInv, NEW x \in Approvers, CommitApproval(x)
    PROVE  IInv'
<1>a. PICK g \in Entries : g = target[x]
  BY ActorSets DEF CommitApproval, IInv, TypeOK, PlaceInv
<1>1. /\ x \in Requests /\ x \in Actors
      /\ row \in [Entries -> Row]
      /\ owner[g] \in {Nobody, x} /\ ~Blocked(g, Merged(x))
      /\ draft[x].status = "synced" /\ Valid(g, draft[x].card)
      /\ loaded[x].status \in Decided => row[g].status \in Decided
  BY <1>a, ActorSets DEF CommitApproval, IInv, TypeOK, PlaceInv, DraftInv, Requests
<1>2. /\ Leave(x, "done") /\ Release(x)
      /\ UNCHANGED <<created, audio, cards, strays, failures>>
  BY DEF CommitApproval
<1>3. CASE row' = row
  BY <1>1, <1>2, <1>3, RequestEnds
<1>4. CASE Visible(g) /\ row' = [row EXCEPT ![g] = Merged(x)]
  <2>1. /\ Merged(x) \in Row
        /\ Merged(x).card = draft[x].card
        /\ Merged(x).status = Column("synced", loaded[x].status, row[g].status)
    BY <1>a, <1>1, MergedType DEF IInv
  <2>2. Merged(x).status \in Decided
    BY <1>1, <2>1 DEF Column, Decided
  <2> HIDE DEF Merged
  <2>3. /\ row' \in [Entries -> Row]
        /\ \A f \in Entries \ {g} : row'[f] = row[f]
        /\ row'[g] = Merged(x)
        /\ row'[g].status \in Decided
        /\ Valid(g, row'[g].card)
    BY <1>1, <1>4, <2>1, <2>2
  <2>4. ~Blocked(g, row'[g])
    BY <1>1, <2>3
  <2> QED BY <1>1, <1>2, <1>4, <2>3, <2>4, RequestEnds
<1> QED BY <1>a, <1>3, <1>4 DEF CommitApproval

(* A reject request loads a visible row.                                   *)
LEMMA LoadForRejectStep ==
    ASSUME IInv, NEW x \in Rejecters, LoadForReject(x)
    PROVE  IInv'
<1>a. PICK e \in Entries, d \in Row :
          /\ Visible(e)
          /\ pc' = [pc EXCEPT ![x] = "rejecting"]
          /\ target' = [target EXCEPT ![x] = e]
          /\ loaded' = [loaded EXCEPT ![x] = row[e]]
          /\ draft' = [draft EXCEPT ![x] = d]
  <2>1. PICK e \in Entries :
          /\ Visible(e)
          /\ Begin(x, e, row[e], "rejecting")
          /\ draft' = [draft EXCEPT ![x] = [row[e] EXCEPT !.status = "rejected"]]
    BY DEF LoadForReject
  <2> DEFINE r == row[e]
             d == [r EXCEPT !.status = "rejected"]
  <2>2. r \in Row /\ "rejected" \in Statuses
    BY <2>1 DEF IInv, TypeOK, Statuses, Decided
  <2> HIDE DEF r
  <2>3. d \in Row
    BY <2>2 DEF Row
  <2>4. draft' = [draft EXCEPT ![x] = d]
    BY <2>1 DEF r
  <2> HIDE DEF d
  <2> QED BY <2>1, <2>3, <2>4 DEF Begin
<1>b. /\ x \in Actors /\ pc[x] = "idle"
      /\ UNCHANGED <<row, owner, created, audio, cards, strays, failures>>
  BY ActorSets DEF LoadForReject
<1>1. TypeOK'
  BY <1>a, <1>b DEF IInv, TypeOK
<1>2. PlaceInv'
  BY <1>a, <1>b, ActorSets DEF IInv, TypeOK, PlaceInv
<1>3. LockInv'
  BY <1>a, <1>b, ActorSets DEF IInv, TypeOK, LockInv, Visible
<1>4. DraftInv'
  BY <1>a, <1>b, ActorSets, RowShapes DEF IInv, TypeOK, DraftInv, Valid,
     Decided, Visible
<1>5. SyncedHasCard'
  BY <1>b DEF IInv, SyncedHasCard
<1>6. PendingIsRaw'
  BY <1>b DEF IInv, PendingIsRaw
<1>7. DroppedHasTwin'
  BY <1>b DEF IInv, DroppedHasTwin
<1>8. KeyInv'
  <2>1. \A y \in Actors \ {x} : /\ target'[y] = target[y] /\ loaded'[y] = loaded[y]
                                /\ draft'[y] = draft[y]
    BY <1>a DEF IInv, TypeOK
  <2> QED BY <1>b, <2>1, ActorSets, KeysUntouched
<1> QED BY <1>1, <1>2, <1>3, <1>4, <1>5, <1>6, <1>7, <1>8 DEF IInv

(* A rejection changes the status of a visible, unlocked row, or nothing.  *)
LEMMA CommitRejectStep ==
    ASSUME IInv, NEW x \in Rejecters, CommitReject(x)
    PROVE  IInv'
<1>a. PICK g \in Entries : g = target[x]
  BY ActorSets DEF CommitReject, IInv, TypeOK, PlaceInv
<1>1. /\ x \in Requests /\ x \notin Approvers /\ row \in [Entries -> Row]
      /\ Leave(x, "done")
      /\ UNCHANGED <<owner, created, audio, cards, strays, failures>>
  BY ActorSets DEF CommitReject, IInv, TypeOK, Requests
<1>b. Release(x)
  BY <1>a, <1>1, NothingHeld
<1>2. CASE row' = row
  BY <1>1, <1>b, <1>2, RequestEnds
<1>3. CASE /\ owner[g] = Nobody /\ Visible(g)
           /\ row' = [row EXCEPT ![g].status = "rejected"]
  <2> DEFINE r == row[g]
             n == [r EXCEPT !.status = "rejected"]
  <2>1. r \in Row /\ "rejected" \in Statuses /\ "rejected" \in Decided
    BY <1>1 DEF Statuses, Decided
  <2>2. row' = [row EXCEPT ![g] = n]
    BY <1>3
  <2>3. r = row[g]
    OBVIOUS
  <2> HIDE DEF r
  <2>4. n \in Row /\ n.status = "rejected" /\ SameKey(n, r)
    BY <2>1 DEF Row, SameKey
  <2> HIDE DEF n
  <2>5. /\ row' \in [Entries -> Row]
        /\ \A f \in Entries \ {g} : row'[f] = row[f]
        /\ row'[g] = n
    BY <1>1, <2>2, <2>4
  <2> QED BY <1>1, <1>b, <1>3, <2>1, <2>3, <2>4, <2>5, RequestEnds
<1> QED BY <1>a, <1>2, <1>3 DEF CommitReject

(* A failed inline add keeps its raw row and may leave a card write        *)
(* running.                                                                *)
LEMMA DeferStep == ASSUME IInv, NEW x \in Adders, Defer(x) PROVE IInv'
<1>1. TypeOK'
  <2>1. TypeOK /\ failures' \in Nat
    BY DEF IInv, TypeOK, CanFail, Defer
  <2>2. strays' \subseteq Stray
    <3>1. CASE pc[x] = "writing"
      <4>1. /\ x \in Actors /\ target[x] \in Entries /\ draft[x] \in Row
            /\ draft[x].lemma \in Lemmas
        BY <3>1, ActorSets DEF IInv, TypeOK, PlaceInv, DraftInv
      <4>2. NewCard(x) \in Card
        BY <4>1 DEF NewCard, Card, Row
      <4> HIDE DEF NewCard
      <4>3. [actor |-> x, card |-> NewCard(x)] \in Stray
        BY <4>1, <4>2 DEF Stray
      <4> QED BY <2>1, <3>1, <4>3 DEF TypeOK, LeaveStray, Defer
    <3>2. CASE pc[x] # "writing"
      BY <2>1, <3>2 DEF TypeOK, LeaveStray, Defer
    <3> QED BY <3>1, <3>2
  <2> QED BY <2>1, <2>2, ActorSets, RowShapes DEF TypeOK, Defer, Goto
<1>2. PlaceInv'
  BY ActorSets DEF IInv, TypeOK, PlaceInv, Defer, Goto, CanFail, LeaveStray,
     NewCard
<1>3. LockInv'
  BY ActorSets DEF IInv, LockInv, Visible, Defer, Goto, CanFail, LeaveStray, NewCard
<1>4. DraftInv'
  BY ActorSets DEF IInv, TypeOK, DraftInv, Valid, Defer, Goto, CanFail,
     LeaveStray, NewCard
<1>5. SyncedHasCard'
  BY DEF IInv, SyncedHasCard, Defer
<1>6. PendingIsRaw'
  BY DEF IInv, PendingIsRaw, Defer
<1>7. DroppedHasTwin'
  BY DEF IInv, DroppedHasTwin, Defer
<1>8. KeyInv'
  <2>1. x \in Actors /\ x \notin Approvers /\ UNCHANGED <<row, owner, target, loaded>>
    BY ActorSets DEF Defer, Goto
  <2>2. \A y \in Actors \ {x} : draft'[y] = draft[y]
    BY ActorSets DEF IInv, TypeOK, Defer
  <2> QED BY <2>1, <2>2, KeysUntouched
<1> QED BY <1>1, <1>2, <1>3, <1>4, <1>5, <1>6, <1>7, <1>8 DEF IInv

(* A lost transaction changes no committed row and gives its lock back.    *)
LEMMA AbortStep == ASSUME IInv, NEW x \in Actors, Abort(x) PROVE IInv'
<1>1. TypeOK'
  <2>1. TypeOK /\ failures' \in Nat
    BY DEF IInv, TypeOK, CanFail, Abort
  <2>2. strays' \subseteq Stray
    <3>1. CASE pc[x] = "writing"
      <4>1. /\ x \in Actors /\ target[x] \in Entries /\ draft[x] \in Row
            /\ draft[x].lemma \in Lemmas
        BY <3>1, ActorSets DEF IInv, TypeOK, PlaceInv, DraftInv
      <4>2. NewCard(x) \in Card
        BY <4>1 DEF NewCard, Card, Row
      <4> HIDE DEF NewCard
      <4>3. [actor |-> x, card |-> NewCard(x)] \in Stray
        BY <4>1, <4>2 DEF Stray
      <4> QED BY <2>1, <3>1, <4>3 DEF TypeOK, LeaveStray, Abort
    <3>2. CASE pc[x] # "writing"
      BY <2>1, <3>2 DEF TypeOK, LeaveStray, Abort
    <3> QED BY <3>1, <3>2
  <2>3. /\ Leave(x, AfterLeaving(x)) /\ Release(x)
        /\ AfterLeaving(x) \in {"idle", "done", "deferred"}
        /\ UNCHANGED <<row, created, audio, cards>>
    BY DEF Abort, AfterLeaving
  <2> QED BY <2>1, <2>2, <2>3, LeaveType, ReleaseType DEF TypeOK
<1>2. PlaceInv'
  BY ActorSets DEF IInv, TypeOK, PlaceInv, Abort, Leave, Release, CanFail,
     LeaveStray, AfterLeaving, NewCard
<1>3. LockInv'
  BY ActorSets, RowShapes DEF IInv, TypeOK, LockInv, Visible, PlaceInv, Abort, Leave,
     Release, CanFail, LeaveStray, AfterLeaving, NewCard
<1>4. DraftInv'
  BY ActorSets, RowShapes DEF IInv, TypeOK, DraftInv, Valid, PlaceInv,
     LockInv, Decided, Abort, Leave, Release, CanFail, LeaveStray, AfterLeaving, NewCard
<1>5. SyncedHasCard'
  BY DEF IInv, SyncedHasCard, Abort
<1>6. PendingIsRaw'
  BY DEF IInv, PendingIsRaw, Abort
<1>7. DroppedHasTwin'
  BY DEF IInv, DroppedHasTwin, Abort
<1>8. KeyInv'
  <2>1. \A y \in Actors \ {x} : /\ target'[y] = target[y] /\ loaded'[y] = loaded[y]
                                /\ draft'[y] = draft[y]
    BY DEF IInv, TypeOK, Leave, Abort
  <2>2. \A e \in Entries : owner'[e] \in Approvers => owner'[e] = owner[e] /\ owner[e] # x
    BY ActorSets DEF Abort, Release
  <2>3. UNCHANGED row
    BY DEF Abort
  <2> QED BY <2>1, <2>2, <2>3, KeyStep
<1> QED BY <1>1, <1>2, <1>3, <1>4, <1>5, <1>6, <1>7, <1>8 DEF IInv

(* A card written by an abandoned thread disturbs no row.                  *)
LEMMA StrayLandsStep == ASSUME IInv, NEW x \in strays, StrayLands(x) PROVE IInv'
<1>1. TypeOK'
  <2>1. x.card \in Card /\ cards \in Seq(Card) /\ strays' \subseteq Stray
    BY DEF IInv, TypeOK, Stray, StrayLands
  <2>2. cards' \in Seq(Card)
    BY <2>1 DEF StrayLands
  <2> QED BY <2>1, <2>2 DEF IInv, TypeOK, StrayLands
<1>2. PlaceInv'
  BY DEF IInv, TypeOK, PlaceInv, StrayLands
<1>3. LockInv'
  BY DEF IInv, LockInv, Visible, StrayLands
<1>4. DraftInv'
  BY DEF IInv, TypeOK, DraftInv, Valid, StrayLands
<1>5. SyncedHasCard'
  BY DEF IInv, SyncedHasCard, StrayLands
<1>6. PendingIsRaw'
  BY DEF IInv, PendingIsRaw, StrayLands
<1>7. DroppedHasTwin'
  BY DEF IInv, DroppedHasTwin, StrayLands
<1>8. KeyInv'
  <2>1. PICK e \in Actors : e = x.actor
    BY DEF IInv, TypeOK, Stray
  <2> QED BY <2>1, KeyStep DEF StrayLands
<1> QED BY <1>1, <1>2, <1>3, <1>4, <1>5, <1>6, <1>7, <1>8 DEF IInv

(* Every step keeps the inductive invariant.                               *)
LEMMA NextStep == ASSUME IInv, [Next]_vars PROVE IInv'
<1>1. CASE UNCHANGED vars
  <2>1. /\ TypeOK' /\ PlaceInv' /\ LockInv' /\ DraftInv'
        /\ SyncedHasCard' /\ PendingIsRaw' /\ DroppedHasTwin'
    BY <1>1 DEF vars, IInv, TypeOK, PlaceInv, LockInv, DraftInv, Valid, Visible,
       SyncedHasCard, PendingIsRaw, DroppedHasTwin
  <2>2. KeyInv'
    BY <1>1 DEF vars, IInv, KeyInv, Conflict, Blocked, Merged, Visible
  <2> QED BY <2>1, <2>2 DEF IInv
<1>2. ASSUME NEW e \in Adders, Add(e) PROVE IInv'
  BY <1>2, ActorSets, AddEntryStep, TranslateStep, EnrichStep, WriteCardStep,
     DropDuplicateStep, CommitEntryStep, UniqueViolationStep, CommitRawStep
     DEF Add, Process, Jobs
<1>3. ASSUME NEW e \in Adders, Defer(e) PROVE IInv'
  BY <1>3, DeferStep
<1>4. ASSUME NEW S \in SUBSET Imported, ImportEntries(S) PROVE IInv'
  BY <1>4, ImportEntriesStep
<1>5. ASSUME NEW w \in Workers, Work(w) PROVE IInv'
  BY <1>5, ActorSets, ClaimOnePendingStep, TranslateStep, EnrichStep,
     WriteCardStep, DropDuplicateStep, CommitEntryStep, UniqueViolationStep
     DEF Work, Process, Jobs
<1>6. ASSUME NEW a \in Approvers, Approve(a) PROVE IInv'
  BY <1>6, ActorSets, LoadForApprovalStep, BackfillFlushStep, PrepareApprovalStep,
     ApprovalWithoutAudioStep, WriteCardStep, CommitApprovalStep DEF Approve
<1>7. ASSUME NEW a \in Rejecters, Reject(a) PROVE IInv'
  BY <1>7, LoadForRejectStep, CommitRejectStep DEF Reject
<1>8. ASSUME NEW a \in Actors, Abort(a) PROVE IInv'
  BY <1>8, AbortStep
<1>9. ASSUME NEW s \in strays, StrayLands(s) PROVE IInv'
  BY <1>9, StrayLandsStep
<1> QED BY <1>1, <1>2, <1>3, <1>4, <1>5, <1>6, <1>7, <1>8, <1>9 DEF Next

(* IInv holds in every reachable state.                                    *)
THEOREM Invariance == Spec => []IInv
<1>1. Init => IInv
  BY InitIInv
<1>2. IInv /\ [Next]_vars => IInv'
  BY NextStep
<1> QED BY <1>1, <1>2, PTL DEF Spec

(* Every variable keeps its type.                                          *)
THEOREM TypeCorrect == Spec => []TypeOK
<1>1. IInv => TypeOK
  BY DEF IInv
<1> QED BY <1>1, Invariance, PTL

(* A synced row's note exists in Anki and was written for that very entry, *)
(* however adds, workers, approvals and rejections interleave, fail or     *)
(* leave threads behind.                                                   *)
THEOREM SyncedRowsHaveTheirCard == Spec => []SyncedHasCard
<1>1. IInv => SyncedHasCard
  BY DEF IInv
<1> QED BY <1>1, Invariance, PTL

(* A pending row carries nothing of a half-finished attempt.               *)
THEOREM PendingRowsAreRaw == Spec => []PendingIsRaw
<1>1. IInv => PendingIsRaw
  BY DEF IInv
<1> QED BY <1>1, Invariance, PTL

(* The entry a duplicate was dropped for is never itself dropped.          *)
THEOREM TwinsSurvive == Spec => []DroppedHasTwin
<1>1. IInv => DroppedHasTwin
  BY DEF IInv
<1> QED BY <1>1, Invariance, PTL

(* Two workers never process the same row, and a claimed row stays pending *)
(* until its worker's transaction ends.                                    *)
THEOREM ClaimsAreExclusive == Spec => []ClaimIsExclusive
<1>1. IInv => ClaimIsExclusive
  BY ActorSets DEF IInv, TypeOK, PlaceInv, LockInv, ClaimIsExclusive
<1> QED BY <1>1, Invariance, PTL

(* Who holds a row can go on. A worker waits at most for the key of a      *)
(* flushed approval; a flushed approval waits for nobody, its row is still *)
(* there, and the unique constraint cannot refuse it any more, whatever    *)
(* was added, approved or rejected since it flushed. So chains of waiting  *)
(* transactions end, which RequestsAnswered and QueueDrains rely on.       *)
WaitsEnd ==
    \A e \in Entries : owner[e] # Nobody =>
        /\ target[owner[e]] = e
        /\ \/ /\ owner[e] \in Workers
              /\ pc[owner[e]] \in {"translating", "dropping", "enriching", "writing",
                                   "finishing"}
           \/ \E a \in Approvers :
                 /\ owner[e] = a /\ pc[a] \in {"preparing", "writing", "finishing"}
                 /\ Visible(e) /\ ~Conflict(e, Merged(a)) /\ ~Blocked(e, Merged(a))

(* Every holder of a row lock is in the middle of its steps, and one that  *)
(* others may wait for in turn waits for nobody.                           *)
THEOREM HoldersGoOn == Spec => []WaitsEnd
<1>1. ASSUME IInv, NEW e \in Entries, owner[e] # Nobody
      PROVE  /\ target[owner[e]] = e
             /\ \/ /\ owner[e] \in Workers
                   /\ pc[owner[e]] \in {"translating", "dropping", "enriching", "writing",
                                        "finishing"}
                \/ \E a \in Approvers :
                      /\ owner[e] = a /\ pc[a] \in {"preparing", "writing", "finishing"}
                      /\ Visible(e) /\ ~Conflict(e, Merged(a)) /\ ~Blocked(e, Merged(a))
  <2>1. PICK a \in Actors : a = owner[e]
    BY <1>1, HolderFacts
  <2>2. /\ target[a] = e /\ e # Nobody
        /\ a \in Workers \/ a \in Approvers
        /\ a \in Approvers => Visible(e)
    BY <1>1, <2>1, HolderFacts, ActorSets
  <2>3. pc[a] \notin {"idle", "done"}
    BY <1>1, <2>2 DEF IInv, PlaceInv
  <2>4. CASE a \in Workers
    BY <1>1, <2>1, <2>2, <2>3, <2>4 DEF IInv, PlaceInv
  <2>5. CASE a \in Approvers
    <3>1. pc[a] \in {"preparing", "writing", "finishing"}
      BY <1>1, <2>3, <2>5 DEF IInv, PlaceInv
    <3>2. ~Conflict(e, Merged(a)) /\ ~Blocked(e, Merged(a))
      BY <1>1, <2>1, <2>5 DEF IInv, KeyInv
    <3> QED BY <2>1, <2>2, <2>5, <3>1, <3>2
  <2> QED BY <2>2, <2>4, <2>5
<1>2. IInv => WaitsEnd
  BY <1>1 DEF WaitsEnd
<1> QED BY <1>2, Invariance, PTL

(* Only the commit of an approval changes a rejected row.                  *)
LEMMA ReviveStep ==
    ASSUME IInv, [Next]_vars, NEW e \in Entries,
           row[e].status = "rejected", row'[e].status # "rejected"
    PROVE  \E a \in Approvers : pc[a] = "finishing" /\ target[a] = e
<1>1. row'[e] # row[e]
  OBVIOUS
<1>2. row \in [Entries -> Row] /\ row' # row
  BY <1>1 DEF IInv, TypeOK
<1>3. ASSUME NEW j \in Jobs, Process(j) PROVE FALSE
  <2>1. /\ pc[j] \notin {"idle", "done"}
        /\ row' = [row EXCEPT ![target[j]] = draft[j]]
    BY <1>2, <1>3 DEF Process, Translate, Enrich, WriteCard, DropDuplicate,
       CommitEntry, UniqueViolation
  <2>2. row[target[j]].status # "rejected"
    BY <2>1, JobFacts
  <2>3. target[j] # e
    BY <2>2
  <2> QED BY <1>1, <1>2, <2>1, <2>3
<1>4. ASSUME NEW x \in Adders, AddEntry(x) \/ CommitRaw(x) \/ Defer(x) PROVE FALSE
  BY <1>1, <1>2, <1>4, ActorSets DEF AddEntry, CommitRaw, Defer, IInv, PlaceInv
<1>5. ASSUME NEW S \in SUBSET Imported, ImportEntries(S) PROVE FALSE
  BY <1>1, <1>2, <1>5, ActorSets DEF ImportEntries, IInv, PlaceInv
<1>6. ASSUME NEW x \in Rejecters, Reject(x) PROVE FALSE
  <2>1. CASE UNCHANGED row
    BY <1>2, <2>1
  <2>2. CASE row' = [row EXCEPT ![target[x]].status = "rejected"]
    <3>1. CASE target[x] = e
      <4>1. row'[e] = [row[e] EXCEPT !.status = "rejected"]
        BY <1>2, <2>2, <3>1
      <4>2. row[e] \in Row
        BY <1>2
      <4> QED BY <4>1, <4>2 DEF Row
    <3>2. CASE target[x] # e
      BY <1>1, <1>2, <2>2, <3>2
    <3> QED BY <3>1, <3>2
  <2> QED BY <1>6, <2>1, <2>2 DEF Reject, LoadForReject, CommitReject
<1>7. ASSUME NEW a \in Approvers, Approve(a)
      PROVE  pc[a] = "finishing" /\ target[a] = e
  BY <1>1, <1>2, <1>7 DEF Approve, LoadForApproval, BackfillFlush, PrepareApproval,
     ApprovalWithoutAudio, WriteCard, CommitApproval
<1>8. ASSUME NEW w \in Workers, ClaimOnePending(w) PROVE FALSE
  BY <1>2, <1>8 DEF ClaimOnePending
<1>9. ASSUME NEW x \in Actors, Abort(x) PROVE FALSE
  BY <1>2, <1>9 DEF Abort
<1>10. ASSUME NEW s \in strays, StrayLands(s) PROVE FALSE
  BY <1>2, <1>10 DEF StrayLands
<1>11. ~UNCHANGED vars
  BY <1>2 DEF vars
<1> QED BY <1>3, <1>4, <1>5, <1>6, <1>7, <1>8, <1>9, <1>10, <1>11
        DEF Next, Add, Work, Jobs

(* A rejected word comes back only through an approve request: no worker   *)
(* overwrites a rejection.                                                 *)
THEOREM RejectionsStick == Spec => OnlyApprovalUndoesRejection
<1>1. IInv /\ [Next]_vars =>
        [\A e \in Entries :
           row[e].status = "rejected" /\ row'[e].status # "rejected"
             => \E a \in Approvers : pc[a] = "finishing" /\ target[a] = e]_vars
  BY ReviveStep
<1> QED BY <1>1, Invariance, PTL DEF Spec, OnlyApprovalUndoesRejection

-----------------------------------------------------------------------------
(* Where the cards are of a run nothing has disturbed so far.              *)
Undisturbed == failures = 0 /\ \A a \in Approvers : pc[a] = "idle"

(* What OrphansLostARace says of card i.                                   *)
Owned(i) == row[cards[i].entry].card = i
Carried(a, i) == target[a] = cards[i].entry /\ draft[a].card = i
Repeated(i) == \E f \in Entries \ {cards[i].entry} :
                  /\ Visible(f)
                  /\ row[f].lemma = cards[i].lemma /\ row[f].sense = cards[i].sense
Accounted(i) == Owned(i) \/ (\E a \in Actors : Carried(a, i)) \/ Repeated(i)

(* No abandoned thread; a row not yet inserted has no card; a job's card   *)
(* is the last thing it made; what a reject loaded is still in the row.    *)
JobCardInv == \A j \in Jobs :
                 draft[j].card # 0 => /\ pc[j] = "finishing"
                                      /\ draft[j].card \in 1..Len(cards)
                                      /\ cards[draft[j].card] = NewCard(j)
RejectCardInv == \A a \in Rejecters :
                    target[a] \in Entries /\ draft[a].card # 0
                      => row[target[a]].card = draft[a].card
OrphanInv ==
    Undisturbed => /\ strays = {}
                   /\ \A e \in Entries : row[e].status = "absent" => row[e].card = 0
                   /\ JobCardInv
                   /\ RejectCardInv
                   /\ \A i \in 1..Len(cards) : Accounted(i)
(* Nothing becomes undisturbed again: failures are counted and an approval *)
(* that has begun never returns to idle.                                   *)
LEMMA UndisturbedBefore ==
    ASSUME IInv, [Next]_vars, Undisturbed' PROVE Undisturbed
<1>1. /\ TypeOK /\ failures \in Nat /\ failures' = 0
      /\ \A a \in Approvers : pc'[a] = "idle"
      /\ \A a \in Approvers : /\ a \in Actors /\ a \notin Entries
                              /\ a \notin Workers /\ a \notin Rejecters
  BY ActorSets DEF IInv, TypeOK, Undisturbed
<1>2. ~CanFail
  BY <1>1 DEF CanFail
<1>3. CASE UNCHANGED vars
  BY <1>3 DEF vars, Undisturbed
<1>4. CASE /\ failures' = failures
           /\ \A a \in Approvers : pc'[a] = "idle" => pc[a] = "idle"
  BY <1>1, <1>4 DEF Undisturbed
<1>5. ASSUME NEW j \in Jobs, Process(j) PROVE Undisturbed
  <2>1. j \in Actors /\ \A a \in Approvers : a # j
    BY <1>1, ActorSets
  <2>2. (\E p : Goto(j, p) \/ Leave(j, p)) /\ failures' = failures
    <3>1. CASE Translate(j)
      BY <3>1 DEF Translate
    <3>2. CASE Enrich(j) \/ WriteCard(j)
      BY <3>2 DEF Enrich, WriteCard
    <3>3. CASE DropDuplicate(j) \/ CommitEntry(j) \/ UniqueViolation(j)
      BY <3>3 DEF DropDuplicate, CommitEntry, UniqueViolation
    <3> QED BY <1>5, <3>1, <3>2, <3>3 DEF Process
  <2>3. \E p : pc' = [pc EXCEPT ![j] = p]
    BY <2>2 DEF Goto, Leave
  <2>4. \A a \in Approvers : pc'[a] = pc[a]
    BY <1>1, <2>1, <2>3 DEF TypeOK
  <2> QED BY <1>4, <2>2, <2>4
<1>6. ASSUME NEW e \in Adders, Add(e) \/ Defer(e) PROVE Undisturbed
  BY <1>1, <1>2, <1>4, <1>5, <1>6, ActorSets DEF Add, AddEntry, CommitRaw,
     Begin, Leave, Defer, TypeOK, Jobs
<1>7. ASSUME NEW S \in SUBSET Imported, ImportEntries(S) PROVE Undisturbed
  BY <1>1, <1>4, <1>7, ActorSets DEF ImportEntries, TypeOK
<1>8. ASSUME NEW w \in Workers, Work(w) PROVE Undisturbed
  BY <1>1, <1>4, <1>5, <1>8, ActorSets DEF Work, ClaimOnePending, Begin,
     TypeOK, Jobs
<1>9. ASSUME NEW a \in Approvers, Approve(a) PROVE FALSE
  BY <1>1, <1>9 DEF Approve, LoadForApproval, BackfillFlush, PrepareApproval,
     ApprovalWithoutAudio, WriteCard, CommitApproval, Begin, Goto, Leave, TypeOK
<1>10. ASSUME NEW x \in Rejecters, Reject(x) PROVE Undisturbed
  BY <1>1, <1>4, <1>10, ActorSets DEF Reject, LoadForReject, CommitReject,
     Begin, Leave, TypeOK
<1>11. ASSUME NEW x \in Actors, Abort(x) PROVE FALSE
  BY <1>2, <1>11 DEF Abort
<1>12. ASSUME NEW s \in strays, StrayLands(s) PROVE Undisturbed
  BY <1>1, <1>4, <1>12 DEF StrayLands
<1> QED BY <1>3, <1>5, <1>6, <1>7, <1>8, <1>9, <1>10, <1>11, <1>12, ActorSets
        DEF Next, Jobs

(* A row that is pending or not inserted yet has neither card nor lemma;   *)
(* of every other row these columns are kept, and it stays visible.        *)
Blank(f) == row[f].status \in {"absent", "pending"}
Keeps(f) == /\ row'[f].card = row[f].card
            /\ row'[f].lemma = row[f].lemma /\ row'[f].sense = row[f].sense
            /\ row[f].status = "absent" => row'[f].status = "absent"
            /\ Visible(f) => row'[f].status \in Decided \cup {"pending"}

(* While that is so, a card stays accounted for unless the actor that      *)
(* carries it lays it down.                                                *)
LEMMA AccountedStays ==
    ASSUME IInv, OrphanInv, Undisturbed, NEW i \in 1..Len(cards),
           cards'[i] = cards[i],
           \A f \in Entries : Blank(f) \/ Keeps(f),
           \A a \in Actors : Carried(a, i) => Accounted(i)'
    PROVE  Accounted(i)'
<1>1. /\ Accounted(i) /\ i \in Nat /\ i # 0
      /\ cards[i].entry \in Entries /\ cards[i].lemma \in Lemmas
  <2>1. cards[i] \in Card
    BY DEF IInv, TypeOK
  <2> QED BY <2>1 DEF OrphanInv, Card
<1>2. \A f \in Entries :
         Blank(f) => row[f].card = 0 /\ (Visible(f) => row[f].lemma = NoLemma)
  BY DEF Blank, Visible, Decided, OrphanInv, IInv, PendingIsRaw, Raw
<1>3. CASE Owned(i)
  BY <1>1, <1>2, <1>3 DEF Owned, Accounted, Keeps
<1>4. CASE Repeated(i)
  <2>1. PICK f \in Entries \ {cards[i].entry} :
            /\ Visible(f)
            /\ row[f].lemma = cards[i].lemma /\ row[f].sense = cards[i].sense
    BY <1>4 DEF Repeated
  <2>2. Keeps(f)
    BY <1>1, <1>2, <2>1
  <2>3. Repeated(i)'
    BY <2>1, <2>2 DEF Repeated, Keeps, Visible
  <2> QED BY <2>3 DEF Accounted
<1>5. CASE \E a \in Actors : Carried(a, i)
  BY <1>5
<1> QED BY <1>1, <1>3, <1>4, <1>5 DEF Accounted

(* A job that has written no card neither carries nor owns one.            *)
LEMMA EmptyHands ==
    ASSUME IInv, OrphanInv, Undisturbed, NEW i \in 1..Len(cards), NEW x \in Actors,
           \/ x \in Jobs /\ pc[x] # "finishing"
           \/ pc[x] = "idle"
    PROVE  ~Carried(x, i)
<1>1. cards[i].entry \in Entries /\ cards[i].entry # Nobody
  <2>1. cards[i] \in Card
    BY DEF IInv, TypeOK
  <2> QED BY <2>1, ActorSets DEF Card
<1>2. CASE pc[x] = "idle"
  BY <1>1, <1>2 DEF Carried, IInv, PlaceInv
<1>3. CASE x \in Jobs /\ pc[x] # "finishing"
  BY <1>3 DEF OrphanInv, JobCardInv, Carried
<1> QED BY <1>2, <1>3

(* An actor that only moves its own session leaves what the others carry.  *)
LEMMA OthersCarry ==
    ASSUME TypeOK, NEW i, NEW x \in Actors, NEW y \in Actors \ {x}, cards'[i] = cards[i],
           target'[y] = target[y], draft'[y] = draft[y], Carried(y, i)
    PROVE  Accounted(i)'
  BY DEF Carried, Accounted

(* The invariant after a step of one session that leaves cards, committed  *)
(* rows other than blank ones and the other sessions alone.                *)
LEMMA SessionStep ==
    ASSUME IInv, OrphanInv, Undisturbed, NEW x \in Actors,
           UNCHANGED <<cards, strays>>,
           \A f \in Entries : Blank(f) \/ Keeps(f),
           \A f \in Entries : row'[f].status = "absent" => row'[f].card = 0,
           \A y \in Actors \ {x} : /\ target'[y] = target[y] /\ draft'[y] = draft[y]
                                   /\ y \in Jobs => pc'[y] = pc[y],
           x \in Jobs => draft'[x].card = 0,
           x \in Rejecters /\ target'[x] \in Entries /\ draft'[x].card # 0
               => row'[target'[x]].card = draft'[x].card,
           \A i \in 1..Len(cards) : Carried(x, i) => Accounted(i)'
    PROVE  OrphanInv'
<1>1. strays' = {}
  BY DEF OrphanInv
<1>2. JobCardInv'
  <2>1. SUFFICES ASSUME NEW j \in Jobs, draft'[j].card # 0
                 PROVE  /\ pc'[j] = "finishing"
                        /\ draft'[j].card \in 1..Len(cards')
                        /\ cards'[draft'[j].card] = NewCard(j)'
    BY DEF JobCardInv
  <2>2. /\ j \in Actors /\ draft'[j] = draft[j] /\ target'[j] = target[j]
        /\ pc'[j] = pc[j]
    BY <2>1, ActorSets
  <2> QED BY <2>1, <2>2 DEF OrphanInv, JobCardInv, NewCard
<1>3. RejectCardInv'
  <2>1. SUFFICES ASSUME NEW a \in Rejecters, target'[a] \in Entries,
                        draft'[a].card # 0, a # x
                 PROVE  row'[target'[a]].card = draft'[a].card
    BY DEF RejectCardInv
  <2>2. target'[a] = target[a] /\ draft'[a] = draft[a]
    BY <2>1, ActorSets
  <2>3. row[target[a]].card = draft[a].card /\ row[target[a]].card # 0
    BY <2>1, <2>2 DEF OrphanInv, RejectCardInv
  <2>4. ~Blank(target[a])
    BY <2>1, <2>2, <2>3 DEF Blank, OrphanInv, IInv, PendingIsRaw, Raw
  <2> QED BY <2>1, <2>2, <2>3, <2>4 DEF Keeps
<1>4. ASSUME NEW i \in 1..Len(cards) PROVE Accounted(i)'
  BY AccountedStays, OthersCarry DEF IInv
<1> QED BY <1>1, <1>2, <1>3, <1>4 DEF OrphanInv

(* Rows a step leaves as they are keep what is said of them.               *)
LEMMA RowsKept ==
    ASSUME OrphanInv, Undisturbed, UNCHANGED row
    PROVE  /\ \A f \in Entries : Keeps(f)
           /\ \A f \in Entries : row'[f].status = "absent" => row'[f].card = 0
  BY DEF Keeps, Visible, OrphanInv

(* One pending or absent row is overwritten; the others are kept.          *)
LEMMA BlankRowWritten ==
    ASSUME IInv, OrphanInv, Undisturbed, NEW e \in Entries, NEW r \in Row,
           Blank(e), r.status # "absent", row' = [row EXCEPT ![e] = r]
    PROVE  /\ \A f \in Entries : Blank(f) \/ Keeps(f)
           /\ \A f \in Entries : row'[f].status = "absent" => row'[f].card = 0
<1>1. row \in [Entries -> Row]
  BY DEF IInv, TypeOK
<1>2. row'[e] = r /\ \A f \in Entries \ {e} : row'[f] = row[f]
  BY <1>1
<1> QED BY <1>2 DEF Keeps, Visible, OrphanInv

(* A job moves on with, or closes its session to, something that has no    *)
(* card.                                                                   *)
LEMMA JobMoves ==
    ASSUME IInv, OrphanInv, Undisturbed, NEW x \in Jobs,
           UNCHANGED <<cards, strays>>,
           \A f \in Entries : Blank(f) \/ Keeps(f),
           \A f \in Entries : row'[f].status = "absent" => row'[f].card = 0,
           NEW d, NEW p, NEW t, d.card = 0,
           draft' = [draft EXCEPT ![x] = d],
           pc' = [pc EXCEPT ![x] = p],
           target' = [target EXCEPT ![x] = t],
           \A i \in 1..Len(cards) : Carried(x, i) => Accounted(i)'
    PROVE  OrphanInv'
<1>1. x \in Actors /\ x \notin Rejecters
  BY ActorSets
<1>2. /\ draft'[x] = d
      /\ \A y \in Actors \ {x} : /\ target'[y] = target[y] /\ draft'[y] = draft[y]
                                 /\ pc'[y] = pc[y]
  BY <1>1 DEF IInv, TypeOK
<1> QED BY <1>1, <1>2, SessionStep

(* The same for a step that changes no row, of a job without a card.       *)
LEMMA EarlyStep ==
    ASSUME IInv, OrphanInv, Undisturbed, NEW x \in Jobs, pc[x] # "finishing",
           UNCHANGED <<row, cards, strays>>,
           NEW d, NEW p, NEW t, d.card = 0,
           draft' = [draft EXCEPT ![x] = d],
           pc' = [pc EXCEPT ![x] = p],
           target' = [target EXCEPT ![x] = t]
    PROVE  OrphanInv'
<1>1. \A i \in 1..Len(cards) : ~Carried(x, i)
  BY EmptyHands, ActorSets
<1> QED BY <1>1, RowsKept, JobMoves

(* A job without a card: what it has drafted has none.                     *)
LEMMA DraftsWithoutCard ==
    ASSUME IInv, OrphanInv, Undisturbed, NEW x \in Jobs, pc[x] # "finishing"
    PROVE  draft[x] \in Row /\ draft[x].card = 0
<1>1. draft[x] \in Row
  BY ActorSets DEF IInv, TypeOK
<1>2. draft[x].card # 0 => pc[x] = "finishing"
  BY DEF OrphanInv, JobCardInv
<1> QED BY <1>1, <1>2

(* The steps of process_entry, one by one: before the card is written ...  *)
LEMMA TranslateAccounted ==
    ASSUME IInv, OrphanInv, Undisturbed, NEW x \in Jobs, Translate(x)
    PROVE  OrphanInv'
<1>1. /\ pc[x] = "translating" /\ x \in Actors
      /\ UNCHANGED <<row, cards, strays>>
      /\ target = [target EXCEPT ![x] = target[x]]
  BY ActorSets DEF Translate, IInv, TypeOK
<1>2. draft[x] \in Row /\ draft[x].card = 0
  BY <1>1, DraftsWithoutCard
<1>3. PICK l \in Lemmas, s \in Senses : \E f \in FindDuplicate(target[x], l, s) :
          IF f = Nobody
          THEN /\ draft' = [draft EXCEPT ![x] = [@ EXCEPT !.lemma = l, !.sense = s]]
               /\ Goto(x, "enriching")
          ELSE /\ draft' = [draft EXCEPT ![x] = Dropped(f)]
               /\ Goto(x, "dropping")
  BY Zenon DEF Translate
<1>4. CASE \E f : draft' = [draft EXCEPT ![x] = Dropped(f)] /\ Goto(x, "dropping")
  <2>1. PICK f : draft' = [draft EXCEPT ![x] = Dropped(f)] /\ Goto(x, "dropping")
    BY <1>4
  <2>2. Dropped(f).card = 0
    BY DEF Dropped, Raw
  <2> QED BY <1>1, <2>1, <2>2, EarlyStep DEF Goto
<1>5. CASE /\ draft' = [draft EXCEPT ![x] = [@ EXCEPT !.lemma = l, !.sense = s]]
           /\ Goto(x, "enriching")
  <2> DEFINE d == [draft[x] EXCEPT !.lemma = l, !.sense = s]
  <2>1. draft' = [draft EXCEPT ![x] = d]
    BY <1>5
  <2>2. d.card = 0
    BY <1>2 DEF Row
  <2> HIDE DEF d
  <2> QED BY <1>1, <1>5, <2>1, <2>2, EarlyStep DEF Goto
<1> QED BY <1>3, <1>4, <1>5

(* ... while the columns are filled ...                                    *)
LEMMA EnrichAccounted ==
    ASSUME IInv, OrphanInv, Undisturbed, NEW x \in Jobs, Enrich(x)
    PROVE  OrphanInv'
<1>1. /\ pc[x] = "enriching" /\ x \in Actors
      /\ UNCHANGED <<row, cards, strays>>
      /\ target = [target EXCEPT ![x] = target[x]]
  BY ActorSets DEF Enrich, IInv, TypeOK
<1>2. draft[x] \in Row /\ draft[x].card = 0
  BY <1>1, DraftsWithoutCard
<1>3. PICK p :
        /\ Goto(x, p)
        /\ \/ draft' = [draft EXCEPT
                          ![x] = [@ EXCEPT !.voiced = TRUE, !.status = "needs-review"]]
           \/ draft' = [draft EXCEPT ![x].voiced = TRUE]
  BY DEF Enrich
<1>4. \E d : d.card = 0 /\ draft' = [draft EXCEPT ![x] = d]
  <2> DEFINE r == draft[x]
             d == [r EXCEPT !.voiced = TRUE, !.status = "needs-review"]
             c == [r EXCEPT !.voiced = TRUE]
  <2>1. draft' = [draft EXCEPT ![x] = d] \/ draft' = [draft EXCEPT ![x] = c]
    BY <1>3
  <2>2. r \in Row /\ r.card = 0
    BY <1>2
  <2> HIDE DEF r
  <2>3. d.card = 0 /\ c.card = 0
    BY <2>2 DEF Row
  <2> HIDE DEF d, c
  <2> QED BY <2>1, <2>3
<1> QED BY <1>1, <1>3, <1>4, EarlyStep DEF Goto

(* The new card is carried by the job that wrote it.                       *)
LEMMA WriteCardAccounted ==
    ASSUME IInv, OrphanInv, Undisturbed, NEW x \in Jobs, WriteCard(x)
    PROVE  OrphanInv'
<1> DEFINE n == Len(cards) + 1
           d == [draft[x] EXCEPT !.card = n, !.status = "synced"]
<1>1. /\ pc[x] = "writing" /\ x \in Actors /\ x \notin Rejecters
      /\ cards' = Append(cards, NewCard(x))
      /\ draft' = [draft EXCEPT ![x] = d]
      /\ pc' = [pc EXCEPT ![x] = "finishing"]
      /\ UNCHANGED <<row, target, strays>>
  BY ActorSets DEF WriteCard, Goto
<1>2. cards \in Seq(Card) /\ draft \in [Actors -> Row]
  BY DEF IInv, TypeOK
<1>3. /\ Len(cards) \in Nat /\ Len(cards') = n /\ cards'[n] = NewCard(x)
      /\ \A i \in 1..Len(cards) : cards'[i] = cards[i]
  BY <1>1, <1>2
<1>4. /\ d.card = n /\ d.lemma = draft[x].lemma /\ d.sense = draft[x].sense
      /\ draft[x] \in Row
  BY <1>1, <1>2 DEF Row
<1> HIDE DEF d
<1>5. /\ draft'[x] = d /\ pc'[x] = "finishing"
      /\ \A y \in Actors \ {x} : draft'[y] = draft[y] /\ pc'[y] = pc[y]
  BY <1>1, <1>2 DEF IInv, TypeOK
<1>6. JobCardInv'
  <2>1. SUFFICES ASSUME NEW j \in Jobs, draft'[j].card # 0
                 PROVE  /\ pc'[j] = "finishing"
                        /\ draft'[j].card \in 1..Len(cards')
                        /\ cards'[draft'[j].card] = NewCard(j)'
    BY DEF JobCardInv
  <2>2. CASE j = x
    BY <1>1, <1>3, <1>4, <1>5, <2>2 DEF NewCard
  <2>3. CASE j # x
    <3>1. draft'[j] = draft[j] /\ pc'[j] = pc[j] /\ NewCard(j)' = NewCard(j)
      BY <1>1, <1>5, <2>3, ActorSets DEF NewCard
    <3>2. /\ pc[j] = "finishing"
          /\ draft[j].card \in 1..Len(cards) /\ cards[draft[j].card] = NewCard(j)
      BY <2>1, <3>1 DEF OrphanInv, JobCardInv
    <3> QED BY <1>3, <3>1, <3>2
  <2> QED BY <2>2, <2>3
<1>7. RejectCardInv'
  BY <1>1, <1>5, ActorSets DEF OrphanInv, RejectCardInv
<1>8. ASSUME NEW i \in 1..Len(cards') PROVE Accounted(i)'
  <2>1. CASE i = n
    <3>1. Carried(x, i)'
      BY <1>1, <1>3, <1>4, <1>5, <2>1 DEF Carried, NewCard
    <3> QED BY <1>1, <3>1 DEF Accounted
  <2>2. CASE i \in 1..Len(cards)
    <3>1. ~Carried(x, i)
      BY <1>1, <2>2, EmptyHands
    <3>2. \A y \in Actors : Carried(y, i) => Accounted(i)'
      BY <1>1, <1>3, <1>5, <2>2, <3>1, OthersCarry DEF IInv
    <3> QED BY <1>1, <1>3, <2>2, <3>2, RowsKept, AccountedStays
  <2> QED BY <1>3, <2>1, <2>2
<1> QED BY <1>1, <1>6, <1>7, <1>8, RowsKept DEF OrphanInv

(* A job that drops, commits or defers its entry: the row it overwrites is *)
(* still blank, and its card, if it has one, was written for that row.     *)
LEMMA JobFinishes ==
    ASSUME IInv, OrphanInv, Undisturbed, NEW x \in Jobs,
           pc[x] \in {"dropping", "finishing", "deferred"}
    PROVE  /\ x \in Actors /\ target[x] \in Entries /\ Blank(target[x])
           /\ draft[x] \in Row /\ draft[x].status # "absent"
           /\ \A i \in 1..Len(cards) :
                 Carried(x, i) => /\ i # 0 /\ draft[x].card = i
                                  /\ pc[x] = "finishing" /\ cards[i] = NewCard(x)
<1>1. /\ x \in Actors /\ target[x] \in Entries /\ draft[x] \in Row
      /\ row[target[x]].status \in {"pending", "absent"}
  BY JobFacts
<1>2. draft[x].status # "absent"
  BY <1>1, RowShapes DEF IInv, DraftInv
<1>3. ASSUME NEW i \in 1..Len(cards), Carried(x, i)
      PROVE  i # 0 /\ draft[x].card = i /\ pc[x] = "finishing" /\ cards[i] = NewCard(x)
  BY <1>3 DEF Carried, OrphanInv, JobCardInv
<1> QED BY <1>1, <1>2, <1>3 DEF Blank

(* Committing the draft hands a job's card over to the row.                *)
LEMMA CommitAccounted ==
    ASSUME IInv, OrphanInv, Undisturbed, NEW x \in Jobs,
           pc[x] \in {"dropping", "finishing", "deferred"},
           row' = [row EXCEPT ![target[x]] = draft[x]],
           NEW p, Leave(x, p), UNCHANGED <<cards, strays>>
    PROVE  OrphanInv'
<1>1. /\ x \in Actors /\ target[x] \in Entries /\ Blank(target[x])
      /\ draft[x] \in Row /\ draft[x].status # "absent"
      /\ \A i \in 1..Len(cards) : Carried(x, i) => draft[x].card = i
  BY JobFinishes
<1>2. ASSUME NEW i \in 1..Len(cards), Carried(x, i) PROVE Accounted(i)'
  <2>1. row'[target[x]] = draft[x] /\ target[x] = cards[i].entry
    BY <1>1, <1>2 DEF Carried, IInv, TypeOK
  <2> QED BY <1>1, <1>2, <2>1 DEF Accounted, Owned
<1>3. Absent.card = 0
  BY DEF Absent, Raw
<1> QED BY <1>1, <1>2, <1>3, BlankRowWritten, JobMoves DEF Leave

(* A refused row leaves its card to the row of the same meaning that was   *)
(* there first.                                                            *)
LEMMA RefusalAccounted ==
    ASSUME IInv, OrphanInv, Undisturbed, NEW x \in Jobs, UniqueViolation(x)
    PROVE  OrphanInv'
<1>1. /\ pc[x] = "finishing" /\ Conflict(target[x], draft[x])
      /\ UNCHANGED <<row, cards, strays>>
  BY DEF UniqueViolation
<1>2. \E d, p, t : /\ d.card = 0
                   /\ draft' = [draft EXCEPT ![x] = d]
                   /\ pc' = [pc EXCEPT ![x] = p]
                   /\ target' = [target EXCEPT ![x] = t]
  <2>1. Raw.card = 0 /\ Absent.card = 0
    BY DEF Absent, Raw
  <2>2. CASE Leave(x, "idle")
    BY <2>1, <2>2 DEF Leave
  <2>3. CASE Goto(x, "deferred") /\ draft' = [draft EXCEPT ![x] = Raw]
    <3>1. target' = [target EXCEPT ![x] = target[x]]
      BY <2>3, ActorSets DEF Goto, IInv, TypeOK
    <3> QED BY <2>1, <2>3, <3>1 DEF Goto
  <2> QED BY <2>2, <2>3 DEF UniqueViolation
<1>3. ASSUME NEW i \in 1..Len(cards), Carried(x, i) PROVE Accounted(i)'
  <2>1. cards[i] = NewCard(x)
    BY <1>1, <1>3, JobFinishes
  <2>2. Repeated(i)
    BY <1>1, <2>1 DEF Conflict, Repeated, NewCard
  <2>3. Repeated(i)'
    BY <1>1, <2>2 DEF Repeated, Visible
  <2> QED BY <2>3 DEF Accounted
<1> QED BY <1>1, <1>2, <1>3, RowsKept, JobMoves

(* ... and all of them together.                                           *)
LEMMA ProcessAccounted ==
    ASSUME IInv, OrphanInv, Undisturbed, NEW x \in Jobs, Process(x)
    PROVE  OrphanInv'
<1>1. CASE DropDuplicate(x) \/ CommitEntry(x)
  BY <1>1, CommitAccounted DEF DropDuplicate, CommitEntry
<1> QED BY <1>1, TranslateAccounted, EnrichAccounted, WriteCardAccounted,
           RefusalAccounted DEF Process

(* A request that adds a word begins with, and falls back to, the raw row. *)
LEMMA AddAccounted ==
    ASSUME IInv, OrphanInv, Undisturbed, NEW x \in Adders, Add(x)
    PROVE  OrphanInv'
<1>1. x \in Jobs /\ x \in Actors /\ Raw.card = 0
  BY ActorSets DEF Jobs, Raw
<1>2. CASE AddEntry(x)
  BY <1>1, <1>2, EarlyStep DEF AddEntry, Begin
<1>3. CASE CommitRaw(x)
  <2>1. pc[x] = "deferred" /\ target[x] = x
    BY <1>1, <1>3, JobFacts, ActorSets DEF CommitRaw
  <2> QED BY <1>1, <1>3, <2>1, CommitAccounted DEF CommitRaw
<1> QED BY <1>1, <1>2, <1>3, ProcessAccounted DEF Add

(* A worker claims a pending row, which is raw.                            *)
LEMMA WorkAccounted ==
    ASSUME IInv, OrphanInv, Undisturbed, NEW x \in Workers, Work(x)
    PROVE  OrphanInv'
<1>1. x \in Jobs
  BY DEF Jobs
<1>2. CASE ClaimOnePending(x)
  <2>1. PICK e \in Claimable :
            /\ Begin(x, e, row[e], "translating")
            /\ draft' = [draft EXCEPT ![x] = row[e]]
    BY <1>2 DEF ClaimOnePending
  <2>2. row[e].card = 0
    BY <2>1 DEF Claimable, IInv, PendingIsRaw, Raw
  <2>3. pc[x] = "idle" /\ UNCHANGED <<row, cards, strays>>
    BY <1>2 DEF ClaimOnePending
  <2> QED BY <1>1, <2>1, <2>2, <2>3, EarlyStep DEF Begin
<1> QED BY <1>1, <1>2, ProcessAccounted DEF Work

(* A reject keeps the card of its row and so takes none away.              *)
LEMMA RejectAccounted ==
    ASSUME IInv, OrphanInv, Undisturbed, NEW x \in Rejecters, Reject(x)
    PROVE  OrphanInv'
<1>1. /\ x \in Actors /\ x \notin Jobs /\ x \notin Entries
      /\ row \in [Entries -> Row] /\ pc[x] \in {"idle", "rejecting"}
      /\ UNCHANGED <<cards, strays>>
  BY ActorSets DEF Reject, LoadForReject, CommitReject, IInv, TypeOK
<1>2. \A y \in Actors \ {x} : /\ target'[y] = target[y] /\ draft'[y] = draft[y]
                              /\ pc'[y] = pc[y]
  BY <1>1 DEF Reject, LoadForReject, CommitReject, Begin, Leave, IInv, TypeOK
<1>3. CASE LoadForReject(x)
  <2>1. PICK e \in Entries :
            /\ Begin(x, e, row[e], "rejecting")
            /\ draft' = [draft EXCEPT ![x] = [row[e] EXCEPT !.status = "rejected"]]
    BY <1>3 DEF LoadForReject
  <2>2. pc[x] = "idle" /\ UNCHANGED row
    BY <1>3 DEF LoadForReject
  <2>3. /\ target'[x] = e
        /\ draft'[x] = [row[e] EXCEPT !.status = "rejected"]
    BY <1>1, <2>1 DEF Begin, IInv, TypeOK
  <2>4. row[e] \in Row
    BY <1>1
  <2>5. draft'[x].card = row[e].card
    BY <2>3, <2>4 DEF Row
  <2>6. \A i \in 1..Len(cards) : ~Carried(x, i)
    BY <1>1, <2>2, EmptyHands
  <2> QED BY <1>1, <1>2, <2>2, <2>3, <2>5, <2>6, RowsKept, SessionStep
<1>4. CASE CommitReject(x)
  <2> DEFINE e == target[x]
             r == row[e]
  <2>1. pc[x] = "rejecting" /\ e \in Entries /\ Leave(x, "done")
    BY <1>1, <1>4 DEF CommitReject, IInv, TypeOK, PlaceInv
  <2>2. \/ UNCHANGED row
        \/ Visible(e) /\ row' = [row EXCEPT ![e] = [r EXCEPT !.status = "rejected"]]
    BY <1>4 DEF CommitReject
  <2>3. r \in Row
    BY <1>1, <2>1
  <2>4. \A f \in Entries : Keeps(f) /\ (row'[f].status = "absent" => row'[f].card = 0)
    <3>1. CASE UNCHANGED row
      BY <3>1, RowsKept
    <3>2. CASE Visible(e) /\ row' = [row EXCEPT ![e] = [r EXCEPT !.status = "rejected"]]
      <4>1. row'[e] = [r EXCEPT !.status = "rejected"]
        BY <1>1, <2>1, <3>2
      <4>2. \A f \in Entries \ {e} : row'[f] = row[f]
        BY <1>1, <3>2
      <4>3. /\ row'[e].card = r.card /\ row'[e].lemma = r.lemma
            /\ row'[e].sense = r.sense /\ row'[e].status = "rejected"
        BY <2>3, <4>1 DEF Row
      <4>4. row[e].status # "absent"
        BY <3>2 DEF Visible, Decided
      <4> QED BY <4>2, <4>3, <4>4 DEF Keeps, Visible, Decided, OrphanInv
    <3> QED BY <2>2, <3>1, <3>2
  <2>5. target'[x] \notin Entries
    BY <1>1, <2>1 DEF Leave, IInv, TypeOK
  <2>6. ASSUME NEW i \in 1..Len(cards), Carried(x, i) PROVE Accounted(i)'
    <3>1. e = cards[i].entry /\ draft[x].card = i /\ i # 0
      BY <2>6 DEF Carried
    <3>2. row[e].card = i
      BY <2>1, <3>1 DEF OrphanInv, RejectCardInv
    <3>3. row'[cards'[i].entry].card = i
      BY <1>1, <2>1, <2>4, <3>1, <3>2 DEF Keeps
    <3> QED BY <3>3 DEF Accounted, Owned
  <2> QED BY <1>1, <1>2, <2>4, <2>5, <2>6, SessionStep
<1> QED BY <1>3, <1>4 DEF Reject

(* An import inserts rows that were absent.                                *)
LEMMA ImportAccounted ==
    ASSUME IInv, OrphanInv, Undisturbed, NEW S \in SUBSET Imported, ImportEntries(S)
    PROVE  OrphanInv'
<1>1. PICK x \in S : TRUE
  BY DEF ImportEntries
<1>2. /\ x \in Actors /\ x \notin Jobs /\ x \notin Rejecters
      /\ \A e \in S : e \in Imported /\ e \in Entries /\ e \notin Jobs
      /\ UNCHANGED <<target, draft, cards, strays>>
  BY ActorSets DEF ImportEntries, Jobs
<1>3. \A e \in S : pc[e] = "idle" /\ row[e].status = "absent"
  BY <1>2 DEF ImportEntries, IInv, PlaceInv
<1>4. \A f \in Entries : row'[f] = IF f \in S THEN Raw ELSE row[f]
  BY DEF ImportEntries
<1>5. \A f \in Entries : Blank(f) \/ Keeps(f)
  BY <1>3, <1>4 DEF Blank, Keeps, Visible
<1>6. \A f \in Entries : row'[f].status = "absent" => row'[f].card = 0
  BY <1>4, RowShapes DEF OrphanInv
<1>7. \A y \in Jobs : pc'[y] = pc[y]
  BY <1>2, ActorSets DEF ImportEntries
<1>8. \A i \in 1..Len(cards) : ~Carried(x, i)
  BY <1>1, <1>2, <1>3, EmptyHands
<1> QED BY <1>2, <1>5, <1>6, <1>7, <1>8, SessionStep

(* Every step keeps the invariant of undisturbed runs.                     *)
LEMMA OrphanStep == ASSUME IInv, OrphanInv, [Next]_vars PROVE OrphanInv'
<1> SUFFICES ASSUME Undisturbed' PROVE OrphanInv'
  BY DEF OrphanInv
<1>1. Undisturbed
  BY UndisturbedBefore
<1>2. ~CanFail
  BY DEF Undisturbed, CanFail, IInv, TypeOK
<1>3. CASE UNCHANGED vars
  BY <1>1, <1>3 DEF vars, OrphanInv, JobCardInv, RejectCardInv, Accounted, Owned,
     Carried, Repeated, Visible, NewCard
<1>4. ASSUME NEW a \in Approvers, Approve(a) PROVE FALSE
  <2>1. a \in Actors /\ pc[a] = "idle" /\ pc'[a] = "idle"
    BY <1>1, ActorSets DEF Undisturbed
  <2> QED BY <1>4, <2>1 DEF Approve, LoadForApproval, BackfillFlush, PrepareApproval,
     ApprovalWithoutAudio, WriteCard, CommitApproval, Begin, IInv, TypeOK
<1>5. ASSUME NEW s \in strays PROVE FALSE
  BY <1>1 DEF OrphanInv
<1> QED BY <1>1, <1>2, <1>3, <1>4, <1>5, AddAccounted, ImportAccounted,
           WorkAccounted, RejectAccounted DEF Next, Defer, Abort

(* While nothing fails and nobody approves, a card without a row exists    *)
(* only where a row of the very same meaning was committed first: no       *)
(* retry, drop, reject or second worker costs a row its card.              *)
THEOREM OrphansOnlyLoseRaces == Spec => []OrphansLostARace
<1>1. Init => OrphanInv
  BY ActorSets DEF Init, OrphanInv, JobCardInv, RejectCardInv, Absent, Raw
<1>2. IInv /\ OrphanInv /\ [Next]_vars => OrphanInv'
  BY OrphanStep
<1>3. OrphanInv => OrphansLostARace
  BY DEF OrphanInv, OrphansLostARace, Undisturbed, Accounted, Owned, Carried, Repeated
<1> QED BY <1>1, <1>2, <1>3, Invariance, PTL DEF Spec

-----------------------------------------------------------------------------
(* EntryLifecycle implements EntryStatus: with the row's status as status  *)
(* and the entries that have a note in Anki as carded, every step is an    *)
(* abstract step or a stutter.                                             *)
CardedEntries == {e \in Entries : \E i \in 1..Len(cards) : cards[i].entry = e}
StatusOf == [e \in Entries |-> row[e].status]

(* Replacing one row is a change of one status.                            *)
LEMMA StatusUpdate ==
    ASSUME NEW e \in Entries, NEW n, row' = [row EXCEPT ![e] = n],
           row \in [Entries -> Row]
    PROVE  StatusOf' = [StatusOf EXCEPT ![e] = n.status]
  BY DEF StatusOf

(* Writing a note adds its entry to the carded ones.                       *)
LEMMA CardedUpdate ==
    ASSUME NEW c \in Card, cards \in Seq(Card), cards' = Append(cards, c)
    PROVE  CardedEntries' = CardedEntries \cup {c.entry} /\ c.entry \in Entries
<1>1. /\ Len(cards') = Len(cards) + 1 /\ Len(cards) \in Nat
      /\ \A i \in 1..Len(cards) : cards'[i] = cards[i]
      /\ cards'[Len(cards) + 1] = c
  OBVIOUS
<1>2. c.entry \in Entries
  BY DEF Card
<1>3. ASSUME NEW e \in Entries
      PROVE  (\E i \in 1..Len(cards') : cards'[i].entry = e)
               <=> (\E i \in 1..Len(cards) : cards[i].entry = e) \/ e = c.entry
  BY <1>1
<1> QED BY <1>2, <1>3 DEF CardedEntries

(* Every step is a step of EntryStatus on the mapped variables, or leaves  *)
(* them unchanged.                                                         *)
LEMMA StatusStep ==
    ASSUME IInv, [Next]_vars
    PROVE  [Status!Next]_<<StatusOf, CardedEntries>>
<1>1. TypeOK /\ row \in [Entries -> Row] /\ cards \in Seq(Card)
  BY DEF IInv, TypeOK
<1>2. CASE UNCHANGED <<row, cards>>
  BY <1>2 DEF StatusOf, CardedEntries
<1>3. ASSUME NEW c \in Card, cards' = Append(cards, c), UNCHANGED row
      PROVE  Status!Next
  <2>1. CardedEntries' = CardedEntries \cup {c.entry} /\ c.entry \in Entries
    BY <1>1, <1>3, CardedUpdate
  <2>2. UNCHANGED StatusOf
    BY <1>3 DEF StatusOf
  <2> QED BY <2>1, <2>2 DEF Status!Next, Status!WriteCard, StatusOf,
          CardedEntries
<1>4. ASSUME NEW e \in Entries, NEW n \in Row, row' = [row EXCEPT ![e] = n],
             UNCHANGED cards,
             \/ n.status = row[e].status
             \/ row[e].status = "absent" /\ n.status = "pending"
             \/ row[e].status \in {"absent", "pending"} /\ n.status = "needs-review"
             \/ /\ row[e].status \in {"absent", "pending"} /\ n.status = "dropped"
                /\ n.twin \in Entries /\ row[n.twin].status \in Decided
             \/ /\ row[e].status # "dropped" /\ n.status = "synced"
                /\ Valid(e, n.card)
             \/ Visible(e) /\ n.status = "rejected"
      PROVE  [Status!Next]_<<StatusOf, CardedEntries>>
  <2>1. /\ StatusOf' = [StatusOf EXCEPT ![e] = n.status]
        /\ StatusOf[e] = row[e].status
    BY <1>1, <1>4, StatusUpdate DEF StatusOf
  <2>2. UNCHANGED CardedEntries
    BY <1>4 DEF CardedEntries
  <2>3. CASE n.status = row[e].status
    <3>1. StatusOf' = StatusOf
      BY <2>1, <2>3 DEF StatusOf
    <3> QED BY <2>2, <3>1
  <2>4. CASE row[e].status = "absent" /\ n.status = "pending"
    <3>1. Status!Enqueue({e})
      BY <2>1, <2>2, <2>4 DEF Status!Enqueue, StatusOf, CardedEntries
    <3> QED BY <3>1 DEF Status!Next, StatusOf, CardedEntries
  <2>5. CASE row[e].status \in {"absent", "pending"} /\ n.status = "needs-review"
    <3>1. Status!Hold(e)
      BY <2>1, <2>2, <2>5 DEF Status!Hold, StatusOf, CardedEntries
    <3> QED BY <3>1 DEF Status!Next, StatusOf, CardedEntries
  <2>6. CASE /\ row[e].status \in {"absent", "pending"} /\ n.status = "dropped"
             /\ n.twin \in Entries /\ row[n.twin].status \in Decided
    <3>1. n.twin # e /\ StatusOf[n.twin] = row[n.twin].status
      BY <2>6 DEF StatusOf, Decided
    <3>2. Status!Drop(e)
      BY <2>1, <2>2, <2>6, <3>1
         DEF Status!Drop, Status!Decided, Decided, StatusOf, CardedEntries
    <3> QED BY <3>2 DEF Status!Next, StatusOf, CardedEntries
  <2>7. CASE row[e].status # "dropped" /\ n.status = "synced" /\ Valid(e, n.card)
    <3>1. e \in CardedEntries
      BY <2>7 DEF Valid, CardedEntries
    <3>2. Status!Sync(e)
      BY <2>1, <2>2, <2>7, <3>1 DEF Status!Sync, StatusOf, CardedEntries
    <3> QED BY <3>2 DEF Status!Next, StatusOf, CardedEntries
  <2>8. CASE Visible(e) /\ n.status = "rejected"
    <3>1. Status!Reject(e)
      BY <2>1, <2>2, <2>8
         DEF Status!Reject, Status!Decided, Decided, Visible, StatusOf, CardedEntries
    <3> QED BY <3>1 DEF Status!Next, StatusOf, CardedEntries
  <2> QED BY <1>4, <2>3, <2>4, <2>5, <2>6, <2>7, <2>8
<1>5. ASSUME NEW a \in Actors, WriteCard(a)
      PROVE  [Status!Next]_<<StatusOf, CardedEntries>>
  <2>1. target[a] \in Entries /\ draft[a] \in Row /\ draft[a].lemma \in Lemmas
    BY <1>5 DEF WriteCard, IInv, TypeOK, PlaceInv, DraftInv
  <2>2. NewCard(a) \in Card
    BY <2>1 DEF NewCard, Card, Row
  <2> QED BY <1>3, <1>5, <2>2 DEF WriteCard
<1>6. ASSUME NEW s \in strays, StrayLands(s)
      PROVE  [Status!Next]_<<StatusOf, CardedEntries>>
  <2>1. s.card \in Card
    BY <1>1 DEF TypeOK, Stray
  <2> QED BY <1>3, <1>6, <2>1 DEF StrayLands
<1>7. ASSUME NEW S \in SUBSET Imported, ImportEntries(S)
      PROVE  [Status!Next]_<<StatusOf, CardedEntries>>
  <2>1. S \in SUBSET Entries /\ \A e \in S : row[e].status = "absent"
    BY <1>7, ActorSets DEF ImportEntries, IInv, PlaceInv
  <2>2. StatusOf' = [e \in Entries |-> IF e \in S THEN "pending" ELSE StatusOf[e]]
    BY <1>1, <1>7, RowShapes DEF ImportEntries, StatusOf
  <2>3. UNCHANGED CardedEntries
    BY <1>7 DEF ImportEntries, CardedEntries
  <2>4. Status!Enqueue(S)
    BY <2>1, <2>2, <2>3 DEF Status!Enqueue, StatusOf, CardedEntries
  <2> QED BY <2>1, <2>4 DEF Status!Next, StatusOf, CardedEntries
<1>8. ASSUME NEW j \in Jobs, DropDuplicate(j) \/ CommitEntry(j)
      PROVE  [Status!Next]_<<StatusOf, CardedEntries>>
  <2>1. /\ j \in Actors /\ target[j] \in Entries /\ draft[j] \in Row
        /\ row[target[j]].status \in {"absent", "pending"}
        /\ row' = [row EXCEPT ![target[j]] = draft[j]]
        /\ UNCHANGED cards
    BY <1>8, JobFacts DEF DropDuplicate, CommitEntry
  <2>2. CASE pc[j] = "dropping"
    BY <1>4, <2>1, <2>2 DEF IInv, DraftInv
  <2>3. CASE pc[j] = "finishing"
    BY <1>4, <2>1, <2>3 DEF IInv, DraftInv
  <2> QED BY <1>8, <2>2, <2>3 DEF DropDuplicate, CommitEntry
<1>9. ASSUME NEW e \in Adders, CommitRaw(e)
      PROVE  [Status!Next]_<<StatusOf, CardedEntries>>
  <2>1. /\ e \in Entries /\ draft[e] = Raw /\ row[e].status = "absent"
        /\ row' = [row EXCEPT ![e] = Raw]
        /\ UNCHANGED cards
    BY <1>9, ActorSets DEF CommitRaw, IInv, PlaceInv, DraftInv
  <2> QED BY <1>4, <2>1, RowShapes
<1>10. ASSUME NEW a \in Approvers, CommitApproval(a)
       PROVE  [Status!Next]_<<StatusOf, CardedEntries>>
  <2>1. /\ a \in Actors /\ target[a] \in Entries /\ UNCHANGED cards
        /\ draft[a].status = "synced" /\ Valid(target[a], draft[a].card)
    BY <1>10, ActorSets DEF CommitApproval, IInv, TypeOK, PlaceInv, DraftInv
  <2>2. CASE Visible(target[a]) /\ row' = [row EXCEPT ![target[a]] = Merged(a)]
    <3>1. /\ Merged(a) \in Row /\ Merged(a).card = draft[a].card
          /\ Merged(a).status = Column(draft[a].status, loaded[a].status, row[target[a]].status)
      BY <1>1, <2>1, MergedType
    <3>2. Merged(a).status \in {row[target[a]].status, "synced"}
      BY <2>1, <3>1 DEF Column
    <3>3. row[target[a]].status # "dropped"
      BY <2>2 DEF Visible, Decided
    <3> HIDE DEF Merged
    <3> QED BY <1>4, <2>1, <2>2, <3>1, <3>2, <3>3
  <2>3. CASE UNCHANGED row
    BY <1>2, <2>1, <2>3
  <2> QED BY <1>10, <2>2, <2>3 DEF CommitApproval
<1>11. ASSUME NEW a \in Rejecters, CommitReject(a)
       PROVE  [Status!Next]_<<StatusOf, CardedEntries>>
  <2>1. target[a] \in Entries /\ UNCHANGED cards
    BY <1>11, ActorSets DEF CommitReject, IInv, TypeOK, PlaceInv
  <2>2. CASE /\ Visible(target[a])
             /\ row' = [row EXCEPT ![target[a]].status = "rejected"]
    <3> DEFINE r == row[target[a]]
               n == [r EXCEPT !.status = "rejected"]
    <3>1. r \in Row /\ "rejected" \in Statuses
      BY <1>1, <2>1 DEF Statuses, Decided
    <3>2. row' = [row EXCEPT ![target[a]] = n]
      BY <2>2
    <3> HIDE DEF r
    <3>3. n \in Row /\ n.status = "rejected"
      BY <3>1 DEF Row
    <3> HIDE DEF n
    <3> QED BY <1>4, <2>1, <2>2, <3>2, <3>3
  <2>3. CASE UNCHANGED row
    BY <1>2, <2>1, <2>3
  <2> QED BY <1>11, <2>2, <2>3 DEF CommitReject
<1>12. ASSUME NEW x \in Actors,
              \/ AddEntry(x) \/ ClaimOnePending(x) \/ Translate(x) \/ Enrich(x)
              \/ UniqueViolation(x) \/ LoadForApproval(x) \/ BackfillFlush(x)
              \/ PrepareApproval(x) \/ ApprovalWithoutAudio(x) \/ LoadForReject(x)
              \/ Defer(x) \/ Abort(x)
       PROVE  [Status!Next]_<<StatusOf, CardedEntries>>
  <2>1. UNCHANGED <<row, cards>>
    BY <1>12 DEF AddEntry, ClaimOnePending, Translate, Enrich, UniqueViolation,
       LoadForApproval, BackfillFlush, PrepareApproval, ApprovalWithoutAudio, LoadForReject,
       Defer, Abort
  <2> QED BY <1>2, <2>1
<1>13. CASE UNCHANGED vars
  BY <1>2, <1>13 DEF vars
<1>14. /\ \A e \in Adders : e \in Jobs /\ e \in Actors
       /\ \A w \in Workers : w \in Jobs /\ w \in Actors
       /\ \A a \in Approvers \cup Rejecters : a \in Actors
  BY ActorSets DEF Jobs
<1> QED BY <1>5, <1>6, <1>7, <1>8, <1>9, <1>10, <1>11, <1>12, <1>13, <1>14
        DEF Next, Add, Work, Process, Approve, Reject

(* The system with its transactions, locks, retries and stray writes keeps *)
(* the promise EntryStatus states: no entry leaves `dropped' or returns to *)
(* `pending', and none is called synced before its card is in Anki.        *)
THEOREM ImplementsEntryStatus == Spec => StatusSpec
<1>1. Init => Status!Init
  <2>1. ASSUME Init
        PROVE  StatusOf = [e \in Entries |-> "absent"] /\ CardedEntries = {}
    BY <2>1, RowShapes DEF Init, StatusOf, CardedEntries
  <2> QED BY <2>1 DEF Status!Init, StatusOf, CardedEntries
<1>2. IInv /\ [Next]_vars => [Status!Next]_<<StatusOf, CardedEntries>>
  BY StatusStep
<1> QED BY <1>1, <1>2, Invariance, PTL
        DEF Spec, StatusSpec, Status!Spec, StatusOf, CardedEntries
=============================================================================
