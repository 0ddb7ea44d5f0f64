---------------------------- MODULE AnkiSyncProofs ----------------------------
(***************************************************************************)
(* The safety of AnkiSync for any number of calls, cancellations, faults   *)
(* and schema changes: one lemma per action shows that IInv is kept, and   *)
(* the invariants and the step property of the runs follow.                *)
(***************************************************************************)
EXTENDS AnkiSync, TLAPS

USE AnkiSyncAssumption

(* Nothing goes wrong before anything happened.                            *)
LEMMA InitIInv == Init => IInv
<1> SUFFICES ASSUME Init PROVE IInv
  OBVIOUS
<1>1. server \in Collection /\ shadow \in Collection
  <2>1. Fresh(1) \in Collection /\ Fresh(2) \in Collection
    BY DEF Fresh, Collection
  <2>2. ASSUME NEW p \in PhoneItems, NEW o \in BOOLEAN
        PROVE  [items |-> {p}, scm |-> 1, outdated |-> o] \in Collection
    BY DEF Collection, Items
  <2> QED BY <2>1, <2>2 DEF Init
<1>2. TypeOK
  BY <1>1 DEF Init, TypeOK, Fresh, Collection, Incremental
<1>3. \A c \in Calls : c # Nobody /\ pc[c] = "idle" /\ answer[c] = "none"
  BY DEF Init, Calls
<1>4. OpenInv /\ LockInv
  BY <1>3 DEF Init, OpenInv, LockInv, Threads
<1>5. KeptInv /\ SuccessLasts
  BY <1>3 DEF KeptInv, SuccessLasts
<1> QED BY <1>2, <1>4, <1>5 DEF IInv

(* A merge loses nothing of either side.                                   *)
LEMMA MergeKeeps ==
    ASSUME NEW a \in Collection, NEW b \in Collection
    PROVE  /\ Merge(a, b) \in Collection
           /\ a.items \subseteq Merge(a, b).items
           /\ b.items \subseteq Merge(a, b).items
  BY DEF Merge, Collection

(* What a sync requires is one of the five answers of sync_collection, and *)
(* it only ever adds to the server.                                        *)
LEMMA SyncEffect ==
    ASSUME TypeOK, NEW c \in Calls, SyncCollection(c)
    PROVE  /\ server' \in Collection /\ shadow' \in Collection
           /\ required' \in [Calls -> Incremental \cup {"none", "FULL_SYNC",
                                   "FULL_DOWNLOAD", "FULL_UPLOAD"}]
           /\ server.items \subseteq server'.items
           /\ shadow.items \subseteq shadow'.items
           /\ unseen' \subseteq PhoneItems
           /\ required'[c] \in Incremental => server' = shadow'
           /\ \A d \in Calls \ {c} : required'[d] = required[d]
<1> DEFINE v == SyncVerdict(shadow, server)
<1>1. v \in Incremental \cup {"none", "FULL_SYNC", "FULL_DOWNLOAD", "FULL_UPLOAD"}
  BY DEF SyncVerdict, Incremental
<1>2. required' = [required EXCEPT ![c] = v]
  BY DEF SyncCollection
<1> HIDE DEF v
<1>3. required'[c] = v
  BY <1>2 DEF TypeOK
<1>4. CASE v \in Incremental
  <2>1. server' = Merge(server, shadow) /\ shadow' = Merge(server, shadow) /\ unseen' = {}
    BY <1>4 DEF SyncCollection, v
  <2> QED BY <2>1, <1>1, <1>2, MergeKeeps DEF TypeOK
<1>5. CASE v \notin Incremental
  <2>1. UNCHANGED <<server, shadow, unseen>>
    BY <1>5 DEF SyncCollection, v
  <2> QED BY <2>1, <1>1, <1>2, <1>3, <1>5 DEF TypeOK
<1> QED BY <1>4, <1>5

(* A call is not nobody.                                                   *)
LEMMA CallsAreSomebody == \A c \in Calls : c # Nobody
  BY DEF Calls

(* Counters stay numbers.                                                  *)
LEMMA StampGrows ==
    ASSUME TypeOK
    PROVE  stamp + 1 \in Nat /\ schemas + 1 \in Nat /\ faults + 1 \in Nat
<1>1. stamp \in Nat /\ schemas \in Nat /\ faults \in Nat
  BY DEF TypeOK
<1> QED BY <1>1

(* A thread that moves on keeps its hold on the collection and the lock.   *)
LEMMA GotoEffect ==
    ASSUME IInv, NEW c \in Calls, NEW n \in Threads \ {"opening"},
           pc[c] \in Threads \ {"opening"}, Goto(c, n)
    PROVE  /\ pc' \in [Calls -> Threads \cup {"idle", "waiting", "ended"}]
           /\ pc'[c] = n /\ \A d \in Calls \ {c} : pc'[d] = pc[d]
           /\ UNCHANGED <<answer, lock, open, timeouts, faults>>
           /\ Reported' = Reported
           /\ OpenInv' /\ LockInv'
<1>1. /\ pc' = [pc EXCEPT ![c] = n]
      /\ UNCHANGED <<answer, lock, open, timeouts, faults>>
      /\ pc \in [Calls -> Threads \cup {"idle", "waiting", "ended"}]
  BY DEF Goto, IInv, TypeOK
<1>2. pc'[c] = n /\ \A d \in Calls \ {c} : pc'[d] = pc[d]
  BY <1>1
<1>3. OpenInv'
  BY <1>1, <1>2 DEF IInv, OpenInv
<1>4. LockInv'
  BY <1>1, <1>2 DEF IInv, LockInv
<1> QED BY <1>1, <1>2, <1>3, <1>4 DEF Reported

(* The end of a thread closes what it had open, leaves the lock it held    *)
(* and answers only if nobody was told yet.                                *)
LEMMA EndEffect ==
    ASSUME IInv, NEW c \in Calls, NEW r \in {"card id", "error"},
           pc[c] \in Threads, End(c, r), timeouts' = timeouts
    PROVE  /\ pc' \in [Calls -> Threads \cup {"idle", "waiting", "ended"}]
           /\ answer' \in [Calls -> {"none", "card id", "error", "cancelled"}]
           /\ lock' \in Calls \cup {Nobody} /\ open' \in Calls \cup {Nobody}
           /\ pc'[c] = "ended" /\ \A d \in Calls \ {c} : pc'[d] = pc[d]
           /\ Reported' \subseteq Reported \cup {c}
           /\ r = "error" => Reported' \subseteq Reported
           /\ OpenInv' /\ LockInv'
<1>1. /\ pc' = [pc EXCEPT ![c] = "ended"]
      /\ answer' = [answer EXCEPT ![c] = IF @ = "none" THEN r ELSE @]
      /\ open' = IF open = c THEN Nobody ELSE open
      /\ lock' = IF lock = c THEN Nobody ELSE lock
  BY DEF End, Unlock
<1>2. /\ pc \in [Calls -> Threads \cup {"idle", "waiting", "ended"}]
      /\ answer \in [Calls -> {"none", "card id", "error", "cancelled"}]
      /\ lock \in Calls \cup {Nobody} /\ open \in Calls \cup {Nobody}
  BY DEF IInv, TypeOK
<1>3. pc'[c] = "ended" /\ \A d \in Calls \ {c} : pc'[d] = pc[d]
  BY <1>1, <1>2
<1>4. /\ answer' \in [Calls -> {"none", "card id", "error", "cancelled"}]
      /\ answer'[c] = IF answer[c] = "none" THEN r ELSE answer[c]
      /\ \A d \in Calls \ {c} : answer'[d] = answer[d]
  BY <1>1, <1>2
<1>5. OpenInv'
  BY <1>1, <1>3, CallsAreSomebody DEF IInv, OpenInv, Threads
<1>6. LockInv'
  BY <1>1, <1>3, CallsAreSomebody DEF IInv, LockInv, Threads
<1>7. Reported' \subseteq Reported \cup {c} /\ (r = "error" => Reported' \subseteq Reported)
  BY <1>4 DEF Reported
<1>8. pc' \in [Calls -> Threads \cup {"idle", "waiting", "ended"}]
  BY <1>1, <1>2
<1>9. lock' \in Calls \cup {Nobody} /\ open' \in Calls \cup {Nobody}
  BY <1>1, <1>2
<1> QED BY <1>3, <1>4, <1>5, <1>6, <1>7, <1>8, <1>9

(* A step in which no thread comes closer to its push, nobody is told of a *)
(* card and the server loses nothing keeps what was reported.              *)
LEMMA StillStep ==
    ASSUME IInv,
           server.items \subseteq server'.items, shadow' = shadow,
           required' = required, Reported' \subseteq Reported,
           \A d \in Calls : pc'[d] \in {"changing", "pushing", "resolving", "media"}
                               => pc'[d] = pc[d]
    PROVE  KeptInv' /\ SuccessLasts'
<1>1. KeptInv'
  BY DEF IInv, KeptInv
<1>2. SuccessLasts'
  BY DEF IInv, SuccessLasts, Reported
<1> QED BY <1>1, <1>2

(* A step of the thread that has the collection open: the others are not   *)
(* past its opening, so KeptInv says nothing of them.                      *)
LEMMA OwnStep ==
    ASSUME IInv, NEW c \in Calls, pc[c] \in Threads \ {"opening"},
           \A d \in Calls \ {c} : pc'[d] = pc[d],
           pc'[c] \in {"changing", "pushing", "resolving"}
              => Reported' \subseteq shadow'.items,
           pc'[c] \in {"pushing", "resolving"} => c \in shadow'.items,
           pc'[c] = "resolving" /\ required'[c] \in Incremental => c \in server'.items,
           pc'[c] = "media" => c \in server'.items
    PROVE  KeptInv'
<1>1. \A d \in Calls \ {c} : pc[d] \notin Threads \ {"opening"}
  BY DEF IInv, OpenInv
<1>2. \A d \in Calls \ {c} : pc'[d] \notin {"changing", "pushing", "resolving", "media"}
  BY <1>1 DEF Threads
<1> QED BY <1>2 DEF KeptInv

-----------------------------------------------------------------------------
(* The coroutine.                                                          *)

LEMMA CallStep == ASSUME IInv, NEW c \in Calls, Call(c) PROVE IInv'
<1> USE DEF Call
<1>1. TypeOK'
  BY DEF IInv, TypeOK
<1>2. pc'[c] = "waiting" /\ \A d \in Calls \ {c} : pc'[d] = pc[d]
  BY DEF IInv, TypeOK
<1>3. OpenInv' /\ LockInv'
  BY <1>2 DEF IInv, OpenInv, LockInv, Threads
<1>4. KeptInv' /\ SuccessLasts'
  BY <1>2, StillStep DEF Reported
<1> QED BY <1>1, <1>3, <1>4 DEF IInv

LEMMA AcquireStep == ASSUME IInv, NEW c \in Calls, Acquire(c) PROVE IInv'
<1> USE DEF Acquire
<1>1. TypeOK'
  BY DEF IInv, TypeOK, Threads
<1>2. pc'[c] = "opening" /\ \A d \in Calls \ {c} : pc'[d] = pc[d]
  BY DEF IInv, TypeOK
<1>3. OpenInv'
  BY <1>2 DEF IInv, OpenInv, Threads
<1>4. LockInv'
  BY <1>2, CallsAreSomebody DEF IInv, LockInv
<1>5. KeptInv' /\ SuccessLasts'
  BY <1>2, StillStep DEF Reported
<1> QED BY <1>1, <1>3, <1>4, <1>5 DEF IInv

(* A cancelled coroutine may leave a thread that does not hold the lock:   *)
(* LockInv no longer says anything.                                        *)
LEMMA CancelStep == ASSUME IInv, NEW c \in Calls, Cancel(c) PROVE IInv'
<1>0. timeouts' \in Nat /\ timeouts' # 0
  <2>1. timeouts \in Nat /\ timeouts' = timeouts + 1
    BY DEF IInv, TypeOK, Cancel
  <2> QED BY <2>1
<1> USE DEF Cancel, Unlock
<1>1. TypeOK'
  BY <1>0 DEF IInv, TypeOK, Threads
<1>2. /\ pc'[c] = IF pc[c] = "waiting" THEN "ended" ELSE pc[c]
      /\ \A d \in Calls \ {c} : pc'[d] = pc[d]
      /\ answer' = [answer EXCEPT ![c] = "cancelled"]
  BY DEF IInv, TypeOK
<1>3. OpenInv'
  BY <1>2 DEF IInv, OpenInv, Threads
<1>4. LockInv'
  BY <1>0 DEF LockInv
<1>5. Reported' \subseteq Reported
  BY <1>2 DEF Reported, IInv, TypeOK
<1>6. KeptInv' /\ SuccessLasts'
  BY <1>2, <1>5, StillStep
<1> QED BY <1>1, <1>3, <1>4, <1>6 DEF IInv

-----------------------------------------------------------------------------
(* The thread.                                                             *)

LEMMA OpenCollectionStep ==
    ASSUME IInv, NEW c \in Calls, OpenCollection(c) PROVE IInv'
<1> USE DEF OpenCollection
<1>1. TypeOK'
  BY DEF IInv, TypeOK, Threads
<1>2. pc'[c] = "pulling" /\ \A d \in Calls \ {c} : pc'[d] = pc[d]
  BY DEF IInv, TypeOK
<1>3. OpenInv'
  BY <1>2, CallsAreSomebody DEF IInv, OpenInv, Threads
<1>4. LockInv'
  BY <1>2 DEF IInv, LockInv, Threads
<1>5. KeptInv' /\ SuccessLasts'
  BY <1>2, StillStep DEF Reported
<1> QED BY <1>1, <1>3, <1>4, <1>5 DEF IInv

LEMMA OpenFailsStep == ASSUME IInv, NEW c \in Calls, OpenFails(c) PROVE IInv'
<1> USE DEF OpenFails
<1>1. /\ pc[c] \in Threads /\ pc'[c] = "ended"
      /\ \A d \in Calls \ {c} : pc'[d] = pc[d]
      /\ Reported' \subseteq Reported /\ OpenInv' /\ LockInv'
  BY EndEffect DEF Threads
<1>2. TypeOK'
  BY <1>1, EndEffect DEF IInv, TypeOK
<1>3. KeptInv' /\ SuccessLasts'
  BY <1>1, StillStep
<1> QED BY <1>1, <1>2, <1>3 DEF IInv

(* After a pull that merged, the shadow holds all the server has.          *)
LEMMA PullStep == ASSUME IInv, NEW c \in Calls, Pull(c) PROVE IInv'
<1> DEFINE n == IF required'[c] \in Incremental THEN "changing" ELSE "reattaching"
<1>1. pc[c] \in Threads \ {"opening"} /\ n \in Threads \ {"opening"} /\ Goto(c, n)
  BY DEF Pull, Threads
<1> HIDE DEF n
<1>2. /\ pc'[c] = n /\ \A d \in Calls \ {c} : pc'[d] = pc[d]
      /\ Reported' = Reported /\ OpenInv' /\ LockInv'
  BY <1>1, GotoEffect
<1>3. SyncCollection(c) /\ TypeOK
  BY DEF Pull, IInv
<1>4. TypeOK'
  BY <1>1, <1>3, GotoEffect, SyncEffect DEF Pull, TypeOK
<1>5. SuccessLasts'
  BY <1>2, <1>3, SyncEffect DEF IInv, SuccessLasts, Reported
<1>6. n \in {"changing", "reattaching"} /\ (n = "changing" => required'[c] \in Incremental)
  BY DEF n
<1>7. n = "changing" => Reported' \subseteq shadow'.items
  BY <1>3, <1>5, <1>6, SyncEffect DEF SuccessLasts, Reported
<1>8. KeptInv'
  BY <1>1, <1>2, <1>6, <1>7, OwnStep
<1> QED BY <1>2, <1>4, <1>5, <1>8 DEF IInv

LEMMA ReattachStep == ASSUME IInv, NEW c \in Calls, Reattach(c) PROVE IInv'
<1>1. pc[c] \in Threads \ {"opening"} /\ Goto(c, "changing")
  BY DEF Reattach, Threads
<1>2. /\ pc'[c] = "changing" /\ \A d \in Calls \ {c} : pc'[d] = pc[d]
      /\ Reported' = Reported /\ OpenInv' /\ LockInv'
  BY <1>1, GotoEffect DEF Threads
<1>3. TypeOK'
  BY <1>1, GotoEffect DEF Reattach, IInv, TypeOK, Threads
<1>4. SuccessLasts'
  BY <1>2 DEF Reattach, IInv, SuccessLasts, Reported
<1>5. Reported' \subseteq shadow'.items
  BY <1>4 DEF Reattach, SuccessLasts, Reported
<1>6. KeptInv'
  BY <1>1, <1>2, <1>5, OwnStep
<1> QED BY <1>2, <1>3, <1>4, <1>6 DEF IInv

(* A migration changes the stamp and the notetype, never an item; the new  *)
(* item of an update presupposes a card.                                   *)
LEMMA ChangeCollectionStep ==
    ASSUME IInv, NEW c \in Calls, ChangeCollection(c) PROVE IInv'
<1>1. pc[c] = "changing" /\ pc[c] \in Threads \ {"opening"} /\ timeouts' = timeouts
  BY DEF ChangeCollection, Goto, Threads
<1>0. stamp + 1 \in Nat
  BY StampGrows DEF IInv
<1>2. Migrated \in Collection /\ Migrated.items = shadow.items
  BY <1>0 DEF Migrated, IInv, TypeOK, Collection
<1>3. /\ stamp' \in Nat /\ changed' \in [Calls -> BOOLEAN]
      /\ UNCHANGED <<server, required, schemas, unseen>>
  <2>1. stamp' \in {stamp, stamp + 1} /\ stamp \in Nat
    BY DEF ChangeCollection, IInv, TypeOK
  <2>2. changed' = [changed EXCEPT ![c] = shadow.outdated] /\ shadow.outdated \in BOOLEAN
    BY DEF ChangeCollection, IInv, TypeOK, Collection
  <2>3. changed' \in [Calls -> BOOLEAN]
    BY <2>2 DEF IInv, TypeOK
  <2> QED BY <1>0, <2>1, <2>3 DEF ChangeCollection
<1>4. Reported \subseteq shadow.items
  BY <1>1 DEF IInv, KeptInv
<1>5. CASE shadow' = [Migrated EXCEPT !.items = @ \cup {c}] /\ Goto(c, "pushing")
  <2>1. /\ shadow' \in Collection
        /\ shadow'.items = shadow.items \cup {c}
    BY <1>2, <1>5 DEF Collection, Items
  <2>2. /\ pc' \in [Calls -> Threads \cup {"idle", "waiting", "ended"}]
        /\ pc'[c] = "pushing" /\ \A d \in Calls \ {c} : pc'[d] = pc[d]
        /\ UNCHANGED <<answer, lock, open, timeouts, faults>>
        /\ Reported' = Reported /\ OpenInv' /\ LockInv'
    BY <1>1, <1>5, GotoEffect DEF Threads
  <2>3. TypeOK'
    BY <1>3, <2>1, <2>2 DEF IInv, TypeOK
  <2>4. KeptInv'
    BY <1>1, <1>4, <2>1, <2>2, OwnStep
  <2>5. SuccessLasts'
    BY <1>3, <2>2 DEF IInv, SuccessLasts
  <2> QED BY <2>2, <2>3, <2>4, <2>5 DEF IInv
<1>6. CASE shadow' = Migrated /\ End(c, "error") /\ UNCHANGED <<timeouts, faults>>
  <2>1. /\ pc'[c] = "ended" /\ \A d \in Calls \ {c} : pc'[d] = pc[d]
        /\ Reported' \subseteq Reported /\ OpenInv' /\ LockInv'
    BY <1>1, <1>6, EndEffect
  <2>2. TypeOK'
    BY <1>1, <1>2, <1>3, <1>6, EndEffect DEF IInv, TypeOK
  <2>3. KeptInv'
    BY <1>1, <2>1, OwnStep
  <2>4. SuccessLasts'
    BY <1>3, <2>1 DEF IInv, SuccessLasts, Reported
  <2> QED BY <2>1, <2>2, <2>3, <2>4 DEF IInv
<1> QED BY <1>5, <1>6 DEF ChangeCollection

(* A push that merged has put the call's item on the server.               *)
LEMMA PushStep == ASSUME IInv, NEW c \in Calls, Push(c) PROVE IInv'
<1>1. pc[c] = "pushing" /\ pc[c] \in Threads \ {"opening"} /\ Goto(c, "resolving")
  BY DEF Push, Threads
<1>2. /\ pc'[c] = "resolving" /\ \A d \in Calls \ {c} : pc'[d] = pc[d]
      /\ Reported' = Reported /\ OpenInv' /\ LockInv'
  BY <1>1, GotoEffect DEF Threads
<1>3. SyncCollection(c) /\ TypeOK
  BY DEF Push, IInv
<1>4. TypeOK'
  BY <1>1, <1>3, GotoEffect, SyncEffect DEF Push, TypeOK, Threads
<1>5. c \in shadow.items /\ Reported \subseteq shadow.items
  BY <1>1 DEF IInv, KeptInv
<1>6. c \in shadow'.items /\ Reported' \subseteq shadow'.items
  BY <1>2, <1>3, <1>5, SyncEffect
<1>7. required'[c] \in Incremental => c \in server'.items
  BY <1>3, <1>6, SyncEffect
<1>8. KeptInv'
  BY <1>1, <1>2, <1>6, <1>7, OwnStep
<1>9. SuccessLasts'
  BY <1>2, <1>3, SyncEffect DEF IInv, SuccessLasts, Reported
<1> QED BY <1>2, <1>4, <1>8, <1>9 DEF IInv

(* However a push was resolved: once the server has the call's item and    *)
(* all that was reported, the call may go on or answer.                    *)
LEMMA LandedStep ==
    ASSUME IInv, NEW c \in Calls, pc[c] = "resolving", Landed(c),
           server' \in Collection, c \in server'.items, Reported \subseteq server'.items,
           UNCHANGED <<shadow, required, changed, stamp, schemas, unseen>>
    PROVE  IInv'
<1>1. pc[c] \in Threads \ {"opening"}
  BY DEF Threads
<1>2. CASE Goto(c, "media")
  <2>1. /\ pc'[c] = "media" /\ \A d \in Calls \ {c} : pc'[d] = pc[d]
        /\ Reported' = Reported /\ OpenInv' /\ LockInv'
    BY <1>1, <1>2, GotoEffect DEF Threads
  <2>2. TypeOK'
    BY <1>1, <1>2, GotoEffect DEF IInv, TypeOK, Threads
  <2>3. KeptInv'
    BY <1>1, <2>1, OwnStep
  <2>4. SuccessLasts'
    BY <2>1 DEF SuccessLasts, Reported
  <2> QED BY <2>1, <2>2, <2>3, <2>4 DEF IInv
<1>3. CASE End(c, "card id") /\ UNCHANGED <<timeouts, faults>>
  <2>1. /\ pc'[c] = "ended" /\ \A d \in Calls \ {c} : pc'[d] = pc[d]
        /\ Reported' \subseteq Reported \cup {c} /\ OpenInv' /\ LockInv'
    BY <1>1, <1>3, EndEffect
  <2>2. TypeOK'
    BY <1>1, <1>3, EndEffect DEF IInv, TypeOK
  <2>3. KeptInv'
    BY <1>1, <2>1, OwnStep
  <2>4. Reported' \subseteq server'.items
    BY <2>1
  <2>5. SuccessLasts'
    BY <2>4 DEF SuccessLasts, Reported
  <2> QED BY <2>1, <2>2, <2>3, <2>5 DEF IInv
<1> QED BY <1>2, <1>3 DEF Landed

LEMMA ResolveIncrementalStep ==
    ASSUME IInv, NEW c \in Calls, ResolveIncremental(c) PROVE IInv'
<1>1. c \in server.items /\ Reported \subseteq server.items
  BY DEF ResolveIncremental, IInv, KeptInv, SuccessLasts, Reported
<1> QED BY <1>1, LandedStep DEF ResolveIncremental, IInv, TypeOK

(* The upload may erase what another client added since the pull, but not  *)
(* what was reported: the shadow has all of it.                            *)
LEMMA ResolveByUploadStep ==
    ASSUME IInv, NEW c \in Calls, ResolveByUpload(c) PROVE IInv'
<1>1. c \in shadow.items /\ Reported \subseteq shadow.items
  BY DEF ResolveByUpload, IInv, KeptInv
<1> QED BY <1>1, LandedStep DEF ResolveByUpload, IInv, TypeOK

LEMMA ResolveByRaisingStep ==
    ASSUME IInv, NEW c \in Calls, ResolveByRaising(c) PROVE IInv'
<1> USE DEF ResolveByRaising
<1>1. /\ pc[c] \in Threads /\ pc'[c] = "ended"
      /\ \A d \in Calls \ {c} : pc'[d] = pc[d]
      /\ Reported' \subseteq Reported /\ OpenInv' /\ LockInv'
  BY EndEffect DEF Threads
<1>2. TypeOK'
  BY <1>1, EndEffect DEF IInv, TypeOK
<1>3. KeptInv' /\ SuccessLasts'
  BY <1>1, StillStep
<1> QED BY <1>1, <1>2, <1>3 DEF IInv

LEMMA WaitForMediaStep ==
    ASSUME IInv, NEW c \in Calls, WaitForMedia(c) PROVE IInv'
<1> USE DEF WaitForMedia
<1>1. /\ pc[c] \in Threads \ {"opening"} /\ pc'[c] = "ended"
      /\ \A d \in Calls \ {c} : pc'[d] = pc[d]
      /\ Reported' \subseteq Reported \cup {c} /\ OpenInv' /\ LockInv'
  BY EndEffect DEF Threads
<1>2. TypeOK'
  BY <1>1, EndEffect DEF IInv, TypeOK
<1>3. KeptInv'
  BY <1>1, OwnStep
<1>4. SuccessLasts'
  BY <1>1 DEF IInv, KeptInv, SuccessLasts, Reported
<1> QED BY <1>1, <1>2, <1>3, <1>4 DEF IInv

-----------------------------------------------------------------------------
(* Faults and the other client.                                            *)

LEMMA NetworkErrorStep == ASSUME IInv, NEW c \in Calls, NetworkError(c) PROVE IInv'
<1>1. /\ pc[c] \in Threads /\ pc'[c] = "ended"
      /\ \A d \in Calls \ {c} : pc'[d] = pc[d]
      /\ Reported' \subseteq Reported /\ OpenInv' /\ LockInv'
  BY EndEffect DEF NetworkError, Threads
<1>2. server' \in Collection /\ Reported \subseteq server'.items
  <2>1. server \in Collection /\ shadow \in Collection /\ Reported \subseteq server.items
    BY DEF IInv, TypeOK, SuccessLasts, Reported
  <2>2. CASE server' = server \/ server' = Merge(server, shadow)
    BY <2>1, <2>2, MergeKeeps
  <2>3. CASE pc[c] = "resolving" /\ server' = shadow
    BY <2>1, <2>3 DEF IInv, KeptInv
  <2> QED BY <2>2, <2>3 DEF NetworkError
<1>3. TypeOK'
  <2>1. faults' \in Nat
    BY StampGrows DEF NetworkError, CanFault, IInv
  <2> QED BY <1>1, <1>2, <2>1, EndEffect DEF NetworkError, IInv, TypeOK
<1>4. KeptInv'
  <2>1. pc[c] \in Threads \ {"opening"}
    BY DEF NetworkError, Threads
  <2> QED BY <1>1, <2>1, OwnStep
<1>5. SuccessLasts'
  BY <1>1, <1>2 DEF SuccessLasts, Reported
<1> QED BY <1>1, <1>3, <1>4, <1>5 DEF IInv

(* A restart ends every thread: only what the server has is left.          *)
LEMMA RestartStep == ASSUME IInv, Restart PROVE IInv'
<1>1. shadow' \in Collection /\ stamp' \in Nat /\ faults' \in Nat
  <2>1. /\ stamp' = stamp + 1 /\ shadow' = Fresh(stamp + 1)
        /\ faults' = faults + 1
    BY DEF Restart, CanFault
  <2>2. stamp' \in Nat /\ faults' \in Nat
    BY <2>1, StampGrows DEF IInv
  <2> QED BY <2>1, <2>2 DEF Fresh, Collection
<1> USE DEF Restart
<1>2. \A c \in Calls : /\ pc'[c] \in {"idle", "ended"}
                       /\ answer'[c] \in {answer[c], "error"}
  OBVIOUS
<1>3. TypeOK'
  <2>1. pc' \in [Calls -> Threads \cup {"idle", "waiting", "ended"}]
    OBVIOUS
  <2>2. answer' \in [Calls -> {"none", "card id", "error", "cancelled"}]
    BY DEF IInv, TypeOK
  <2> QED BY <1>1, <2>1, <2>2 DEF IInv, TypeOK
<1>4. OpenInv' /\ LockInv'
  BY <1>2, CallsAreSomebody DEF OpenInv, LockInv, Threads
<1>5. KeptInv'
  BY <1>2 DEF KeptInv
<1>6. SuccessLasts'
  BY <1>2 DEF IInv, SuccessLasts
<1> QED BY <1>3, <1>4, <1>5, <1>6 DEF IInv

LEMMA PhoneStep ==
    ASSUME IInv, (\E p \in PhoneItems : PhoneSyncs(p)) \/ PhoneChangesSchema
    PROVE  IInv'
<1> DEFINE Harmless ==
      /\ server' \in Collection /\ server.items \subseteq server'.items
      /\ stamp' \in Nat /\ schemas' \in Nat /\ unseen' \subseteq PhoneItems
      /\ UNCHANGED <<shadow, pc, answer, lock, open, required, changed, timeouts, faults>>
<1>1. Harmless
  <2>1. ASSUME NEW p \in PhoneItems, PhoneSyncs(p) PROVE Harmless
    <3>1. server' = [server EXCEPT !.items = @ \cup {p}] /\ server \in Collection
      BY <2>1 DEF PhoneSyncs, IInv, TypeOK
    <3>2. server' \in Collection /\ server.items \subseteq server'.items
      BY <3>1 DEF Collection, Items
    <3>3. unseen' \subseteq PhoneItems
      BY <2>1 DEF PhoneSyncs, IInv, TypeOK
    <3>4. /\ stamp' = stamp /\ schemas' = schemas /\ stamp \in Nat /\ schemas \in Nat
          /\ UNCHANGED <<shadow, pc, answer, lock, open, required, changed, timeouts, faults>>
      BY <2>1 DEF PhoneSyncs, IInv, TypeOK
    <3> QED BY <3>2, <3>3, <3>4
  <2>2. CASE PhoneChangesSchema
    <3>1. PICK o \in BOOLEAN :
             server' = [server EXCEPT !.scm = stamp + 1, !.outdated = o]
      BY <2>2 DEF PhoneChangesSchema
    <3>2. stamp + 1 \in Nat /\ schemas + 1 \in Nat /\ server \in Collection
      BY StampGrows DEF IInv, TypeOK
    <3>3. server' \in Collection /\ server.items \subseteq server'.items
      BY <3>1, <3>2 DEF Collection
    <3>4. unseen' \subseteq PhoneItems
      BY <2>2 DEF PhoneChangesSchema, IInv, TypeOK
    <3> QED BY <2>2, <3>2, <3>3, <3>4 DEF PhoneChangesSchema
  <2> QED BY <2>1, <2>2
<1>2. TypeOK'
  BY <1>1 DEF IInv, TypeOK
<1>3. OpenInv' /\ LockInv'
  BY <1>1 DEF IInv, OpenInv, LockInv
<1>4. KeptInv' /\ SuccessLasts'
  BY <1>1, StillStep DEF Reported
<1> QED BY <1>2, <1>3, <1>4 DEF IInv

-----------------------------------------------------------------------------
LEMMA NextStep == ASSUME IInv, [Next]_vars PROVE IInv'
<1>1. CASE UNCHANGED vars
  BY <1>1 DEF vars, IInv, TypeOK, OpenInv, LockInv, KeptInv, SuccessLasts, Reported
<1>2. ASSUME NEW c \in Calls, Thread(c) PROVE IInv'
  BY <1>2, OpenCollectionStep, OpenFailsStep, PullStep, ReattachStep,
     ChangeCollectionStep, PushStep, ResolveIncrementalStep, ResolveByUploadStep,
     ResolveByRaisingStep, WaitForMediaStep DEF Thread
<1>3. ASSUME NEW c \in Calls, Call(c) \/ Coroutine(c) \/ Cancel(c) \/ NetworkError(c)
      PROVE  IInv'
  BY <1>3, CallStep, AcquireStep, CancelStep, NetworkErrorStep DEF Coroutine
<1> QED BY <1>1, <1>2, <1>3, RestartStep, PhoneStep DEF Next

(* IInv holds in every reachable state.                                    *)
THEOREM SyncInvariance == Spec => []IInv
<1>1. Init => IInv
  BY InitIInv
<1>2. IInv /\ [Next]_vars => IInv'
  BY NextStep
<1> QED BY <1>1, <1>2, PTL DEF Spec

(* A card the code reported as written stays on the server, for any number *)
(* of calls, cancellations, faults and schema changes of other clients.    *)
THEOREM ReportedCardsStay == Spec => []SuccessLasts
<1>1. IInv => SuccessLasts
  BY DEF IInv
<1> QED BY <1>1, SyncInvariance, PTL

(* Only the thread that opened the collection pulls, changes or pushes it, *)
(* also when cancelled coroutines have freed the lock.                     *)
THEOREM OneThreadAtATime == Spec => []OneThreadInCollection
<1>1. IInv => OneThreadInCollection
  BY DEF IInv, OpenInv, OneThreadInCollection
<1> QED BY <1>1, SyncInvariance, PTL

(* As long as no coroutine was cancelled, no thread meets an open file.    *)
THEOREM LockSerializes == Spec => []SerializedUnlessCancelled
<1>1. ASSUME IInv, timeouts = 0, NEW c \in Calls, pc[c] = "opening", open # Nobody
      PROVE  FALSE
  <2>1. open \in Calls /\ pc[open] \in Threads \ {"opening"}
    BY <1>1 DEF IInv, TypeOK, OpenInv
  <2>2. lock = c /\ lock = open
    BY <1>1, <2>1 DEF IInv, LockInv, Threads
  <2> QED BY <1>1, <2>1, <2>2
<1>2. IInv => SerializedUnlessCancelled
  BY <1>1 DEF SerializedUnlessCancelled
<1> QED BY <1>2, SyncInvariance, PTL

(* Whoever holds the lock has a running thread and a coroutine that waits  *)
(* for it: nobody waits for a call that has ended, failed, been cancelled  *)
(* or died in a restart.  This is the safety half of CallsEnd.             *)
HolderRuns ==
    /\ lock # Nobody => pc[lock] \in Threads /\ answer[lock] = "none"
    /\ open # Nobody => pc[open] \in Threads

HolderInv ==
    /\ \A c \in Calls : pc[c] \in {"idle", "waiting"} => answer[c] = "none"
    /\ lock # Nobody => pc[lock] \in Threads /\ answer[lock] = "none"

LEMMA HolderStep ==
    ASSUME IInv, HolderInv, [Next]_vars
    PROVE  HolderInv'
<1>1. /\ pc \in [Calls -> Threads \cup {"idle", "waiting", "ended"}]
      /\ answer \in [Calls -> {"none", "card id", "error", "cancelled"}]
      /\ lock \in Calls \cup {Nobody}
  BY DEF IInv, TypeOK
<1>2. ASSUME UNCHANGED <<lock, pc, answer>> PROVE HolderInv'
  BY <1>2 DEF HolderInv
<1>3. ASSUME NEW c \in Calls, NEW r \in {"card id", "error"}, pc[c] \in Threads, End(c, r)
      PROVE  HolderInv'
  <2>1. /\ pc' = [pc EXCEPT ![c] = "ended"]
        /\ answer' = [answer EXCEPT ![c] = IF @ = "none" THEN r ELSE @]
        /\ lock' = IF lock = c THEN Nobody ELSE lock
    BY <1>3 DEF End, Unlock
  <2> QED BY <1>1, <1>3, <2>1 DEF HolderInv
<1>4. ASSUME NEW c \in Calls, NEW n \in Threads, pc[c] \in Threads, Goto(c, n)
      PROVE  HolderInv'
  BY <1>1, <1>4 DEF Goto, HolderInv, Threads
<1>5. ASSUME NEW c \in Calls, Call(c) \/ Acquire(c) \/ Cancel(c) PROVE HolderInv'
  <2>1. CASE Call(c)
    BY <1>1, <2>1 DEF Call, HolderInv, Threads
  <2>2. CASE Acquire(c)
    BY <1>1, <2>2 DEF Acquire, HolderInv, Threads
  <2>3. CASE Cancel(c)
    BY <1>1, <2>3 DEF Cancel, Unlock, HolderInv, Threads
  <2> QED BY <1>5, <2>1, <2>2, <2>3
<1>6. ASSUME NEW c \in Calls, OpenCollection(c) PROVE HolderInv'
  BY <1>1, <1>6 DEF OpenCollection, HolderInv, Threads
<1>7. ASSUME NEW c \in Calls, ResolveIncremental(c) \/ ResolveByUpload(c) PROVE HolderInv'
  <2>1. pc[c] \in Threads /\ (Goto(c, "media") \/ End(c, "card id"))
    BY <1>7 DEF ResolveIncremental, ResolveByUpload, Landed, Threads
  <2>2. CASE Goto(c, "media")
    BY <1>4, <2>1, <2>2 DEF Threads
  <2>3. CASE End(c, "card id")
    BY <1>3, <2>1, <2>3
  <2> QED BY <2>1, <2>2, <2>3
<1>8. ASSUME NEW c \in Calls,
             OpenFails(c) \/ ResolveByRaising(c) \/ WaitForMedia(c) \/ NetworkError(c)
      PROVE  HolderInv'
  <2>1. pc[c] \in Threads /\ (End(c, "error") \/ End(c, "card id"))
    BY <1>8 DEF OpenFails, ResolveByRaising, WaitForMedia, NetworkError, Threads
  <2> QED BY <1>3, <2>1
<1>9. ASSUME NEW c \in Calls, Pull(c) \/ Reattach(c) \/ Push(c) PROVE HolderInv'
  BY <1>4, <1>9 DEF Pull, Reattach, Push, Threads
<1>10. ASSUME NEW c \in Calls, ChangeCollection(c) PROVE HolderInv'
  <2>1. pc[c] \in Threads /\ (Goto(c, "pushing") \/ End(c, "error"))
    BY <1>10 DEF ChangeCollection, Threads
  <2> QED BY <1>3, <1>4, <2>1 DEF Threads
<1>11. CASE Restart
  BY <1>1, <1>11 DEF Restart, HolderInv
<1>12. CASE (\E p \in PhoneItems : PhoneSyncs(p)) \/ PhoneChangesSchema \/ UNCHANGED vars
  BY <1>2, <1>12 DEF PhoneSyncs, PhoneChangesSchema, vars
<1> QED BY <1>5, <1>6, <1>7, <1>8, <1>9, <1>10, <1>11, <1>12 DEF Next, Coroutine, Thread

(* The lock and the collection are always held by threads that run.        *)
THEOREM LocksHaveARunningHolder == Spec => []HolderRuns
<1>1. Init => HolderInv
  BY DEF Init, HolderInv
<1>2. IInv /\ HolderInv /\ [Next]_vars => HolderInv'
  BY HolderStep
<1>3. Spec => []HolderInv
  BY <1>1, <1>2, SyncInvariance, PTL DEF Spec
<1>4. IInv /\ HolderInv => HolderRuns
  BY DEF IInv, TypeOK, OpenInv, HolderInv, HolderRuns
<1> QED BY <1>3, <1>4, SyncInvariance, PTL

(* What a thread that may upload has not seen was synced by the other      *)
(* client since.                                                           *)
SeenInv ==
    \A c \in Calls : pc[c] \in {"changing", "pushing", "resolving"} =>
                      server.items \subseteq shadow.items \cup unseen

(* A step of the thread that has the collection open: no other may upload. *)
LEMMA OwnSeen ==
    ASSUME IInv, NEW c \in Calls, pc[c] \in Threads \ {"opening"},
           \A d \in Calls \ {c} : pc'[d] = pc[d],
           pc'[c] \in {"changing", "pushing", "resolving"}
              => server'.items \subseteq shadow'.items \cup unseen'
    PROVE  SeenInv'
<1>1. \A d \in Calls \ {c} : pc[d] \notin Threads \ {"opening"}
  BY DEF IInv, OpenInv
<1>2. \A d \in Calls \ {c} : pc'[d] \notin {"changing", "pushing", "resolving"}
  BY <1>1 DEF Threads
<1> QED BY <1>2 DEF SeenInv

(* A step that brings no thread closer to its upload.                      *)
LEMMA StillSeen ==
    ASSUME SeenInv,
           server'.items \subseteq server.items \cup (unseen' \ unseen),
           shadow.items \subseteq shadow'.items, unseen \subseteq unseen',
           \A d \in Calls : pc'[d] \in {"changing", "pushing", "resolving"} => pc'[d] = pc[d]
    PROVE  SeenInv'
  BY DEF SeenInv

(* An incremental sync leaves nothing unseen, another one changes nothing. *)
LEMMA SyncSees ==
    ASSUME TypeOK, NEW c \in Calls, SyncCollection(c)
    PROVE  \/ server'.items = shadow'.items
           \/ required'[c] \notin Incremental /\ UNCHANGED <<server, shadow, unseen>>
<1> DEFINE v == SyncVerdict(shadow, server)
<1>1. required'[c] = v
  BY DEF SyncCollection, TypeOK
<1>2. CASE v \in Incremental
  BY <1>2 DEF SyncCollection
<1>3. CASE v \notin Incremental
  <2>1. UNCHANGED <<server, shadow, unseen>>
    BY <1>3 DEF SyncCollection
  <2> QED BY <1>1, <1>3, <2>1
<1> QED BY <1>2, <1>3

LEMMA SeenStep ==
    ASSUME IInv, SeenInv, [Next]_vars
    PROVE  SeenInv'
<1>1. /\ TypeOK /\ server \in Collection /\ shadow \in Collection
      /\ pc \in [Calls -> Threads \cup {"idle", "waiting", "ended"}]
  BY DEF IInv, TypeOK
<1>2. ASSUME NEW c \in Calls, NEW r, End(c, r)
      PROVE  pc'[c] = "ended" /\ \A d \in Calls \ {c} : pc'[d] = pc[d]
  BY <1>1, <1>2 DEF End
<1>3. ASSUME NEW c \in Calls, NEW n, Goto(c, n)
      PROVE  pc'[c] = n /\ \A d \in Calls \ {c} : pc'[d] = pc[d]
  BY <1>1, <1>3 DEF Goto
<1>4. ASSUME NEW c \in Calls, Call(c) \/ Coroutine(c) \/ Cancel(c) \/ OpenCollection(c)
      PROVE  SeenInv'
  <2>1. \A d \in Calls : pc'[d] \in {"changing", "pushing", "resolving"} => pc'[d] = pc[d]
    BY <1>1, <1>4 DEF Call, Coroutine, Acquire, Cancel, OpenCollection
  <2>2. UNCHANGED <<server, shadow, unseen>>
    BY <1>4 DEF Call, Coroutine, Acquire, Cancel, OpenCollection
  <2> QED BY <2>1, <2>2, StillSeen
<1>5. ASSUME NEW c \in Calls, Pull(c) PROVE SeenInv'
  <2>1. SyncCollection(c) /\ pc[c] \in Threads \ {"opening"}
    BY <1>5 DEF Pull, Threads
  <2>2. /\ pc'[c] = "changing" => required'[c] \in Incremental
        /\ pc'[c] \in {"changing", "reattaching"}
        /\ \A d \in Calls \ {c} : pc'[d] = pc[d]
    BY <1>3, <1>5 DEF Pull
  <2>3. pc'[c] = "changing" => server'.items \subseteq shadow'.items
    BY <1>1, <2>1, <2>2, SyncSees
  <2> QED BY <2>1, <2>2, <2>3, OwnSeen
<1>6. ASSUME NEW c \in Calls, Reattach(c) PROVE SeenInv'
  <2>1. /\ pc[c] \in Threads \ {"opening"} /\ server'.items = shadow'.items
        /\ \A d \in Calls \ {c} : pc'[d] = pc[d]
    BY <1>3, <1>6 DEF Reattach, Threads
  <2> QED BY <2>1, OwnSeen
<1>7. ASSUME NEW c \in Calls, ChangeCollection(c) PROVE SeenInv'
  <2>1. /\ pc[c] \in Threads \ {"opening"} /\ UNCHANGED <<server, unseen>>
        /\ server.items \subseteq shadow.items \cup unseen
    BY <1>7 DEF ChangeCollection, Threads, SeenInv
  <2>2. Migrated \in Collection /\ Migrated.items = shadow.items
    BY <1>1, StampGrows DEF Migrated, Collection
  <2>3. shadow.items \subseteq shadow'.items
    BY <1>7, <2>2 DEF ChangeCollection, Collection
  <2>4. \A d \in Calls \ {c} : pc'[d] = pc[d]
    BY <1>2, <1>3, <1>7 DEF ChangeCollection
  <2> QED BY <2>1, <2>3, <2>4, OwnSeen
<1>8. ASSUME NEW c \in Calls, Push(c) PROVE SeenInv'
  <2>1. /\ SyncCollection(c) /\ pc[c] \in Threads \ {"opening"}
        /\ server.items \subseteq shadow.items \cup unseen
        /\ \A d \in Calls \ {c} : pc'[d] = pc[d]
    BY <1>3, <1>8 DEF Push, Threads, SeenInv
  <2>2. server'.items \subseteq shadow'.items \cup unseen'
    BY <1>1, <2>1, SyncSees
  <2> QED BY <2>1, <2>2, OwnSeen
<1>9. ASSUME NEW c \in Calls, Landed(c), pc[c] = "resolving" PROVE SeenInv'
  <2>1. pc'[c] \in {"media", "ended"} /\ \A d \in Calls \ {c} : pc'[d] = pc[d]
    BY <1>2, <1>3, <1>9 DEF Landed
  <2> QED BY <1>9, <2>1, OwnSeen DEF Threads
<1>10. ASSUME NEW c \in Calls,
              ResolveByRaising(c) \/ WaitForMedia(c) \/ NetworkError(c)
       PROVE  SeenInv'
  <2>1. /\ pc'[c] = "ended" /\ \A d \in Calls \ {c} : pc'[d] = pc[d]
        /\ pc[c] \in Threads \ {"opening"}
    BY <1>2, <1>10 DEF ResolveByRaising, WaitForMedia, NetworkError, Threads
  <2> QED BY <2>1, OwnSeen
<1>11. ASSUME NEW c \in Calls, OpenFails(c) PROVE SeenInv'
  <2>1. /\ pc'[c] = "ended" /\ \A d \in Calls \ {c} : pc'[d] = pc[d]
        /\ UNCHANGED <<server, shadow, unseen>>
    BY <1>2, <1>11 DEF OpenFails
  <2> QED BY <2>1, StillSeen
<1>12. ASSUME NEW c \in Calls, Thread(c) PROVE SeenInv'
  BY <1>4, <1>5, <1>6, <1>7, <1>8, <1>9, <1>10, <1>11, <1>12
     DEF Thread, ResolveIncremental, ResolveByUpload
<1>13. CASE Restart
  BY <1>13 DEF Restart, SeenInv
<1>14. ASSUME NEW p \in PhoneItems, PhoneSyncs(p) PROVE SeenInv'
  <2>1. /\ server' = [server EXCEPT !.items = server.items \cup {p}]
        /\ unseen' = unseen \cup {p} /\ UNCHANGED <<shadow, pc>>
    BY <1>14 DEF PhoneSyncs
  <2>2. server'.items = server.items \cup {p}
    BY <1>1, <2>1 DEF Collection
  <2> QED BY <2>1, <2>2 DEF SeenInv
<1>15. CASE PhoneChangesSchema
  <2>1. PICK o \in BOOLEAN : server' = [server EXCEPT !.scm = stamp + 1, !.outdated = o]
    BY <1>15 DEF PhoneChangesSchema
  <2>2. server'.items = server.items /\ UNCHANGED <<shadow, pc, unseen>>
    BY <1>1, <1>15, <2>1 DEF PhoneChangesSchema, Collection
  <2> QED BY <2>2 DEF SeenInv
<1>16. CASE UNCHANGED vars
  BY <1>16 DEF vars, SeenInv
<1> QED BY <1>4, <1>10, <1>12, <1>13, <1>14, <1>15, <1>16 DEF Next

(* Every step but an upload, answered or not, adds to the server or leaves *)
(* it alone, and what an upload takes is what its thread has not seen.     *)
LEMMA ErasingStep ==
    ASSUME IInv, SeenInv, [Next]_vars
    PROVE  server.items \ server'.items \subseteq unseen
<1>1. TypeOK /\ server \in Collection /\ shadow \in Collection
  BY DEF IInv, TypeOK
<1>2. ASSUME NEW c \in Calls, Pull(c) \/ Push(c) PROVE server.items \subseteq server'.items
  BY <1>1, <1>2, SyncEffect DEF Pull, Push
<1>3. ASSUME NEW c \in Calls, pc[c] = "resolving", server' = shadow
      PROVE  server.items \ server'.items \subseteq unseen
  BY <1>3 DEF SeenInv
<1>4. ASSUME NEW c \in Calls, NetworkError(c)
      PROVE  server.items \ server'.items \subseteq unseen
  <2>1. CASE server' = server \/ server' = Merge(server, shadow)
    BY <1>1, <2>1, MergeKeeps
  <2> QED BY <1>3, <1>4, <2>1 DEF NetworkError
<1>5. ASSUME NEW p \in PhoneItems, PhoneSyncs(p) PROVE server.items \subseteq server'.items
  <2>1. server' = [server EXCEPT !.items = @ \cup {p}]
    BY <1>5 DEF PhoneSyncs
  <2> QED BY <1>1, <2>1 DEF Collection
<1>6. ASSUME PhoneChangesSchema PROVE server.items \subseteq server'.items
  <2>1. \E o \in BOOLEAN : server' = [server EXCEPT !.scm = stamp + 1, !.outdated = o]
    BY <1>6 DEF PhoneChangesSchema
  <2> QED BY <1>1, <2>1 DEF Collection
<1>7. ASSUME NEW c \in Calls, ResolveByUpload(c)
      PROVE  server.items \ server'.items \subseteq unseen
  BY <1>3, <1>7 DEF ResolveByUpload
<1>8. ASSUME NEW c \in Calls, Call(c) \/ Coroutine(c) \/ Cancel(c) PROVE server' = server
  BY <1>8 DEF Call, Coroutine, Acquire, Cancel
<1>9. ASSUME NEW c \in Calls, Thread(c), ~Pull(c), ~Push(c), ~ResolveByUpload(c)
      PROVE  server' = server
  BY <1>9 DEF Thread, OpenCollection, OpenFails, Reattach, ChangeCollection,
     ResolveIncremental, ResolveByRaising, WaitForMedia
<1>10. Restart \/ UNCHANGED vars => server' = server
  BY DEF Restart, vars
<1> QED BY <1>2, <1>4, <1>5, <1>6, <1>7, <1>8, <1>9, <1>10 DEF Next

(* A full upload loses nothing but what another client synced while the    *)
(* call was under way: its thread has pulled or reattached before, and no  *)
(* other thread was in the collection since (_resolve_after_write).        *)
THEOREM UploadsLoseOnlyUnseen == Spec => ErasesOnlyUnseen
<1>1. Init => SeenInv
  BY DEF Init, SeenInv
<1>2. IInv /\ SeenInv /\ [Next]_vars => SeenInv'
  BY SeenStep
<1>3. Spec => []SeenInv
  BY <1>1, <1>2, SyncInvariance, PTL DEF Spec
<1>4. IInv /\ SeenInv /\ [Next]_vars => [server.items \ server'.items \subseteq unseen]_vars
  BY ErasingStep
<1> QED BY <1>3, <1>4, SyncInvariance, PTL DEF Spec, ErasesOnlyUnseen

-----------------------------------------------------------------------------
(* What the refinement needs besides IInv: a call that has not begun has   *)
(* neither an answer nor an item anywhere.                                 *)
BegunInv ==
    \A c \in Calls : pc[c] = "idle" =>
        answer[c] = "none" /\ c \notin server.items /\ c \notin shadow.items

(* A merge invents nothing.                                                *)
LEMMA MergeItems ==
    ASSUME NEW a \in Collection, NEW b \in Collection
    PROVE  Merge(a, b).items = a.items \cup b.items
  BY DEF Merge, Collection

LEMMA SyncMoves ==
    ASSUME TypeOK, NEW c \in Calls, SyncCollection(c)
    PROVE  /\ server'.items \subseteq server.items \cup shadow.items
           /\ shadow'.items \subseteq server.items \cup shadow.items
<1>1. \/ UNCHANGED <<server, shadow>>
      \/ server' = Merge(server, shadow) /\ shadow' = Merge(server, shadow)
  BY DEF SyncCollection
<1>2. Merge(server, shadow).items = server.items \cup shadow.items
  BY MergeItems DEF TypeOK
<1> QED BY <1>1, <1>2

(* Items of calls move between shadow and server; a new one comes from a   *)
(* thread that is changing the shadow.                                     *)
Moved ==
    \A d \in Calls :
       /\ d \in server'.items => d \in server.items \cup shadow.items
       /\ d \in shadow'.items => d \in server.items \cup shadow.items \/ pc[d] # "idle"

LEMMA ItemsMove ==
    ASSUME IInv, [Next]_vars
    PROVE  Moved
<1>1. TypeOK /\ server \in Collection /\ shadow \in Collection
  BY DEF IInv, TypeOK
<1>2. ASSUME UNCHANGED <<server, shadow>> PROVE Moved
  BY <1>2 DEF Moved
<1>3. ASSUME NEW c \in Calls, Pull(c) \/ Push(c) PROVE Moved
  BY <1>1, <1>3, SyncMoves DEF Pull, Push, Moved
<1>4. ASSUME NEW c \in Calls, Reattach(c) PROVE Moved
  BY <1>4 DEF Reattach, Moved
<1>5. ASSUME NEW c \in Calls, ResolveByUpload(c) PROVE Moved
  BY <1>5 DEF ResolveByUpload, Moved
<1>6. ASSUME NEW c \in Calls, ChangeCollection(c) PROVE Moved
  <2>1. Migrated \in Collection /\ Migrated.items = shadow.items
    BY <1>1, StampGrows DEF Migrated, Collection
  <2>2. shadow'.items \subseteq shadow.items \cup {c} /\ server' = server /\ pc[c] = "changing"
    BY <1>6, <2>1 DEF ChangeCollection, Collection
  <2> QED BY <2>2 DEF Moved
<1>7. ASSUME NEW c \in Calls, NetworkError(c) PROVE Moved
  <2>1. server' = server \/ server' = Merge(server, shadow) \/ server' = shadow
    BY <1>7 DEF NetworkError
  <2>2. shadow' = shadow
    BY <1>7 DEF NetworkError
  <2> QED BY <1>1, <2>1, <2>2, MergeItems DEF Moved
<1>8. CASE Restart
  <2>1. server' = server /\ shadow'.items = {}
    BY <1>8 DEF Restart, Fresh
  <2> QED BY <2>1 DEF Moved
<1>9. ASSUME NEW p \in PhoneItems, PhoneSyncs(p) PROVE Moved
  <2>1. server' = [server EXCEPT !.items = server.items \cup {p}] /\ shadow' = shadow
    BY <1>9 DEF PhoneSyncs
  <2>2. server'.items = server.items \cup {p} /\ p \notin Calls
    BY <1>1, <2>1 DEF Collection, Calls
  <2> QED BY <2>1, <2>2 DEF Moved
<1>10. CASE PhoneChangesSchema
  <2>1. PICK o \in BOOLEAN : server' = [server EXCEPT !.scm = stamp + 1, !.outdated = o]
    BY <1>10 DEF PhoneChangesSchema
  <2>2. server'.items = server.items /\ shadow' = shadow
    BY <1>1, <1>10, <2>1 DEF PhoneChangesSchema, Collection
  <2> QED BY <2>2 DEF Moved
<1>11. ASSUME NEW c \in Calls, Thread(c), ~Pull(c), ~Push(c), ~Reattach(c),
              ~ResolveByUpload(c), ~ChangeCollection(c)
       PROVE  Moved
  BY <1>2, <1>11 DEF Thread, OpenCollection, OpenFails, ResolveIncremental,
     ResolveByRaising, WaitForMedia
<1>12. ASSUME NEW c \in Calls, Call(c) \/ Coroutine(c) \/ Cancel(c) PROVE Moved
  BY <1>2, <1>12 DEF Call, Coroutine, Acquire, Cancel
<1>13. CASE UNCHANGED vars
  BY <1>2, <1>13 DEF vars
<1> QED BY <1>3, <1>4, <1>5, <1>6, <1>7, <1>8, <1>9, <1>10, <1>11, <1>12, <1>13 DEF Next

(* An answer is final, and a call that has begun stays so.                 *)
Settled ==
    \A d \in Calls :
       /\ pc[d] # "idle" => pc'[d] # "idle"
       /\ pc[d] = "idle" \/ answer[d] # "none" => answer'[d] = answer[d]

LEMMA AnswersSettle ==
    ASSUME IInv, [Next]_vars
    PROVE  Settled
<1>1. /\ pc \in [Calls -> Threads \cup {"idle", "waiting", "ended"}]
      /\ answer \in [Calls -> {"none", "card id", "error", "cancelled"}]
  BY DEF IInv, TypeOK
<1>2. ASSUME NEW c \in Calls, NEW n \in {"waiting", "ended"} \cup Threads,
             pc' = [pc EXCEPT ![c] = n], answer' = answer
      PROVE  Settled
  BY <1>1, <1>2 DEF Settled, Threads
<1>3. ASSUME NEW c \in Calls, NEW r, pc[c] # "idle", End(c, r) PROVE Settled
  BY <1>1, <1>3 DEF Settled, End
<1>4. ASSUME UNCHANGED <<pc, answer>> PROVE Settled
  BY <1>4 DEF Settled
<1>5. ASSUME NEW c \in Calls, NEW n \in Threads, Goto(c, n) PROVE Settled
  BY <1>2, <1>5 DEF Goto
<1>6. ASSUME NEW c \in Calls, Call(c) \/ Acquire(c) \/ OpenCollection(c) PROVE Settled
  BY <1>2, <1>6 DEF Call, Acquire, OpenCollection, Threads
<1>7. ASSUME NEW c \in Calls, Cancel(c) PROVE Settled
  <2>1. /\ pc[c] # "idle" /\ answer[c] = "none"
        /\ answer' = [answer EXCEPT ![c] = "cancelled"]
        /\ pc' = [pc EXCEPT ![c] = IF pc[c] = "waiting" THEN "ended" ELSE pc[c]]
    BY <1>7 DEF Cancel, Threads
  <2> QED BY <1>1, <2>1 DEF Settled
<1>8. ASSUME NEW c \in Calls, Landed(c), pc[c] = "resolving" PROVE Settled
  BY <1>3, <1>5, <1>8 DEF Landed, Threads
<1>9. ASSUME NEW c \in Calls, ResolveIncremental(c) \/ ResolveByUpload(c) PROVE Settled
  BY <1>8, <1>9 DEF ResolveIncremental, ResolveByUpload
<1>10. ASSUME NEW c \in Calls,
              OpenFails(c) \/ ResolveByRaising(c) \/ WaitForMedia(c) \/ NetworkError(c)
       PROVE  Settled
  BY <1>3, <1>10 DEF OpenFails, ResolveByRaising, WaitForMedia, NetworkError
<1>11. ASSUME NEW c \in Calls, Pull(c) \/ Reattach(c) \/ Push(c) PROVE Settled
  BY <1>5, <1>11 DEF Pull, Reattach, Push, Threads
<1>12. ASSUME NEW c \in Calls, ChangeCollection(c) PROVE Settled
  <2>1. pc[c] = "changing" /\ (Goto(c, "pushing") \/ End(c, "error"))
    BY <1>12 DEF ChangeCollection
  <2> QED BY <1>3, <1>5, <2>1 DEF Threads
<1>13. CASE Restart
  BY <1>1, <1>13 DEF Restart, Settled
<1>14. CASE (\E p \in PhoneItems : PhoneSyncs(p)) \/ PhoneChangesSchema \/ UNCHANGED vars
  BY <1>4, <1>14 DEF PhoneSyncs, PhoneChangesSchema, vars
<1> QED BY <1>6, <1>7, <1>9, <1>10, <1>11, <1>12, <1>13, <1>14 DEF Next, Coroutine, Thread

LEMMA InitBegun == Init => BegunInv
  BY DEF Init, BegunInv, Fresh, Calls

LEMMA BegunStep ==
    ASSUME IInv, BegunInv, [Next]_vars
    PROVE  BegunInv'
<1>1. Moved /\ Settled
  BY ItemsMove, AnswersSettle
<1> QED BY <1>1 DEF BegunInv, Moved, Settled

(* Every step is a step of CardStore or changes nothing of it.             *)
LEMMA ServeStep ==
    ASSUME IInv, IInv', BegunInv, [Next]_vars
    PROVE  Store!Serve
<1>1. Moved /\ Settled
  BY ItemsMove, AnswersSettle
<1>2. \A c \in Calls : /\ answer[c] \in {"none", "card id", "error", "cancelled"}
                       /\ answer'[c] \in {"none", "card id", "error", "cancelled"}
  BY DEF IInv, TypeOK
<1>3. ASSUME NEW c \in Calls
      PROVE  /\ Outcome(c)' \in {"none", "open", "returned", "raised"}
             /\ Outcome(c)' \in Store!Follows(Outcome(c))
             /\ Outcome(c)' = "returned" => c \in server'.items
             /\ c \in server'.items => c \in server.items \/ Outcome(c) # "none"
  <2>1. Outcome(c)' = "returned" => c \in server'.items
    BY DEF Outcome, IInv, SuccessLasts
  <2>2. c \in server'.items => c \in server.items \/ Outcome(c) # "none"
    BY <1>1 DEF Moved, BegunInv, Outcome
  <2>3. CASE pc[c] = "idle"
    BY <1>1, <1>2, <2>1, <2>2, <2>3 DEF Outcome, Settled, BegunInv, Store!Follows
  <2>4. CASE pc[c] # "idle"
    BY <1>1, <1>2, <2>1, <2>2, <2>4 DEF Outcome, Settled, Store!Follows
  <2> QED BY <2>3, <2>4
<1> QED BY <1>3 DEF Store!Serve

(* The sync backend implements CardStore: with all its locks, pulls and    *)
(* uploads, a call gets one answer, and what was reported stays.           *)
THEOREM SyncIsAStore == Spec => StoreSpec
<1>1. Init => BegunInv
  BY InitBegun
<1>2. IInv /\ BegunInv /\ [Next]_vars => BegunInv'
  BY BegunStep
<1>3. Spec => []BegunInv
  BY <1>1, <1>2, SyncInvariance, PTL DEF Spec
<1>4. Init => Store!Init
  <2>1. Init => [c \in Calls |-> Outcome(c)] = [c \in Calls |-> "none"]
    BY DEF Init, Outcome
  <2>2. Init => server.items \cap Calls = {}
    BY DEF Init, Fresh, Calls
  <2> QED BY <2>1, <2>2 DEF Store!Init
<1>5. IInv /\ IInv' /\ BegunInv /\ [Next]_vars
        => [Store!Serve]_<<[c \in Calls |-> Outcome(c)], server.items \cap Calls>>
  BY ServeStep
<1> QED BY <1>3, <1>4, <1>5, SyncInvariance, PTL DEF Spec, StoreSpec, Store!Spec
=============================================================================
