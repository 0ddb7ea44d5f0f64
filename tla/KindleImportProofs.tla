------------------------- MODULE KindleImportProofs -------------------------
(***************************************************************************)
(* Users and Kindle uploads, for any number of requests, names and words.  *)
(* UserInv is what get-or-create keeps; ReadInv says an upload skips only  *)
(* words it saw a row of; CountInv counts, for a user and a word, the rows *)
(* there are and those under way against the uploads that overlapped and   *)
(* the rows added otherwise.                                               *)
(***************************************************************************)
EXTENDS KindleImport, FiniteSetTheorems, SequenceTheorems, TLAPS

USE UsersAssumption, KindleAssumption

Unresolved == {"idle", "arrived", "creating", "refused"}

(* A name has one row; a request has the id of its own user, from the step *)
(* that resolved it; a refused one will find a row.                        *)
UserInv ==
    /\ UsersTypeOK
    /\ uid \in [Requests -> Nat]
    /\ pc \in [Requests -> Unresolved \cup {"resolved", "inserting", "imported", "ended"}]
    /\ \A i, j \in DOMAIN users : users[i] = users[j] => i = j
    /\ \A r \in Requests :
          /\ pc[r] # "idle" => who[r] \in Names
          /\ pc[r] \in Unresolved => uid[r] = 0
          /\ pc[r] \notin Unresolved => uid[r] \in DOMAIN users /\ users[uid[r]] = who[r]
          /\ pc[r] = "refused" => RowsOf(who[r]) # {}

Uploads(id) == {r \in Requests : pc[r] = "inserting" /\ uid[r] = id}
Pending(id, w) == {r \in Requests : pc[r] = "inserting" /\ uid[r] = id /\ w \in todo[r]}

ReadInv ==
    drops = 0 => \A r \in Requests : \A w \in read[r] :
        /\ pc[r] = "inserting" => w \in todo[r] \/ rows[uid[r]][w] > 0
        /\ pc[r] = "imported" => rows[uid[r]][w] > 0

CountInv ==
    \A id \in DOMAIN rows :
        /\ Cardinality(Uploads(id)) <= peak[id]
        /\ \A w \in Words :
              rows[id][w] + Cardinality(Pending(id, w)) <= peak[id] + added[id]

SizesOK == Len(added) = Len(users) /\ Len(peak) = Len(users)

KindleInv == TypeOK /\ UserInv /\ SizesOK /\ ReadInv /\ CountInv

-----------------------------------------------------------------------------
(* Rows of a sequence: one is replaced, one is added.                      *)
LEMMA Replaced ==
    ASSUME NEW S, NEW s \in Seq(S), NEW i \in DOMAIN s, NEW e \in S
    PROVE  /\ [s EXCEPT ![i] = e] \in Seq(S)
           /\ Len([s EXCEPT ![i] = e]) = Len(s)
           /\ DOMAIN [s EXCEPT ![i] = e] = DOMAIN s
           /\ [s EXCEPT ![i] = e][i] = e
           /\ \A j \in DOMAIN s : j # i => [s EXCEPT ![i] = e][j] = s[j]
<1>1. i \in 1..Len(s)
  BY LenProperties
<1> QED BY <1>1, ExceptSeq, LenProperties

(* Two sets of uploads under way are finite and one is part of the other.  *)
LEMMA Finite ==
    ASSUME NEW id, NEW w
    PROVE  /\ IsFiniteSet(Uploads(id)) /\ Cardinality(Uploads(id)) \in Nat
           /\ IsFiniteSet(Pending(id, w)) /\ Cardinality(Pending(id, w)) \in Nat
           /\ Cardinality(Pending(id, w)) <= Cardinality(Uploads(id))
<1>1. Uploads(id) \in SUBSET Requests /\ Pending(id, w) \in SUBSET Uploads(id)
  BY DEF Uploads, Pending
<1>2. IsFiniteSet(Uploads(id))
  BY <1>1, FS_Subset
<1>3. IsFiniteSet(Pending(id, w)) /\ Cardinality(Pending(id, w)) <= Cardinality(Uploads(id))
  BY <1>1, <1>2, FS_Subset
<1> QED BY <1>2, <1>3, FS_CardinalityType

(* A user row that is found is the only one of its name.                   *)
LEMMA OneRow ==
    ASSUME UserInv, NEW n, NEW i \in RowsOf(n)
    PROVE  RowsOf(n) = {i}
  BY DEF UserInv, RowsOf

(* get-or-create keeps the names unique, and adds at most one row.         *)
LEMMA GetUserKeeps ==
    ASSUME UserInv, NEW r \in Requests, GetUser(r)
    PROVE  /\ UserInv'
           /\ \/ users' = users
              \/ \E n \in Names : users' = Append(users, n)
           /\ pc'[r] # "inserting" /\ pc[r] # "inserting"
           /\ pc'[r] # "imported" /\ pc[r] # "imported"
           /\ \A q \in Requests \ {r} : pc'[q] = pc[q] /\ uid'[q] = uid[q]
<1> USE DEF UserInv, UsersTypeOK, Unresolved
<1>1. ASSUME NEW n \in Names, Arrive(r, n) PROVE UserInv'
  BY <1>1 DEF Arrive, RowsOf
<1>2. ASSUME SelectUser(r) PROVE UserInv'
  <2> DEFINE found == RowsOf(who[r])
  <2>1. ASSUME found = {} PROVE UserInv'
    <3>1. uid' = [uid EXCEPT ![r] = 0] /\ pc' = [pc EXCEPT ![r] = "creating"]
          /\ UNCHANGED <<users, who>>
      BY <1>2, <2>1 DEF SelectUser
    <3> QED BY <1>2, <3>1 DEF SelectUser, RowsOf
  <2>2. ASSUME NEW i \in found PROVE UserInv'
    <3>1. found = {i}
      BY <2>2, OneRow
    <3>2. i \in DOMAIN users /\ i \in Nat \ {0} /\ users[i] = who[r] /\ pc[r] = "arrived"
      BY <1>2, <2>2 DEF RowsOf, SelectUser
    <3>3. uid' = [uid EXCEPT ![r] = i] /\ uid'[r] = i /\ UNCHANGED <<users, who>>
      BY <1>2, <3>1 DEF SelectUser
    <3>4. pc' = [pc EXCEPT ![r] = "resolved"]
      <4> HIDE DEF UserInv, UsersTypeOK
      <4>1. pc' = [pc EXCEPT ![r] = IF found = {} THEN "creating"
                                    ELSE IF uid'[r] = 0 THEN "refused" ELSE "resolved"]
        BY <1>2 DEF SelectUser
      <4> QED BY <2>2, <3>2, <3>3, <4>1
    <3> QED BY <3>2, <3>3, <3>4 DEF RowsOf
  <2> QED BY <2>1, <2>2
<1>3. ASSUME InsertUser(r) /\ IsUnique(who[r]) PROVE UserInv'
  <2>1. /\ users' = Append(users, who[r]) /\ who' = who
        /\ uid' = [uid EXCEPT ![r] = Len(users) + 1]
        /\ pc' = [pc EXCEPT ![r] = "resolved"] /\ who[r] \in Names
    BY <1>3 DEF InsertUser
  <2>2. /\ users' \in Seq(Names) /\ Len(users') = Len(users) + 1
        /\ \A i \in 1..Len(users) : users'[i] = users[i]
        /\ users'[Len(users) + 1] = who[r]
    BY <2>1, AppendProperties
  <2>3. \A i \in 1..Len(users) : users[i] # who[r]
    BY <1>3 DEF IsUnique, RowsOf
  <2>4. \A i, j \in DOMAIN users' : users'[i] = users'[j] => i = j
    BY <2>2, <2>3
  <2>5. \A n : RowsOf(n) \subseteq RowsOf(n)'
    BY <2>2 DEF RowsOf
  <2> QED BY <2>1, <2>2, <2>4, <2>5
<1>4. ASSUME InsertUser(r) /\ ~IsUnique(who[r]) PROVE UserInv'
  BY <1>4 DEF InsertUser, IsUnique, RowsOf
<1>5. ASSUME Retry(r) PROVE UserInv'
  BY <1>5 DEF Retry, RowsOf
<1>6. UserInv'
  BY <1>1, <1>2, <1>3, <1>4, <1>5 DEF GetUser
<1> HIDE DEF UserInv, UsersTypeOK
<1>7. users' = users \/ \E n \in Names : users' = Append(users, n)
  BY DEF UserInv, GetUser, Arrive, SelectUser, InsertUser, Retry
<1>8. /\ pc[r] \in Unresolved
      /\ \E p \in Unresolved \cup {"resolved"} : pc' = [pc EXCEPT ![r] = p]
      /\ \/ uid' = uid
         \/ \E i : uid' = [uid EXCEPT ![r] = i]
  BY DEF GetUser, Arrive, SelectUser, InsertUser, Retry
<1>9. /\ pc'[r] # "inserting" /\ pc[r] # "inserting"
      /\ pc'[r] # "imported" /\ pc[r] # "imported"
      /\ \A q \in Requests \ {r} : pc'[q] = pc[q] /\ uid'[q] = uid[q]
  BY <1>8 DEF UserInv
<1> QED BY <1>6, <1>7, <1>9

(* The steps after that leave the rows of users and the ids alone.         *)
LEMMA MoveOn ==
    ASSUME UserInv, NEW r \in Requests, pc[r] \notin Unresolved,
           NEW p \in {"inserting", "imported", "ended"},
           pc' = [pc EXCEPT ![r] = p], UNCHANGED <<users, who, uid>>
    PROVE  UserInv'
  BY DEF UserInv, UsersTypeOK, Unresolved, RowsOf

LEMMA StillUsers ==
    ASSUME UserInv, UNCHANGED userVars
    PROVE  UserInv'
  BY DEF UserInv, UsersTypeOK, RowsOf, userVars

LEMMA InitKindleInv == Init => KindleInv
<1> SUFFICES ASSUME Init PROVE KindleInv
  OBVIOUS
<1>1. UserInv
  BY DEF Init, UsersInit, UserInv, UsersTypeOK, Unresolved
<1>2. TypeOK /\ SizesOK
  BY <1>1 DEF Init, UsersInit, TypeOK, UserInv, SizesOK
<1>3. ReadInv /\ CountInv
  BY DEF Init, ReadInv, CountInv
<1> QED BY <1>1, <1>2, <1>3 DEF KindleInv

LEMMA LookUpKeeps ==
    ASSUME KindleInv, NEW n \in Names, NEW w \in Words, LookUp(n, w)
    PROVE  KindleInv'
<1> USE DEF KindleInv
<1>1. UserInv'
  BY StillUsers DEF LookUp
<1>2. TypeOK' /\ SizesOK'
  BY <1>1 DEF UserInv, LookUp, TypeOK, SizesOK, userVars
<1>3. ReadInv' /\ CountInv'
  BY DEF LookUp, userVars, ReadInv, CountInv, Uploads, Pending
<1> QED BY <1>1, <1>2, <1>3

(* A new user starts with nothing, and no upload of theirs is under way.   *)
LEMMA ResolveKeeps ==
    ASSUME KindleInv, NEW r \in Requests, Resolve(r)
    PROVE  KindleInv'
<1> USE DEF KindleInv
<1>1. UserInv' /\ (users' = users \/ \E n \in Names : users' = Append(users, n))
  BY GetUserKeeps DEF Resolve
<1>2. /\ UNCHANGED <<book, todo, read, drops>>
      /\ \A q \in Requests : pc'[q] = "inserting" <=> pc[q] = "inserting"
      /\ \A q \in Requests : pc'[q] = "imported" <=> pc[q] = "imported"
      /\ \A q \in Requests : pc[q] \in {"inserting", "imported"} => uid'[q] = uid[q]
  BY GetUserKeeps DEF Resolve
<1>3. \A id, w : Uploads(id)' = Uploads(id) /\ Pending(id, w)' = Pending(id, w)
  BY <1>2 DEF Uploads, Pending
<1>4. CASE users' = users
  <2>1. UNCHANGED <<rows, added, peak>>
    BY <1>4 DEF Resolve, TypeOK, UsersTypeOK
  <2>2. TypeOK' /\ SizesOK'
    BY <1>1, <1>2, <1>4, <2>1 DEF TypeOK, SizesOK, UserInv, Unresolved
  <2>3. ReadInv' /\ CountInv'
    BY <1>2, <1>3, <2>1 DEF ReadInv, CountInv
  <2> QED BY <1>1, <2>2, <2>3
<1>5. ASSUME NEW n \in Names, users' = Append(users, n) PROVE KindleInv'
  <2> DEFINE none == [w \in Words |-> 0]
  <2>0. PICK new : new = Len(users) + 1
    OBVIOUS
  <2>1. /\ Len(users) \in Nat /\ Len(users') = new /\ new \notin 1..Len(users)
        /\ 1..new = 1..Len(users) \cup {new}
    <3>1. Len(users) \in Nat /\ Len(users') = new
      BY <1>5, <2>0, AppendProperties, LenProperties DEF TypeOK, UsersTypeOK
    <3> QED BY <2>0, <3>1
  <2>2. rows' = Append(rows, none) /\ added' = Append(added, 0) /\ peak' = Append(peak, 0)
    BY <2>0, <2>1 DEF Resolve
  <2>3. none \in [Words -> Nat]
    OBVIOUS
  <2>4. /\ rows' \in Seq([Words -> Nat]) /\ Len(rows') = new /\ DOMAIN rows' = 1..new
        /\ \A i \in 1..Len(users) : rows'[i] = rows[i]
        /\ rows'[new] = none
    <3> HIDE DEF none
    <3>1. rows \in Seq([Words -> Nat]) /\ Len(rows) = Len(users)
      BY DEF TypeOK
    <3> QED BY <2>0, <2>2, <2>3, <3>1, AppendProperties, LenProperties
  <2>5. /\ added' \in Seq(Nat) /\ Len(added') = new /\ peak' \in Seq(Nat) /\ Len(peak') = new
        /\ \A i \in 1..Len(users) : added'[i] = added[i] /\ peak'[i] = peak[i]
        /\ added'[new] = 0 /\ peak'[new] = 0
    BY <2>0, <2>2, AppendProperties, LenProperties DEF TypeOK, SizesOK
  <2>6. TypeOK' /\ SizesOK'
    BY <1>1, <1>2, <2>1, <2>4, <2>5 DEF TypeOK, SizesOK, UserInv, Unresolved
  <2>7. \A q \in Requests : pc[q] \in {"inserting", "imported"} => uid[q] \in 1..Len(users)
    BY LenProperties DEF UserInv, UsersTypeOK, Unresolved
  <2>8. ReadInv'
    <3>1. \A q \in Requests : pc[q] \in {"inserting", "imported"} =>
             rows'[uid'[q]] = rows[uid[q]]
      BY <1>2, <2>4, <2>7
    <3> QED BY <1>2, <3>1 DEF ReadInv
  <2>9. \A w : Uploads(new) = {} /\ Pending(new, w) = {}
    BY <2>1, <2>7 DEF Uploads, Pending
  <2>10. CountInv'
    <3>1. ASSUME NEW id \in 1..Len(users)
          PROVE  /\ Cardinality(Uploads(id)') <= peak'[id]
                 /\ \A w \in Words :
                       rows'[id][w] + Cardinality(Pending(id, w)') <= peak'[id] + added'[id]
      BY <1>3, <2>4, <2>5, LenProperties DEF CountInv, TypeOK
    <3>2. /\ Cardinality(Uploads(new)') <= peak'[new]
          /\ \A w \in Words :
                rows'[new][w] + Cardinality(Pending(new, w)') <= peak'[new] + added'[new]
      <4>1. Uploads(new)' = {} /\ \A w : Pending(new, w)' = {}
        BY <1>3, <2>9
      <4>2. rows'[new] = none /\ peak'[new] = 0 /\ added'[new] = 0
        BY <2>4, <2>5
      <4> QED BY <4>1, <4>2, FS_EmptySet
    <3> QED BY <3>1, <3>2, <2>1, <2>4 DEF CountInv
  <2> QED BY <1>1, <2>6, <2>8, <2>10
<1> QED BY <1>1, <1>4, <1>5

(* Every user has a count in each of the three sequences.                  *)
LEMMA Domains ==
    ASSUME KindleInv
    PROVE  /\ DOMAIN rows = 1..Len(users) /\ DOMAIN users = 1..Len(users)
           /\ DOMAIN peak = 1..Len(users) /\ DOMAIN added = 1..Len(users)
           /\ \A id \in DOMAIN rows : /\ rows[id] \in [Words -> Nat]
                                      /\ peak[id] \in Nat /\ added[id] \in Nat
           /\ \A r \in Requests : pc[r] \notin Unresolved => uid[r] \in DOMAIN rows
<1> USE DEF KindleInv, TypeOK, SizesOK, UsersTypeOK, UserInv
<1>1. DOMAIN users = 1..Len(users)
  BY LenProperties
<1>2. DOMAIN rows = 1..Len(users) /\ \A id \in DOMAIN rows : rows[id] \in [Words -> Nat]
  <2>1. rows \in Seq([Words -> Nat]) /\ Len(rows) = Len(users)
    OBVIOUS
  <2> HIDE DEF TypeOK, UserInv
  <2> QED BY <2>1, LenProperties, ElementOfSeq
<1>3. DOMAIN peak = 1..Len(users) /\ \A id \in DOMAIN peak : peak[id] \in Nat
  BY LenProperties
<1>4. DOMAIN added = 1..Len(users) /\ \A id \in DOMAIN added : added[id] \in Nat
  BY LenProperties
<1>5. \A r \in Requests : pc[r] \notin Unresolved => uid[r] \in DOMAIN users
  OBVIOUS
<1> HIDE DEF TypeOK, UserInv, SizesOK, UsersTypeOK
<1> QED BY <1>1, <1>2, <1>3, <1>4, <1>5

(* The upload joins those under way; it only waits to insert words that    *)
(* have no row, and of those nobody has inserted any.                      *)
LEMMA SelectNewKeeps ==
    ASSUME KindleInv, NEW r \in Requests, SelectNew(r)
    PROVE  KindleInv'
<1> USE DEF KindleInv
<1> PICK id : id = uid[r]
  OBVIOUS
<1> DEFINE now == Cardinality({v \in Requests : pc'[v] = "inserting" /\ uid[v] = uid[r]})
           most == IF now > peak[id] THEN now ELSE peak[id]
<1>1. /\ pc[r] = "resolved" /\ pc' = [pc EXCEPT ![r] = "inserting"]
      /\ read' = [read EXCEPT ![r] = {w \in Words : book[who[r]][w] > 0}]
      /\ todo' = [todo EXCEPT ![r] = NewWords(id)]
      /\ peak' = [peak EXCEPT ![id] = most]
      /\ UNCHANGED <<users, who, uid, book, rows, added, drops>>
  BY DEF SelectNew
<1>2. id \in DOMAIN rows /\ id \in DOMAIN peak /\ users[id] = who[r]
  BY <1>1, Domains DEF Unresolved, UserInv
<1>3. UserInv'
  BY <1>1, MoveOn DEF Unresolved
<1>4. \A i, w : /\ i # id => Uploads(i)' = Uploads(i) /\ Pending(i, w)' = Pending(i, w)
                /\ w \notin NewWords(id) => Pending(i, w)' = Pending(i, w)
  BY <1>1 DEF Uploads, Pending, UserInv, TypeOK
<1>5. /\ IsFiniteSet(Uploads(id)') /\ Cardinality(Uploads(id)') \in Nat
      /\ \A w : Cardinality(Pending(id, w)') \in Nat
      /\ \A w : Cardinality(Pending(id, w)') <= Cardinality(Uploads(id)')
  <2>1. /\ Uploads(id)' \in SUBSET Requests
        /\ \A w : Pending(id, w)' \in SUBSET (Uploads(id)')
    BY DEF Uploads, Pending
  <2> QED BY <2>1, FS_Subset, FS_CardinalityType
<1>6. now = Cardinality(Uploads(id)')
  BY <1>1 DEF Uploads
<1> HIDE DEF now
<1>7. most \in Nat /\ now <= most /\ peak[id] <= most
  BY <1>2, <1>5, <1>6, Domains
<1> HIDE DEF most
<1>8. /\ peak' \in Seq(Nat) /\ Len(peak') = Len(users) /\ peak'[id] = most
      /\ \A i \in DOMAIN rows : i # id => peak'[i] = peak[i]
  BY <1>1, <1>2, <1>7, Replaced, Domains DEF TypeOK, SizesOK
<1>9. TypeOK' /\ SizesOK'
  BY <1>1, <1>3, <1>8 DEF TypeOK, SizesOK, UserInv, Unresolved, NewWords
<1>10. ReadInv'
  <2>1. \A w \in Words : book[who[r]][w] > 0 => w \in NewWords(id) \/ rows[id][w] > 0
    BY <1>2, Domains DEF NewWords
  <2> QED BY <1>1, <2>1 DEF ReadInv, UserInv, TypeOK
<1>11. CountInv'
  <2>1. ASSUME NEW i \in DOMAIN rows
        PROVE  /\ Cardinality(Uploads(i)') <= peak'[i]
               /\ \A w \in Words :
                     rows[i][w] + Cardinality(Pending(i, w)') <= peak'[i] + added[i]
    <3>1. CASE i # id
      BY <3>1, <1>4, <1>8 DEF CountInv
    <3>2. CASE i = id
      <4>1. ASSUME NEW w \in Words, w \in NewWords(id)
            PROVE  rows[id][w] + Cardinality(Pending(id, w)') <= peak'[id] + added[id]
        <5>1. rows[id][w] = 0 /\ added[id] \in Nat
          BY <4>1, <1>2, Domains DEF NewWords
        <5> QED BY <5>1, <1>5, <1>6, <1>7, <1>8
      <4>2. ASSUME NEW w \in Words, w \notin NewWords(id)
            PROVE  rows[id][w] + Cardinality(Pending(id, w)') <= peak'[id] + added[id]
        <5>1. rows[id][w] + Cardinality(Pending(id, w)') <= peak[id] + added[id]
          BY <4>2, <1>2, <1>4 DEF CountInv
        <5>2. rows[id][w] \in Nat /\ peak[id] \in Nat /\ added[id] \in Nat
          BY <1>2, Domains
        <5>3. Cardinality(Pending(id, w)') \in Nat /\ peak'[id] \in Nat /\ peak[id] <= peak'[id]
          BY <1>5, <1>7, <1>8
        <5> QED BY <5>1, <5>2, <5>3
      <4> QED BY <3>2, <4>1, <4>2, <1>6, <1>7, <1>8
    <3> QED BY <3>1, <3>2
  <2> QED BY <1>1, <2>1 DEF CountInv
<1> QED BY <1>3, <1>9, <1>10, <1>11

(* A row takes the place of a pending insert.                              *)
LEMMA InsertNewKeeps ==
    ASSUME KindleInv, NEW r \in Requests, InsertNew(r)
    PROVE  KindleInv'
<1> USE DEF KindleInv
<1> PICK id : id = uid[r]
  OBVIOUS
<1> DEFINE more == [w \in Words |-> IF w \in todo[r] THEN rows[id][w] + 1 ELSE rows[id][w]]
<1>1. /\ pc[r] = "inserting" /\ pc' = [pc EXCEPT ![r] = "imported"]
      /\ rows' = [rows EXCEPT ![id] = more]
      /\ UNCHANGED <<users, who, uid, book, todo, read, added, peak, drops>>
  BY DEF InsertNew, Copies
<1>2. id \in DOMAIN rows /\ rows[id] \in [Words -> Nat]
  BY <1>1, Domains DEF Unresolved
<1>3. UserInv'
  BY <1>1, MoveOn DEF Unresolved
<1>4. more \in [Words -> Nat] /\ \A w \in Words : rows[id][w] <= more[w]
  BY <1>2
<1>5. \A w \in todo[r] : w \in Words => more[w] > 0
  BY <1>2
<1>6. /\ rows' \in Seq([Words -> Nat]) /\ Len(rows') = Len(rows) /\ DOMAIN rows' = DOMAIN rows
      /\ rows'[id] = more /\ \A i \in DOMAIN rows : i # id => rows'[i] = rows[i]
  <2> HIDE DEF more
  <2> QED BY <1>1, <1>2, <1>4, Replaced DEF TypeOK
<1>7. TypeOK' /\ SizesOK'
  BY <1>1, <1>3, <1>6 DEF TypeOK, SizesOK, UserInv, Unresolved
<1>8. ReadInv'
  <2>1. read[r] \subseteq Words /\ \A q \in Requests : read[q] \subseteq Words
    BY DEF TypeOK
  <2>2. \A q \in Requests, w \in Words :
           pc[q] \notin Unresolved /\ rows[uid[q]][w] > 0 => rows'[uid[q]][w] > 0
    <3>1. \A i \in DOMAIN rows, w \in Words :
             rows[i][w] \in Nat /\ rows'[i][w] \in Nat /\ rows[i][w] <= rows'[i][w]
      <4> HIDE DEF more
      <4> TAKE i \in DOMAIN rows, w \in Words
      <4>1. rows[i] \in [Words -> Nat]
        BY Domains
      <4>2. CASE i = id
        BY <4>1, <4>2, <1>4, <1>6
      <4>3. CASE i # id
        BY <4>1, <4>3, <1>6
      <4> QED BY <4>2, <4>3
    <3> QED BY <3>1, Domains
  <2>3. ASSUME drops' = 0, NEW q \in Requests, NEW w \in read[q]
        PROVE  /\ pc'[q] = "inserting" => w \in todo[q] \/ rows'[uid[q]][w] > 0
               /\ pc'[q] = "imported" => rows'[uid[q]][w] > 0
    <3>1. CASE q = r
      BY <3>1, <2>1, <2>2, <2>3, <1>1, <1>5, <1>6 DEF ReadInv, UserInv, Unresolved
    <3>2. CASE q # r
      BY <3>2, <2>1, <2>2, <2>3, <1>1 DEF ReadInv, UserInv, Unresolved
    <3> QED BY <3>1, <3>2
  <2> QED BY <1>1, <2>3 DEF ReadInv
<1>9. CountInv'
  <2>1. ASSUME NEW i \in DOMAIN rows
        PROVE  Cardinality(Uploads(i)') <= peak[i]
    <3>1. Uploads(i)' \in SUBSET Uploads(i)
      BY <1>1 DEF Uploads, UserInv
    <3>2. Cardinality(Uploads(i)') <= Cardinality(Uploads(i)) /\ Cardinality(Uploads(i)') \in Nat
      BY <3>1, Finite, FS_Subset, FS_CardinalityType
    <3>3. Cardinality(Uploads(i)) <= peak[i] /\ peak[i] \in Nat
      BY Domains DEF CountInv
    <3>4. Cardinality(Uploads(i)) \in Nat
      BY Finite
    <3> QED BY <3>2, <3>3, <3>4
  <2>2. ASSUME NEW i \in DOMAIN rows, NEW w \in Words
        PROVE  rows'[i][w] + Cardinality(Pending(i, w)') <= peak[i] + added[i]
    <3>1. rows[i][w] + Cardinality(Pending(i, w)) <= peak[i] + added[i]
      BY DEF CountInv
    <3>2. CASE i = id /\ w \in todo[r]
      <4>1. Pending(i, w)' = Pending(i, w) \ {r} /\ r \in Pending(i, w)
        BY <1>1, <3>2 DEF Pending, UserInv
      <4>2. Cardinality(Pending(i, w)') = Cardinality(Pending(i, w)) - 1
        BY <4>1, Finite, FS_RemoveElement
      <4>3. rows'[i][w] = rows[i][w] + 1
        BY <1>6, <3>2
      <4> QED BY <3>1, <4>2, <4>3, <1>2, <3>2, Finite
    <3>3. CASE ~(i = id /\ w \in todo[r])
      <4>1. Pending(i, w)' = Pending(i, w)
        BY <1>1, <3>3 DEF Pending, UserInv
      <4>2. rows'[i][w] = rows[i][w]
        BY <1>6, <3>3
      <4> QED BY <3>1, <4>1, <4>2
    <3> QED BY <3>2, <3>3
  <2> QED BY <1>1, <1>6, <2>1, <2>2 DEF CountInv
<1> QED BY <1>3, <1>7, <1>8, <1>9

LEMMA FailKeeps ==
    ASSUME KindleInv, NEW r \in Requests, Fail(r)
    PROVE  KindleInv'
<1> USE DEF KindleInv
<1>1. /\ pc[r] = "inserting" /\ pc' = [pc EXCEPT ![r] = "ended"]
      /\ UNCHANGED <<users, who, uid, book, rows, todo, read, added, peak, drops>>
  BY DEF Fail, importVars
<1>2. UserInv'
  BY <1>1, MoveOn DEF Unresolved
<1>3. TypeOK' /\ SizesOK'
  BY <1>1, <1>2 DEF TypeOK, SizesOK, UserInv, Unresolved
<1>4. ReadInv'
  BY <1>1 DEF ReadInv, UserInv
<1>5. \A i, w : Uploads(i)' \in SUBSET Uploads(i) /\ Pending(i, w)' \in SUBSET Pending(i, w)
  BY <1>1 DEF Uploads, Pending, UserInv
<1>6. \A i, w : /\ Cardinality(Uploads(i)') <= Cardinality(Uploads(i))
                /\ Cardinality(Pending(i, w)') <= Cardinality(Pending(i, w))
                /\ Cardinality(Uploads(i)') \in Nat /\ Cardinality(Pending(i, w)') \in Nat
                /\ Cardinality(Uploads(i)) \in Nat /\ Cardinality(Pending(i, w)) \in Nat
  BY <1>5, Finite, FS_Subset, FS_CardinalityType
<1>7. CountInv'
  <2> SUFFICES ASSUME NEW i \in DOMAIN rows
               PROVE  /\ Cardinality(Uploads(i)') <= peak[i]
                      /\ \A w \in Words :
                            rows[i][w] + Cardinality(Pending(i, w)') <= peak[i] + added[i]
    BY <1>1 DEF CountInv
  <2>1. peak[i] \in Nat /\ added[i] \in Nat /\ rows[i] \in [Words -> Nat]
    BY Domains
  <2> QED BY <2>1, <1>6 DEF CountInv
<1> QED BY <1>2, <1>3, <1>4, <1>7

(* One step that changes the rows of one user and word, and neither        *)
(* starts, ends nor feeds an upload.                                       *)
LEMMA RowChange ==
    ASSUME KindleInv, NEW id \in DOMAIN rows, NEW w \in Words, NEW n \in Nat,
           rows' = [rows EXCEPT ![id] = [@ EXCEPT ![w] = n]]
    PROVE  /\ rows' \in Seq([Words -> Nat]) /\ Len(rows') = Len(rows)
           /\ DOMAIN rows' = DOMAIN rows /\ rows'[id][w] = n
           /\ \A i \in DOMAIN rows, v \in Words :
                 i # id \/ v # w => rows'[i][v] = rows[i][v]
<1> PICK e : e = [rows[id] EXCEPT ![w] = n]
  OBVIOUS
<1>1. e \in [Words -> Nat] /\ e[w] = n /\ \A v \in Words : v # w => e[v] = rows[id][v]
  BY Domains
<1>2. rows' = [rows EXCEPT ![id] = e]
  OBVIOUS
<1> QED BY <1>1, <1>2, Replaced DEF KindleInv, TypeOK

(* add_entry's row counts as added.                                        *)
LEMMA AddRowKeeps ==
    ASSUME KindleInv, NEW r \in Requests, NEW w \in Words, AddRow(r, w)
    PROVE  KindleInv'
<1> USE DEF KindleInv
<1> PICK id : id = uid[r]
  OBVIOUS
<1>1. /\ pc[r] = "resolved" /\ pc' = [pc EXCEPT ![r] = "ended"]
      /\ rows' = [rows EXCEPT ![id] = [@ EXCEPT ![w] = rows[id][w] + 1]]
      /\ added' = [added EXCEPT ![id] = @ + 1]
      /\ UNCHANGED <<users, who, uid, book, todo, read, peak, drops>>
  BY DEF AddRow
<1>2. /\ id \in DOMAIN rows /\ id \in DOMAIN added
      /\ rows[id] \in [Words -> Nat] /\ added[id] \in Nat
  BY <1>1, Domains DEF Unresolved
<1> PICK n \in Nat : n = rows[id][w] + 1
  BY <1>2
<1>3. rows' = [rows EXCEPT ![id] = [@ EXCEPT ![w] = n]]
  BY <1>1
<1>4. UserInv'
  BY <1>1, MoveOn DEF Unresolved
<1>5. /\ added' \in Seq(Nat) /\ Len(added') = Len(added) /\ added'[id] = added[id] + 1
      /\ \A i \in DOMAIN added : i # id => added'[i] = added[i]
  <2> PICK m \in Nat : m = added[id] + 1
    BY <1>2
  <2>1. added \in Seq(Nat) /\ added' = [added EXCEPT ![id] = m]
    BY <1>1 DEF TypeOK
  <2> QED BY <2>1, <1>2, Replaced
<1>6. TypeOK' /\ SizesOK'
  <2>1. rows' \in Seq([Words -> Nat]) /\ Len(rows') = Len(rows)
    BY <1>2, <1>3, RowChange
  <2> QED BY <2>1, <1>1, <1>4, <1>5 DEF TypeOK, SizesOK, UserInv, Unresolved
<1>7. \A i \in DOMAIN rows, v \in Words : rows[i][v] \in Nat /\ rows'[i][v] >= rows[i][v]
                                            /\ rows'[i][v] \in Nat
  <2>1. \A i \in DOMAIN rows, v \in Words : rows[i][v] \in Nat
    BY Domains
  <2> QED BY <1>2, <1>3, <2>1, RowChange
<1>8. ReadInv'
  <2>1. \A q \in Requests : read[q] \subseteq Words
    BY DEF TypeOK
  <2>2. \A q \in Requests, v \in Words :
           pc[q] \notin Unresolved /\ rows[uid[q]][v] > 0 => rows'[uid[q]][v] > 0
    BY <1>7, Domains
  <2>3. \A q \in Requests : pc'[q] \in {"inserting", "imported"} => pc[q] = pc'[q]
    BY <1>1 DEF UserInv
  <2> QED BY <1>1, <2>1, <2>2, <2>3 DEF ReadInv, Unresolved
<1>9. \A i, v : Uploads(i)' = Uploads(i) /\ Pending(i, v)' = Pending(i, v)
  BY <1>1 DEF Uploads, Pending, UserInv
<1>10. CountInv'
  <2>1. ASSUME NEW i \in DOMAIN rows, NEW v \in Words
        PROVE  rows'[i][v] + Cardinality(Pending(i, v)) <= peak[i] + added'[i]
    <3>1. rows[i][v] + Cardinality(Pending(i, v)) <= peak[i] + added[i]
      BY DEF CountInv
    <3>2. /\ rows[i][v] \in Nat /\ peak[i] \in Nat /\ added[i] \in Nat /\ i \in DOMAIN added
          /\ Cardinality(Pending(i, v)) \in Nat
      BY Domains, Finite
    <3>3. CASE i = id
      <4>1. rows'[i][v] <= rows[i][v] + 1 /\ rows'[i][v] \in Nat
        BY <1>2, <1>3, <3>2, <3>3, RowChange
      <4>2. added'[i] = added[i] + 1
        BY <1>5, <3>3
      <4> QED BY <3>1, <3>2, <4>1, <4>2
    <3>4. CASE i # id
      <4>1. rows'[i][v] = rows[i][v] /\ added'[i] = added[i]
        BY <1>2, <1>3, <1>5, <3>2, <3>4, RowChange
      <4> QED BY <3>1, <4>1
    <3> QED BY <3>3, <3>4
  <2> QED BY <1>1, <1>2, <1>3, <1>9, <2>1, RowChange DEF CountInv
<1> QED BY <1>4, <1>6, <1>8, <1>10

(* A dropped row was counted; after that uploads may miss a word.          *)
LEMMA DropRowKeeps ==
    ASSUME KindleInv, NEW id \in DOMAIN rows, NEW w \in Words, DropRow(id, w)
    PROVE  KindleInv'
<1> USE DEF KindleInv
<1>1. /\ rows[id][w] > 0 /\ drops' = drops + 1
      /\ rows' = [rows EXCEPT ![id] = [@ EXCEPT ![w] = rows[id][w] - 1]]
      /\ UNCHANGED <<users, who, uid, pc, book, todo, read, added, peak>>
  BY DEF DropRow, userVars
<1>2. rows[id] \in [Words -> Nat]
  BY Domains
<1> PICK n \in Nat : n = rows[id][w] - 1
  BY <1>1, <1>2
<1>3. rows' = [rows EXCEPT ![id] = [@ EXCEPT ![w] = n]]
  BY <1>1
<1>4. UserInv'
  BY <1>1, StillUsers DEF userVars
<1>5. TypeOK' /\ SizesOK' /\ drops' # 0
  <2>1. rows' \in Seq([Words -> Nat]) /\ Len(rows') = Len(rows)
    BY <1>3, RowChange
  <2>2. drops' \in Nat /\ drops' # 0
    BY <1>1 DEF TypeOK
  <2>3. UsersTypeOK' /\ pc' = pc
    BY <1>1, <1>4 DEF UserInv
  <2> QED BY <2>1, <2>2, <2>3, <1>1 DEF TypeOK, SizesOK
<1>6. ReadInv'
  BY <1>5 DEF ReadInv
<1>7. \A i, v : Uploads(i)' = Uploads(i) /\ Pending(i, v)' = Pending(i, v)
  BY <1>1 DEF Uploads, Pending
<1>8. CountInv'
  <2>1. ASSUME NEW i \in DOMAIN rows, NEW v \in Words
        PROVE  rows'[i][v] + Cardinality(Pending(i, v)) <= peak[i] + added[i]
    <3>1. rows[i][v] + Cardinality(Pending(i, v)) <= peak[i] + added[i]
      BY DEF CountInv
    <3>2. /\ rows[i][v] \in Nat /\ peak[i] \in Nat /\ added[i] \in Nat
          /\ Cardinality(Pending(i, v)) \in Nat
      BY Domains, Finite
    <3>3. rows'[i][v] \in Nat /\ rows'[i][v] <= rows[i][v]
      BY <1>3, <3>2, RowChange
    <3> QED BY <3>1, <3>2, <3>3
  <2> QED BY <1>1, <1>3, <1>7, <2>1, RowChange DEF CountInv
<1> QED BY <1>4, <1>5, <1>6, <1>8

LEMMA StillKindle ==
    ASSUME KindleInv, UNCHANGED vars
    PROVE  KindleInv'
<1> USE DEF vars, userVars, importVars
<1>1. UserInv' /\ TypeOK' /\ SizesOK'
  BY StillUsers DEF KindleInv, UserInv, TypeOK, UsersTypeOK, SizesOK
<1>2. ReadInv' /\ CountInv'
  BY DEF KindleInv, ReadInv, CountInv, Uploads, Pending
<1> QED BY <1>1, <1>2 DEF KindleInv

-----------------------------------------------------------------------------
(* Users and uploads keep their invariant, whoever interleaves with whom.  *)
THEOREM KindleInvariance == Spec => []KindleInv
<1>1. KindleInv /\ [Next]_vars => KindleInv'
  BY LookUpKeeps, DropRowKeeps, ResolveKeeps, SelectNewKeeps, InsertNewKeeps, FailKeeps,
     AddRowKeeps, StillKindle DEF Next
<1> QED BY <1>1, InitKindleInv, PTL DEF Spec

(* Concurrent first requests of one name end up with one row               *)
(* (current_user and _resolve_user over users.username's unique index).    *)
THEOREM OneRowPerUser == Spec => []OneUserRow
<1>1. KindleInv => OneUserRow
  <2> SUFFICES ASSUME KindleInv, NEW r \in Requests
               PROVE  /\ uid[r] # 0 => RowsOf(who[r]) = {uid[r]}
                      /\ pc[r] = "refused" => \E i \in RowsOf(who[r]) : RowsOf(who[r]) = {i}
    BY DEF OneUserRow
  <2>1. UserInv /\ \A n, i : i \in RowsOf(n) => RowsOf(n) = {i}
    BY OneRow DEF KindleInv
  <2>2. uid[r] # 0 => uid[r] \in RowsOf(who[r])
    BY <2>1 DEF UserInv, RowsOf
  <2> QED BY <2>1, <2>2 DEF UserInv
<1> QED BY <1>1, KindleInvariance, PTL

(* An upload loses no word it read, and repeated or overlapping uploads    *)
(* never give a word more rows than import_kindle_entries ran at a time.   *)
THEOREM ImportedOnce == Spec => []EachWordOnce
<1>1. KindleInv => EachWordOnce
  <2> SUFFICES ASSUME KindleInv PROVE EachWordOnce
    OBVIOUS
  <2>1. ASSUME NEW id \in DOMAIN rows, NEW w \in Words
        PROVE  rows[id][w] <= peak[id] + added[id]
    <3>1. rows[id][w] + Cardinality(Pending(id, w)) <= peak[id] + added[id]
      BY DEF KindleInv, CountInv
    <3>2. /\ rows[id][w] \in Nat /\ peak[id] \in Nat /\ added[id] \in Nat
          /\ Cardinality(Pending(id, w)) \in Nat
      BY Domains, Finite
    <3> QED BY <3>1, <3>2
  <2> QED BY <2>1 DEF EachWordOnce, KindleInv, ReadInv
<1> QED BY <1>1, KindleInvariance, PTL
=============================================================================
