---------------------------- MODULE KindleImport ----------------------------
(***************************************************************************)
(* Uploads of a Kindle's vocab.db (operations.import_kindle_entries) next  *)
(* to everything else that inserts and deletes rows of the same users.     *)
(* Each request first resolves its user (Users).  An upload then reads the *)
(* file, asks once which of its words the user has rows of, inserts the    *)
(* others and commits.                                                     *)
(***************************************************************************)
EXTENDS Users, FiniteSets

CONSTANTS
    Words,
    MaxRows,        \* bound: rows of a word in the file
    MaxDrops        \* bound: rows a worker drops as duplicates

ASSUME KindleAssumption == {MaxRows, MaxDrops} \subseteq Nat /\ IsFiniteSet(Requests)

VARIABLES
    book,       \* rows of each word in the result of _QUERY, per reader
    rows,       \* committed entry rows of each user and word
    todo,       \* words each upload will insert
    read,       \* words each upload has read from the file
    added,      \* rows of each user inserted by other requests (history)
    peak,       \* most uploads of each user at the same time (history)
    drops

importVars == <<book, rows, todo, read, added, peak, drops>>
vars == <<userVars, importVars>>

TypeOK ==
    /\ UsersTypeOK
    /\ book \in [Names -> [Words -> Nat]]
    /\ rows \in Seq([Words -> Nat]) /\ Len(rows) = Len(users)
    /\ pc \in [Requests -> {"idle", "arrived", "creating", "refused", "resolved",
                            "inserting", "imported", "ended"}]
    /\ todo \in [Requests -> SUBSET Words] /\ read \in [Requests -> SUBSET Words]
    /\ added \in Seq(Nat) /\ peak \in Seq(Nat)
    /\ drops \in Nat

Init ==
    /\ UsersInit
    /\ book = [n \in Names |-> [w \in Words |-> 0]]
    /\ rows = <<>> /\ added = <<>> /\ peak = <<>>
    /\ todo = [r \in Requests |-> {}] /\ read = [r \in Requests |-> {}]
    /\ drops = 0

(* The user reads on.  Lookups never leave the file, and a word whose two  *)
(* latest lookups have the same time comes twice.                          *)
LookUp(n, w) ==
    /\ book[n][w] < MaxRows
    /\ book' = [book EXCEPT ![n][w] = @ + 1]
    /\ UNCHANGED <<userVars, rows, todo, read, added, peak, drops>>

Resolve(r) ==
    /\ GetUser(r)
    /\ IF Len(users') > Len(users)
       THEN /\ rows' = Append(rows, [w \in Words |-> 0])
            /\ added' = Append(added, 0) /\ peak' = Append(peak, 0)
       ELSE UNCHANGED <<rows, added, peak>>
    /\ UNCHANGED <<book, todo, read, drops>>

(* SELECT word WHERE user_id = ... AND word IN (...)                       *)
NewWordsUnchecked(id) == {w \in Words : book[users[id]][w] > 0} \* mutant: no skip
NewWordsOfAnyone(id) ==                         \* mutant: user_id forgotten
    {w \in Words : book[users[id]][w] > 0 /\ \A i \in DOMAIN rows : rows[i][w] = 0}
NewWords(id) == {w \in Words : book[users[id]][w] > 0 /\ rows[id][w] = 0}

SelectNew(r) ==
    /\ pc[r] = "resolved"
    /\ read' = [read EXCEPT ![r] = {w \in Words : book[who[r]][w] > 0}]
    /\ todo' = [todo EXCEPT ![r] = NewWords(uid[r])]
    /\ pc' = [pc EXCEPT ![r] = "inserting"]
    /\ LET now == Cardinality({v \in Requests : pc'[v] = "inserting" /\ uid[v] = uid[r]})
       IN  peak' = [peak EXCEPT ![uid[r]] = IF now > @ THEN now ELSE @]
    /\ UNCHANGED <<users, who, uid, book, rows, added, drops>>

(* `seen' keeps one row of each word.                                      *)
CopiesInFile(n, w) == book[n][w]                \* mutant: no `seen'
Copies(n, w) == 1

InsertNew(r) ==
    /\ pc[r] = "inserting"
    /\ rows' = [rows EXCEPT ![uid[r]] =
                  [w \in Words |-> IF w \in todo[r] THEN @[w] + Copies(who[r], w)
                                                    ELSE @[w]]]
    /\ pc' = [pc EXCEPT ![r] = "imported"]
    /\ UNCHANGED <<users, who, uid, book, todo, read, added, peak, drops>>

(* The request dies before its commit.                                     *)
Fail(r) ==
    /\ pc[r] = "inserting"
    /\ pc' = [pc EXCEPT ![r] = "ended"]
    /\ UNCHANGED <<users, who, uid, importVars>>

(* add_entry never looks for a row of the same word.                       *)
AddRow(r, w) ==
    /\ pc[r] = "resolved"
    /\ pc' = [pc EXCEPT ![r] = "ended"]
    /\ rows' = [rows EXCEPT ![uid[r]][w] = @ + 1]
    /\ added' = [added EXCEPT ![uid[r]] = @ + 1]
    /\ UNCHANGED <<users, who, uid, book, todo, read, peak, drops>>

(* The worker finds the word's meaning under another word and deletes it.  *)
DropRow(id, w) ==
    /\ drops < MaxDrops /\ drops' = drops + 1
    /\ rows[id][w] > 0
    /\ rows' = [rows EXCEPT ![id][w] = @ - 1]
    /\ UNCHANGED <<userVars, book, todo, read, added, peak>>

Next ==
    \/ \E n \in Names, w \in Words : LookUp(n, w)
    \/ \E id \in DOMAIN rows, w \in Words : DropRow(id, w)
    \/ \E r \in Requests :
          \/ Resolve(r) \/ SelectNew(r) \/ InsertNew(r) \/ Fail(r)
          \/ \E w \in Words : AddRow(r, w)

Spec == Init /\ [][Next]_vars

-----------------------------------------------------------------------------
(* An upload leaves a row of every word it read with the user who sent it  *)
(* (unless the worker drops it), and uploads alone never give a word more  *)
(* rows than there were uploads at the same time: sent one after another,  *)
(* whatever is in the file twice, they give it one.                        *)
EachWordOnce ==
    /\ \A r \in Requests :
          pc[r] = "imported" /\ drops = 0 => \A w \in read[r] : rows[uid[r]][w] > 0
    /\ \A id \in DOMAIN rows, w \in Words : rows[id][w] <= peak[id] + added[id]
=============================================================================
