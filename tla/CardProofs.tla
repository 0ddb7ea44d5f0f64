----------------------------- MODULE CardProofs -----------------------------
(***************************************************************************)
(* Rotation and backfill for any set of entries, calls and failures: cards *)
(* stay in step with their rows, the deck advances together, and a         *)
(* rotation that runs alone repairs what others left behind.  Then the     *)
(* fronts those cards show, for any sentences, examples and distractors.   *)
(***************************************************************************)
EXTENDS CardUpkeep, CardFront, FiniteSetTheorems, WellFoundedInduction, TLAPS

USE UpkeepAssumption

(* A call holds a change of the entry it is visiting, never of a dead one, *)
(* and only between push and commit.                                       *)
CallsInv ==
    \A q \in Calls :
        /\ pc[q] = "idle" => todo[q] = {}
        /\ pc[q] # "committing" => dirty[q] = {}
        /\ pc[q] = "committing" =>
              todo[q] # {} /\ dirty[q] = {Current(q)} /\ Current(q) \notin Dead

AloneInv ==
    /\ \A q \in alone : Running = {q}
    /\ ~overlapped => alone = Running

(* What the session of an undisturbed call holds is still so: entries to   *)
(* visit are as loaded, the visited one is as pushed, and a rotation has   *)
(* put the others that rotate in step.                                     *)
SessionInv ==
    \A q \in alone :
        /\ \A e \in todo[q] \ dirty[q] : draft[q][e] = row[e]
        /\ \A e \in dirty[q] : draft[q][e] = card[e]
        /\ q \in Rotations =>
              /\ \A e \in dirty[q] : card[e].index = row[e].index + 1 /\ card[e].filled = row[e].filled
              /\ todo[q] \subseteq Rotatable
              /\ \A e \in Rotatable \ todo[q] : card[e] = row[e]
        /\ q \in Backfills =>
              /\ \A e \in dirty[q] : card[e].index = row[e].index
              /\ \A e \in todo[q] : ~row[e].filled

CardsInv ==
    ~overlapped =>
        /\ \A e \in Entries : card[e].index - row[e].index \in {0, 1}
        /\ FilledIsShown
        /\ faults = 0 => \A e \in Entries : card[e] # row[e] => \E q \in alone : e \in dirty[q]

(* Where the rotation under way is going to take an entry.                 *)
Goal(e) == IF \E q \in Rotations : e \in todo[q] THEN row[e].index + 1 ELSE row[e].index

DeckInv == faults = 0 /\ ~overlapped => \A d, e \in Reached : Goal(d) = Goal(e)

UpkeepInv == TypeOK /\ CallsInv /\ AloneInv /\ SessionInv /\ CardsInv /\ DeckInv

-----------------------------------------------------------------------------
(* A set of naturals has a smallest one.                                   *)
LEMMA MinOfNats ==
    ASSUME NEW S \in SUBSET Nat, S # {}
    PROVE  Min(S) \in S /\ \A y \in S : Min(S) <= y
<1> DEFINE R == OpToRel(<, Nat)
<1>1. IsWellFoundedOn(R, Nat)
  BY NatLessThanWellFounded
<1>2. PICK x \in S : \A y \in S : ~(<<y, x>> \in R)
  <2> HIDE DEF R
  <2> QED BY <1>1, WFMin
<1>3. ASSUME NEW y \in S, y < x PROVE FALSE
  <2>1. <<y, x>> \in Nat \X Nat /\ <<y, x>>[1] < <<y, x>>[2]
    BY <1>3
  <2>2. <<y, x>> \in R
    BY <2>1, Zenon DEF OpToRel
  <2> QED BY <1>2, <2>2
<1>4. \A y \in S : x <= y
  BY <1>3
<1> QED BY <1>4 DEF Min

LEMMA Visiting ==
    ASSUME TypeOK, NEW q \in Calls, todo[q] # {}
    PROVE  /\ Current(q) \in todo[q] /\ Current(q) \in Entries
           /\ \A e \in todo[q] : Current(q) <= e
  BY MinOfNats DEF TypeOK, Current

(* A record is its two fields.                                             *)
LEMMA Faces ==
    /\ \A f \in Face : f.index \in Nat /\ f.filled \in BOOLEAN
    /\ \A f, g \in Face : f.index = g.index /\ f.filled = g.filled => f = g
<1>1. \A f \in Face : f = [index |-> f.index, filled |-> f.filled]
  BY DEF Face
<1>2. \A f \in Face : f.index \in Nat /\ f.filled \in BOOLEAN
  BY Zenon DEF Face
<1> QED BY <1>1, <1>2, Zenon

LEMMA SetIndex ==
    ASSUME NEW f \in Face, NEW n \in Nat
    PROVE  /\ [f EXCEPT !.index = n] \in Face
           /\ [f EXCEPT !.index = n].index = n
           /\ [f EXCEPT !.index = n].filled = f.filled
  BY DEF Face

LEMMA SetFilled ==
    ASSUME NEW f \in Face, NEW b \in BOOLEAN
    PROVE  /\ [f EXCEPT !.filled = b] \in Face
           /\ [f EXCEPT !.filled = b].index = f.index
           /\ [f EXCEPT !.filled = b].filled = b
  BY DEF Face

(* Only a running call can be undisturbed, and it is while nothing has     *)
(* overlapped.                                                             *)
LEMMA OnlyOne ==
    ASSUME AloneInv, TypeOK, NEW q \in Calls, pc[q] # "idle"
    PROVE  alone \subseteq {q} /\ (~overlapped => alone = {q} /\ Running = {q})
  BY DEF AloneInv, Running, TypeOK

(* Rows of dead entries are never written, so what rotates among them and  *)
(* which entries they cut off stays the same.                              *)
LEMMA ReachedSame ==
    ASSUME \A e \in Dead : row'[e] = row[e]
    PROVE  Reached' = Reached
<1>1. (Dead \cap Rotatable)' = Dead \cap Rotatable
  BY DEF Rotatable
<1> QED BY <1>1 DEF Reached

LEMMA ReachedRotates == Reached \subseteq Rotatable /\ Reached \subseteq Entries
  BY DEF Reached, Rotatable

(* What the call at hand makes of the entry it visits.                     *)
LEMMA ChangedFace ==
    ASSUME TypeOK, NEW q \in Calls, todo[q] # {}
    PROVE  /\ Changed(q) \in Face
           /\ q \in Rotations => /\ Changed(q).index = draft[q][Current(q)].index + 1
                                 /\ Changed(q).filled = draft[q][Current(q)].filled
           /\ q \in Backfills => Changed(q).index = draft[q][Current(q)].index
<1> DEFINE d == draft[q][Current(q)]
<1>1. d \in Face
  <2>1. Current(q) \in Entries /\ draft[q] \in [Entries -> Face]
    BY Visiting DEF TypeOK
  <2> QED BY <2>1
<1> HIDE DEF d
<1>2. d.index + 1 \in Nat
  BY <1>1, Faces
<1>3. CASE q \in Rotations
  <2>1. Changed(q) = [d EXCEPT !.index = d.index + 1] /\ q \notin Backfills
    BY <1>3 DEF Changed, d
  <2> QED BY <2>1, <1>1, <1>2, <1>3, SetIndex DEF d
<1>4. CASE q \notin Rotations
  <2>1. PICK b \in BOOLEAN : b <=> (Current(q) \notin Mute)
    BY Zenon
  <2>2. Changed(q) = [d EXCEPT !.filled = b]
    <3>1. Changed(q) = [d EXCEPT !.filled = Current(q) \notin Mute]
      BY <1>4, Zenon DEF Changed, d
    <3>2. b = (Current(q) \notin Mute)
      BY <2>1, SMT
    <3> QED BY <3>1, <3>2, Zenon
  <2> QED BY <2>2, <1>1, <1>4, SetFilled DEF d
<1> QED BY <1>3, <1>4

LEMMA InitUpkeepInv == Init => UpkeepInv
<1> SUFFICES ASSUME Init PROVE UpkeepInv
  OBVIOUS
<1>1. PICK filled \in SUBSET Entries :
         row = [e \in Entries |-> [index |-> 0, filled |-> e \in filled]]
  BY Zenon DEF Init
<1>2. /\ card = row /\ pc = [q \in Calls |-> "idle"] /\ todo = [q \in Calls |-> {}]
      /\ draft = [q \in Calls |-> Closed] /\ dirty = [q \in Calls |-> {}]
      /\ alone = {} /\ overlapped = FALSE /\ rotations = 0 /\ faults = 0
  BY Zenon DEF Init
<1>3. \A e \in Entries : row[e] \in Face /\ row[e].index = 0
  <2> SUFFICES ASSUME NEW e \in Entries PROVE row[e] \in Face /\ row[e].index = 0
    OBVIOUS
  <2>1. row[e] = [index |-> 0, filled |-> e \in filled]
    BY <1>1, Zenon
  <2>2. CASE e \in filled
    <3>1. row[e] = [index |-> 0, filled |-> TRUE]
      BY <2>1, <2>2, Zenon
    <3> QED BY <3>1 DEF Face
  <2>3. CASE e \notin filled
    <3>1. (e \in filled) = FALSE
      BY <2>3, SMT
    <3>2. row[e] = [index |-> 0, filled |-> FALSE]
      BY <2>1, <3>1, Zenon
    <3> QED BY <3>2 DEF Face
  <2> QED BY <2>2, <2>3
<1>4. row \in [Entries -> Face]
  <2>1. row = [e \in Entries |-> row[e]]
    BY <1>1, Zenon
  <2> QED BY <1>3, <2>1
<1>5. Closed \in [Entries -> Face]
  BY DEF Closed, Face
<1>6. TypeOK
  BY <1>2, <1>4, <1>5 DEF TypeOK
<1>7. CallsInv /\ AloneInv /\ SessionInv
  BY <1>2 DEF CallsInv, AloneInv, SessionInv, Running
<1>8. CardsInv
  <2>1. \A e \in Entries : card[e].index - row[e].index = 0 /\ card[e] = row[e]
    BY <1>2, <1>3
  <2> QED BY <2>1 DEF CardsInv, FilledIsShown
<1>9. DeckInv
  <2>1. \A e \in Entries : Goal(e) = 0
    BY <1>2, <1>3 DEF Goal, Calls
  <2> QED BY <2>1, ReachedRotates DEF DeckInv
<1> QED BY <1>6, <1>7, <1>8, <1>9 DEF UpkeepInv

(* A call that starts alone has loaded the rows as they are; one that      *)
(* starts next to others ends what could be said of all of them.           *)
LEMMA StartKeeps ==
    ASSUME UpkeepInv, NEW q \in Calls, NEW visits \in SUBSET Entries, Start(q, visits),
           q \in Rotations => visits = Rotatable,
           q \in Backfills => \A e \in visits : ~row[e].filled,
           rotations' \in Nat
    PROVE  UpkeepInv'
<1> USE DEF UpkeepInv
<1>1. /\ pc[q] = "idle" /\ pc' = [pc EXCEPT ![q] = "pushing"]
      /\ todo' = [todo EXCEPT ![q] = visits] /\ draft' = [draft EXCEPT ![q] = row]
      /\ UNCHANGED <<row, card, dirty, faults>>
  BY DEF Start
<1>2. /\ Running = {} => alone' = {q} /\ overlapped' = overlapped
      /\ Running # {} => alone' = {} /\ overlapped'
      /\ overlapped' \in BOOLEAN
  BY Zenon DEF Start, TypeOK
<1>3. TypeOK'
  BY <1>1, <1>2 DEF TypeOK
<1>4. CallsInv'
  <2>1. ASSUME NEW p \in Calls
        PROVE  (/\ pc[p] = "idle" => todo[p] = {}
                /\ pc[p] # "committing" => dirty[p] = {}
                /\ pc[p] = "committing" =>
                      todo[p] # {} /\ dirty[p] = {Current(p)} /\ Current(p) \notin Dead)'
    BY <1>1 DEF CallsInv, TypeOK, Current
  <2> QED BY <2>1 DEF CallsInv
<1>5. Running' = Running \cup {q}
  BY <1>1 DEF Running, TypeOK
<1>6. AloneInv'
  BY <1>2, <1>5 DEF AloneInv
<1>7. CASE Running # {}
  BY <1>2, <1>3, <1>4, <1>6, <1>7 DEF SessionInv, CardsInv, DeckInv
<1>8. CASE Running = {}
  <2>1. alone = {} /\ alone' = {q} /\ overlapped' = overlapped
    BY <1>2, <1>8 DEF AloneInv
  <2>2. \A p \in Calls : todo[p] = {} /\ dirty[p] = {}
    BY <1>8 DEF CallsInv, Running
  <2>3. Rotatable' = Rotatable
    BY <1>1 DEF Rotatable
  <2>4. SessionInv'
    <3>1. dirty'[q] = {} /\ draft'[q] = row' /\ todo'[q] = visits /\ row' = row
      BY <1>1, <2>2 DEF TypeOK
    <3> QED BY <2>1, <2>3, <3>1 DEF SessionInv
  <2>5. CardsInv'
    BY <1>1, <2>1 DEF CardsInv, FilledIsShown
  <2>6. DeckInv'
    <3>1. Reached' = Reached
      BY <1>1, ReachedSame
    <3>2. \A e \in Reached : Goal(e) = row[e].index
      BY <2>2 DEF Goal, Calls
    <3>3. CASE q \in Rotations
      <4>1. \A e \in Reached : Goal(e)' = row[e].index + 1
        BY <1>1, <3>3, ReachedRotates DEF Goal, TypeOK
      <4> QED BY <1>1, <2>1, <3>1, <3>2, <4>1 DEF DeckInv
    <3>4. CASE q \notin Rotations
      <4>1. \A e \in Reached : Goal(e)' = row[e].index
        BY <1>1, <2>2, <3>4 DEF Goal, TypeOK, Calls
      <4> QED BY <1>1, <2>1, <3>1, <3>2, <4>1 DEF DeckInv
    <3> QED BY <3>3, <3>4
  <2> QED BY <1>3, <1>4, <1>6, <2>4, <2>5, <2>6
<1> QED BY <1>7, <1>8

(* What an undisturbed call pushes is its row with one rotation more, or   *)
(* with the exercise.                                                      *)
LEMMA RenderedFace ==
    ASSUME UpkeepInv, NEW q \in Calls, pc[q] = "pushing", todo[q] # {}
    PROVE  /\ Rendered(q) \in Face /\ Current(q) \in Entries
           /\ q \in alone =>
                 /\ q \in Rotations => /\ Rendered(q).index = row[Current(q)].index + 1
                                       /\ Rendered(q).filled = row[Current(q)].filled
                 /\ q \in Backfills => /\ Rendered(q).index = row[Current(q)].index
                                       /\ ~row[Current(q)].filled
                 /\ Rendered(q).index - row[Current(q)].index \in {0, 1}
                 /\ row[Current(q)].filled => Rendered(q).filled
<1> USE DEF UpkeepInv
<1>1. Rendered(q) \in Face /\ Current(q) \in Entries /\ Current(q) \in todo[q]
  BY ChangedFace, Visiting DEF Rendered
<1>2. ASSUME q \in alone PROVE draft[q][Current(q)] = row[Current(q)]
  BY <1>1, <1>2 DEF SessionInv, CallsInv
<1>3. row[Current(q)].index \in Nat
  BY <1>1, Faces DEF TypeOK
<1>4. ASSUME q \in alone, q \in Rotations
      PROVE  /\ Rendered(q).index = row[Current(q)].index + 1
             /\ Rendered(q).filled = row[Current(q)].filled
  BY <1>2, <1>4, ChangedFace DEF Rendered
<1>5. ASSUME q \in alone, q \in Backfills
      PROVE  Rendered(q).index = row[Current(q)].index /\ ~row[Current(q)].filled
  BY <1>1, <1>2, <1>5, ChangedFace DEF Rendered, SessionInv
<1>6. q \in Rotations \/ q \in Backfills
  BY DEF Calls
<1> HIDE DEF UpkeepInv
<1> QED BY <1>1, <1>3, <1>4, <1>5, <1>6

LEMMA PushKeeps ==
    ASSUME UpkeepInv, NEW q \in Calls, Push(q)
    PROVE  UpkeepInv'
<1> USE DEF UpkeepInv
<1> PICK c : c = Current(q)
  OBVIOUS
<1> PICK n : n = Rendered(q)
  OBVIOUS
<1>1. /\ pc[q] = "pushing" /\ todo[q] # {} /\ c \notin Dead
      /\ card' = [card EXCEPT ![c] = n]
      /\ draft' = [draft EXCEPT ![q] = [@ EXCEPT ![c] = n]]
      /\ dirty' = [dirty EXCEPT ![q] = @ \cup {c}]
      /\ pc' = [pc EXCEPT ![q] = "committing"]
      /\ UNCHANGED <<row, todo, alone, overlapped, rotations, faults>>
  BY DEF Push, Rendered
<1>2. n \in Face /\ c \in Entries /\ c \in todo[q] /\ dirty[q] = {}
  BY <1>1, RenderedFace, Visiting DEF CallsInv
<1>3. dirty'[q] = {c} /\ \A p \in Calls : p # q => dirty'[p] = dirty[p]
  BY <1>1, <1>2 DEF TypeOK
<1>4. /\ draft' \in [Calls -> [Entries -> Face]] /\ draft'[q][c] = n
      /\ \A e \in Entries : e # c => draft'[q][e] = draft[q][e]
  BY <1>1, <1>2 DEF TypeOK
<1>5. /\ card' \in [Entries -> Face] /\ card'[c] = n
      /\ \A e \in Entries : e # c => card'[e] = card[e]
  BY <1>1, <1>2 DEF TypeOK
<1>6. TypeOK'
  BY <1>1, <1>2, <1>3, <1>4, <1>5 DEF TypeOK
<1>7. CallsInv'
  BY <1>1, <1>2, <1>3 DEF CallsInv, TypeOK, Current
<1>8. AloneInv' /\ alone \subseteq {q} /\ (~overlapped => alone = {q}) /\ Running' = Running
  <2>1. Running' = Running
    BY <1>1 DEF Running, TypeOK
  <2> QED BY <1>1, <2>1, OnlyOne DEF AloneInv
<1>9. Rotatable' = Rotatable /\ Reached' = Reached
  BY <1>1, ReachedSame DEF Rotatable
<1>10. SessionInv'
  <2> SUFFICES ASSUME q \in alone
               PROVE  /\ \A e \in todo[q] \ {c} : draft'[q][e] = row[e]
                      /\ draft'[q][c] = card'[c]
                      /\ q \in Rotations =>
                            /\ card'[c].index = row[c].index + 1 /\ card'[c].filled = row[c].filled
                            /\ todo[q] \subseteq Rotatable
                            /\ \A e \in Rotatable \ todo[q] : card'[e] = row[e]
                      /\ q \in Backfills =>
                            /\ card'[c].index = row[c].index
                            /\ \A e \in todo[q] : ~row[e].filled
    BY <1>1, <1>3, <1>8, <1>9 DEF SessionInv
  <2>1. todo[q] \subseteq Entries /\ Rotatable \subseteq Entries
    BY DEF TypeOK, Rotatable
  <2>2. /\ q \in Rotations => card'[c].index = row[c].index + 1 /\ card'[c].filled = row[c].filled
        /\ q \in Backfills => card'[c].index = row[c].index
    BY <1>1, <1>5, RenderedFace
  <2> QED BY <2>1, <2>2, <1>2, <1>4, <1>5 DEF SessionInv
<1>11. CardsInv'
  <2> SUFFICES ASSUME ~overlapped
               PROVE  /\ \A e \in Entries : card'[e].index - row[e].index \in {0, 1}
                      /\ \A e \in Entries : row[e].filled => card'[e].filled
                      /\ faults = 0 => \A e \in Entries : card'[e] # row[e] => e = c
    BY <1>1, <1>3, <1>8 DEF CardsInv, FilledIsShown
  <2>1. n.index - row[c].index \in {0, 1} /\ (row[c].filled => n.filled)
    BY <1>1, <1>8, RenderedFace
  <2>2. faults = 0 => \A e \in Entries : card[e] = row[e]
    BY <1>2, <1>8 DEF CardsInv
  <2> QED BY <2>1, <2>2, <1>5 DEF CardsInv, FilledIsShown
<1>12. DeckInv'
  BY <1>1, <1>9 DEF DeckInv, Goal
<1> QED BY <1>6, <1>7, <1>8, <1>10, <1>11, <1>12

(* What a commit writes: the column the call changed of the entry at hand. *)
LEMMA Committed ==
    ASSUME UpkeepInv, NEW q \in Calls, Commit(q)
    PROVE  /\ row' \in [Entries -> Face]
           /\ \A e \in Entries : e # Current(q) => row'[e] = row[e]
           /\ q \in Rotations => /\ row'[Current(q)].index = draft[q][Current(q)].index
                                 /\ row'[Current(q)].filled = row[Current(q)].filled
           /\ q \in Backfills => /\ row'[Current(q)].filled = draft[q][Current(q)].filled
                                 /\ row'[Current(q)].index = row[Current(q)].index
<1> USE DEF UpkeepInv
<1> PICK c : c = Current(q)
  OBVIOUS
<1>1. dirty[q] = {c} /\ c \in Entries /\ draft[q][c] \in Face
  <2>1. dirty[q] = {c} /\ todo[q] # {}
    BY DEF Commit, CallsInv
  <2>2. c \in Entries /\ draft[q] \in [Entries -> Face]
    BY <2>1, Visiting DEF TypeOK
  <2> QED BY <2>1, <2>2
<1>2. \A e \in Entries : row'[e] = Updated(q, e) /\ row[e] \in Face
  BY DEF Commit, TypeOK
<1>3. \A e \in Entries : e # c => row'[e] = row[e]
  BY <1>1, <1>2 DEF Updated
<1>4. draft[q][c].index \in Nat /\ draft[q][c].filled \in BOOLEAN
  BY <1>1, Faces
<1>5. CASE q \in Rotations
  <2>1. row'[c] = [row[c] EXCEPT !.index = draft[q][c].index] /\ q \notin Backfills
    BY <1>1, <1>2, <1>5 DEF Updated
  <2>2. row'[c] \in Face
    BY <1>1, <1>2, <1>4, <2>1, SetIndex
  <2>3. row' \in [Entries -> Face]
    BY <1>2, <1>3, <2>2 DEF Commit
  <2> QED BY <1>1, <1>2, <1>3, <1>4, <2>1, <2>3, SetIndex
<1>6. CASE q \in Backfills
  <2>1. row'[c] = [row[c] EXCEPT !.filled = draft[q][c].filled] /\ q \notin Rotations
    BY <1>1, <1>2, <1>6 DEF Updated
  <2>2. row'[c] \in Face
    BY <1>1, <1>2, <1>4, <2>1, SetFilled
  <2>3. row' \in [Entries -> Face]
    BY <1>2, <1>3, <2>2 DEF Commit
  <2> QED BY <1>1, <1>2, <1>3, <1>4, <2>1, <2>3, SetFilled
<1> QED BY <1>5, <1>6 DEF Calls

LEMMA CommitKeeps ==
    ASSUME UpkeepInv, NEW q \in Calls, Commit(q)
    PROVE  UpkeepInv'
<1> USE DEF UpkeepInv
<1> PICK c : c = Current(q)
  OBVIOUS
<1>1. /\ pc[q] = "committing" /\ pc' = [pc EXCEPT ![q] = "pushing"]
      /\ dirty' = [dirty EXCEPT ![q] = {}]
      /\ todo' = [todo EXCEPT ![q] = @ \ {c}]
      /\ UNCHANGED <<card, draft, alone, overlapped, rotations, faults>>
  BY DEF Commit
<1>2. dirty[q] = {c} /\ c \in todo[q] /\ c \in Entries /\ c \notin Dead
  BY <1>1, Visiting DEF CallsInv
<1>3. /\ row' \in [Entries -> Face] /\ \A e \in Entries : e # c => row'[e] = row[e]
      /\ q \in Rotations => row'[c].index = draft[q][c].index /\ row'[c].filled = row[c].filled
      /\ q \in Backfills => row'[c].filled = draft[q][c].filled /\ row'[c].index = row[c].index
  BY Committed
<1>4. todo'[q] = todo[q] \ {c} /\ dirty'[q] = {}
      /\ \A p \in Calls : p # q => todo'[p] = todo[p] /\ dirty'[p] = dirty[p]
  BY <1>1 DEF TypeOK
<1>5. TypeOK'
  <2>1. /\ pc' \in [Calls -> {"idle", "pushing", "committing"}]
        /\ todo' \in [Calls -> SUBSET Entries] /\ dirty' \in [Calls -> SUBSET Entries]
    BY <1>1 DEF TypeOK
  <2>2. \A p \in Calls : dirty'[p] # {} => pc'[p] = "committing"
    BY <1>1, <1>4 DEF TypeOK
  <2> QED BY <1>1, <1>3, <2>1, <2>2 DEF TypeOK
<1>6. CallsInv'
  BY <1>1, <1>4 DEF CallsInv, TypeOK, Current
<1>7. AloneInv' /\ alone \subseteq {q} /\ (~overlapped => alone = {q} /\ Running = {q})
  <2>1. Running' = Running
    BY <1>1 DEF Running, TypeOK
  <2> QED BY <1>1, <2>1, OnlyOne DEF AloneInv
<1>8. Reached' = Reached
  <2>1. \A e \in Dead : row'[e] = row[e]
    BY <1>2, <1>3
  <2> QED BY <2>1, ReachedSame
<1>9. ASSUME q \in alone PROVE row'[c] = card[c]
  <2>1. row'[c] \in Face /\ card[c] \in Face
    BY <1>2, <1>3 DEF TypeOK
  <2>2. draft[q][c] = card[c]
    BY <1>2, <1>9 DEF SessionInv
  <2>3. CASE q \in Rotations
    BY <2>1, <2>2, <2>3, <1>2, <1>3, <1>9, Faces DEF SessionInv
  <2>4. CASE q \in Backfills
    BY <2>1, <2>2, <2>4, <1>2, <1>3, <1>9, Faces DEF SessionInv
  <2> QED BY <2>3, <2>4 DEF Calls
<1>10. SessionInv'
  <2> SUFFICES ASSUME q \in alone
               PROVE  /\ \A e \in todo[q] \ {c} : draft[q][e] = row'[e]
                      /\ q \in Rotations =>
                            /\ todo[q] \ {c} \subseteq Rotatable'
                            /\ \A e \in Rotatable' \ (todo[q] \ {c}) : card[e] = row'[e]
                      /\ q \in Backfills => \A e \in todo[q] \ {c} : ~row'[e].filled
    BY <1>1, <1>4, <1>7 DEF SessionInv
  <2>1. todo[q] \subseteq Entries
    BY DEF TypeOK
  <2>2. \A e \in todo[q] \ {c} : row'[e] = row[e] /\ draft[q][e] = row[e]
    BY <2>1, <1>2, <1>3 DEF SessionInv
  <2>3. q \in Rotations => Rotatable' = Rotatable
    BY <1>2, <1>3 DEF Rotatable
  <2>4. ASSUME q \in Rotations, NEW e \in Rotatable \ (todo[q] \ {c}) PROVE card[e] = row'[e]
    <3>1. CASE e = c
      BY <3>1, <1>9
    <3>2. CASE e # c
      BY <2>4, <3>2, <1>3 DEF SessionInv, Rotatable
    <3> QED BY <3>1, <3>2
  <2>5. q \in Rotations => todo[q] \subseteq Rotatable
    BY DEF SessionInv
  <2>6. q \in Backfills => \A e \in todo[q] : ~row[e].filled
    BY DEF SessionInv
  <2> QED BY <2>2, <2>3, <2>4, <2>5, <2>6
<1>11. CardsInv'
  <2> SUFFICES ASSUME ~overlapped
               PROVE  /\ \A e \in Entries : card[e].index - row'[e].index \in {0, 1}
                      /\ \A e \in Entries : row'[e].filled => card[e].filled
                      /\ faults = 0 => \A e \in Entries : card[e] = row'[e]
    BY <1>1 DEF CardsInv, FilledIsShown
  <2>1. row'[c] = card[c] /\ card[c].index \in Nat
    BY <1>2, <1>7, <1>9, Faces DEF TypeOK
  <2>2. card[c].index - row'[c].index = 0
    BY <2>1
  <2>3. faults = 0 => \A e \in Entries : e # c => card[e] = row[e]
    BY <1>2, <1>7 DEF CardsInv
  <2> QED BY <2>1, <2>2, <2>3, <1>3 DEF CardsInv, FilledIsShown
<1>12. DeckInv'
  <2> SUFFICES ASSUME faults = 0, ~overlapped
               PROVE  \A e \in Reached : Goal(e)' = Goal(e)
    BY <1>1, <1>8 DEF DeckInv
  <2>1. q \in alone /\ \A p \in Calls : p # q => todo[p] = {}
    BY <1>7 DEF CallsInv, Running
  <2>2. ASSUME q \in Rotations, NEW e \in Entries PROVE Goal(e)' = Goal(e)
    <3>1. (\E p \in Rotations : e \in todo'[p]) <=> e \in todo[q] /\ e # c
      BY <2>1, <2>2, <1>4 DEF Calls
    <3>2. (\E p \in Rotations : e \in todo[p]) <=> e \in todo[q]
      BY <2>1, <2>2 DEF Calls
    <3>3. CASE e = c
      <4>1. row'[c].index = row[c].index + 1
        BY <2>1, <2>2, <1>2, <1>9 DEF SessionInv
      <4> QED BY <3>1, <3>2, <3>3, <4>1, <1>2 DEF Goal
    <3>4. CASE e # c
      BY <3>1, <3>2, <3>4, <1>3 DEF Goal
    <3> QED BY <3>3, <3>4
  <2>3. ASSUME q \in Backfills, NEW e \in Entries PROVE Goal(e)' = Goal(e)
    <3>1. q \notin Rotations
      BY <2>3
    <3>2. \A p \in Rotations : todo'[p] = todo[p]
      BY <3>1, <1>4 DEF Calls
    <3>3. row'[e].index = row[e].index
      BY <2>3, <1>3
    <3> QED BY <3>2, <3>3 DEF Goal
  <2> QED BY <2>2, <2>3, ReachedRotates DEF Calls
<1> QED BY <1>5, <1>6, <1>7, <1>10, <1>11, <1>12

(* A call that ends leaves no session behind, and nobody runs undisturbed. *)
LEMMA EndKeeps ==
    ASSUME UpkeepInv, NEW q \in Calls, pc[q] # "idle", End(q), UNCHANGED <<row, rotations>>,
           card' \in [Entries -> Face], faults' \in Nat
    PROVE  /\ TypeOK' /\ CallsInv' /\ AloneInv' /\ SessionInv'
           /\ alone' = {} /\ todo'[q] = {} /\ Reached' = Reached
           /\ \A p \in Calls : p # q => todo'[p] = todo[p]
<1> USE DEF UpkeepInv
<1>1. /\ pc' = [pc EXCEPT ![q] = "idle"] /\ todo' = [todo EXCEPT ![q] = {}]
      /\ draft' = [draft EXCEPT ![q] = Closed] /\ dirty' = [dirty EXCEPT ![q] = {}]
      /\ alone' = alone \ {q} /\ UNCHANGED overlapped
  BY DEF End
<1>2. Closed \in [Entries -> Face]
  BY DEF Closed, Face
<1>3. /\ todo'[q] = {} /\ dirty'[q] = {} /\ pc'[q] = "idle"
      /\ \A p \in Calls : p # q => todo'[p] = todo[p] /\ dirty'[p] = dirty[p] /\ pc'[p] = pc[p]
  BY <1>1 DEF TypeOK
<1>4. TypeOK'
  BY <1>1, <1>2, <1>3 DEF TypeOK
<1>5. CallsInv'
  BY <1>3 DEF CallsInv, Current
<1>6. alone' = {} /\ Running' = Running \ {q}
  BY <1>1, <1>3, OnlyOne DEF Running
<1>7. AloneInv'
  BY <1>1, <1>6, OnlyOne DEF AloneInv
<1>8. Reached' = Reached
  BY ReachedSame
<1> QED BY <1>3, <1>4, <1>5, <1>6, <1>7, <1>8 DEF SessionInv

(* A push that raises has at most shown on the card what the next call     *)
(* will push again; without a fault the card is gone and nothing changed.  *)
LEMMA RaiseKeepsCards ==
    ASSUME UpkeepInv, NEW q \in Calls, PushRaises(q)
    PROVE  /\ card' \in [Entries -> Face] /\ faults' \in Nat
           /\ \A e \in Entries : e # Current(q) => card'[e] = card[e]
           /\ ~overlapped =>
                 /\ \A e \in Entries : card'[e].index - row[e].index \in {0, 1}
                 /\ \A e \in Entries : row[e].filled => card'[e].filled
           /\ faults' = 0 => /\ faults = 0 /\ card' = card /\ Current(q) \in Dead
                             /\ ~overlapped => \A e \in Entries : card[e] = row[e]
<1> USE DEF UpkeepInv
<1> PICK c : c = Current(q)
  OBVIOUS
<1> PICK n : n = Rendered(q)
  OBVIOUS
<1>1. /\ pc[q] = "pushing" /\ todo[q] # {} /\ dirty[q] = {}
      /\ \/ c \in Dead /\ UNCHANGED <<card, faults>>
         \/ faults' = faults + 1 /\ card' \in {card, [card EXCEPT ![c] = n]}
  BY DEF PushRaises, CallsInv
<1>2. n \in Face /\ c \in Entries
  BY <1>1, RenderedFace
<1>3. /\ card' \in [Entries -> Face] /\ card'[c] \in {card[c], n}
      /\ \A e \in Entries : e # c => card'[e] = card[e]
  BY <1>1, <1>2 DEF TypeOK
<1>4. faults \in Nat /\ faults' \in Nat
  BY <1>1 DEF TypeOK
<1>5. ASSUME ~overlapped
      PROVE  /\ \A e \in Entries : card'[e].index - row[e].index \in {0, 1}
             /\ \A e \in Entries : row[e].filled => card'[e].filled
  <2>1. n.index - row[c].index \in {0, 1} /\ (row[c].filled => n.filled)
    BY <1>1, <1>5, OnlyOne, RenderedFace
  <2>2. \A e \in Entries : /\ card[e].index - row[e].index \in {0, 1}
                           /\ row[e].filled => card[e].filled
    BY <1>5 DEF CardsInv, FilledIsShown
  <2> QED BY <2>1, <2>2, <1>3
<1>6. ASSUME faults' = 0
      PROVE  /\ faults = 0 /\ card' = card /\ c \in Dead
             /\ ~overlapped => \A e \in Entries : card[e] = row[e]
  <2>1. faults = 0 /\ card' = card /\ c \in Dead
    BY <1>1, <1>4, <1>6
  <2>2. ~overlapped => \A p \in alone : dirty[p] = {}
    BY <1>1, OnlyOne
  <2> QED BY <2>1, <2>2 DEF CardsInv
<1> QED BY <1>3, <1>4, <1>5, <1>6

LEMMA FinishKeeps ==
    ASSUME UpkeepInv, NEW q \in Calls, Finish(q)
    PROVE  UpkeepInv'
<1> USE DEF UpkeepInv
<1>1. /\ pc[q] = "pushing" /\ todo[q] = {} /\ dirty[q] = {} /\ UNCHANGED overlapped
      /\ End(q) /\ UNCHANGED <<row, card, rotations, faults>>
  BY DEF Finish, End, CallsInv
<1>2. card' \in [Entries -> Face] /\ faults' \in Nat
  BY <1>1 DEF TypeOK
<1>3. /\ TypeOK' /\ CallsInv' /\ AloneInv' /\ SessionInv' /\ alone' = {} /\ Reached' = Reached
      /\ \A p \in Calls : todo'[p] = todo[p]
  BY <1>1, <1>2, EndKeeps
<1>4. CardsInv'
  <2>1. ~overlapped => \A p \in alone : dirty[p] = {}
    BY <1>1, OnlyOne
  <2> QED BY <1>1, <2>1 DEF CardsInv, FilledIsShown
<1>5. DeckInv'
  BY <1>1, <1>3 DEF DeckInv, Goal, Calls
<1> QED BY <1>3, <1>4, <1>5

(* A rotation that a dead card cuts off has rotated whatever comes before  *)
(* that card.                                                              *)
LEMMA RotationFailsKeeps ==
    ASSUME UpkeepInv, NEW q \in Calls, RotationFails(q)
    PROVE  UpkeepInv'
<1> USE DEF UpkeepInv
<1> PICK c : c = Current(q)
  OBVIOUS
<1>1. /\ q \in Rotations /\ PushRaises(q) /\ End(q) /\ UNCHANGED <<row, rotations, overlapped>>
      /\ pc[q] = "pushing" /\ todo[q] # {}
  BY DEF RotationFails, End, PushRaises
<1>0. /\ card' \in [Entries -> Face] /\ faults' \in Nat
      /\ ~overlapped =>
            /\ \A e \in Entries : card'[e].index - row[e].index \in {0, 1}
            /\ \A e \in Entries : row[e].filled => card'[e].filled
      /\ faults' = 0 => /\ faults = 0 /\ card' = card /\ c \in Dead
                        /\ ~overlapped => \A e \in Entries : card[e] = row[e]
  BY <1>1, RaiseKeepsCards
<1>2. /\ TypeOK' /\ CallsInv' /\ AloneInv' /\ SessionInv' /\ alone' = {} /\ Reached' = Reached
      /\ todo'[q] = {} /\ \A p \in Calls : p # q => todo'[p] = todo[p]
  BY <1>1, <1>0, EndKeeps
<1>3. CardsInv'
  BY <1>1, <1>0 DEF CardsInv, FilledIsShown
<1>4. DeckInv'
  <2> SUFFICES ASSUME faults' = 0, ~overlapped
               PROVE  \A e \in Reached : Goal(e)' = Goal(e)
    BY <1>1, <1>2, <1>0 DEF DeckInv
  <2>1. c \in Dead /\ c \in todo[q] /\ \A e \in todo[q] : c <= e
    BY <1>0, <1>1, Visiting
  <2>2. q \in alone /\ \A p \in Calls : p # q => todo[p] = {}
    BY <1>1, OnlyOne DEF CallsInv, Running
  <2>3. c \in Dead \cap Rotatable
    BY <1>1, <2>1, <2>2 DEF SessionInv
  <2>4. ASSUME NEW e \in Reached PROVE e \notin todo[q]
    <3>1. e < c /\ e \in Nat /\ c \in Nat
      BY <2>3 DEF Reached
    <3> QED BY <2>1, <3>1
  <2> QED BY <1>1, <1>2, <2>2, <2>4 DEF Goal, Calls
<1> QED BY <1>2, <1>3, <1>4

LEMMA BackfillSkipsKeeps ==
    ASSUME UpkeepInv, NEW q \in Calls, BackfillSkips(q)
    PROVE  UpkeepInv'
<1> USE DEF UpkeepInv
<1> PICK c : c = Current(q)
  OBVIOUS
<1>1. /\ q \in Backfills /\ q \notin Rotations /\ PushRaises(q)
      /\ todo' = [todo EXCEPT ![q] = @ \ {c}]
      /\ UNCHANGED <<row, pc, draft, dirty, alone, overlapped, rotations>>
      /\ pc[q] = "pushing" /\ todo[q] # {} /\ dirty[q] = {}
  BY DEF BackfillSkips, PushRaises, CallsInv
<1>0. /\ card' \in [Entries -> Face] /\ faults' \in Nat
      /\ ~overlapped =>
            /\ \A e \in Entries : card'[e].index - row[e].index \in {0, 1}
            /\ \A e \in Entries : row[e].filled => card'[e].filled
      /\ faults' = 0 => /\ faults = 0 /\ card' = card /\ c \in Dead
                        /\ ~overlapped => \A e \in Entries : card[e] = row[e]
  BY <1>1, RaiseKeepsCards
<1>2. todo'[q] = todo[q] \ {c} /\ \A p \in Calls : p # q => todo'[p] = todo[p]
  BY <1>1 DEF TypeOK
<1>3. TypeOK'
  BY <1>1, <1>0 DEF TypeOK
<1>4. CallsInv'
  BY <1>1, <1>2 DEF CallsInv, Current
<1>5. AloneInv' /\ alone \subseteq {q}
  BY <1>1, OnlyOne DEF AloneInv, Running
<1>6. SessionInv'
  BY <1>1, <1>2, <1>5 DEF SessionInv
<1>7. CardsInv'
  BY <1>1, <1>0 DEF CardsInv, FilledIsShown
<1>8. DeckInv'
  <2>1. Reached' = Reached
    BY <1>1, ReachedSame
  <2>2. \A p \in Rotations : todo'[p] = todo[p]
    BY <1>1, <1>2 DEF Calls
  <2> QED BY <1>1, <1>0, <2>1, <2>2 DEF DeckInv, Goal
<1> QED BY <1>3, <1>4, <1>5, <1>6, <1>7, <1>8

LEMMA CrashKeeps ==
    ASSUME UpkeepInv, NEW q \in Calls, Crash(q)
    PROVE  UpkeepInv'
<1> USE DEF UpkeepInv
<1>1. /\ pc[q] # "idle" /\ End(q) /\ faults' = faults + 1
      /\ UNCHANGED <<row, card, rotations, overlapped>>
  BY DEF Crash, End
<1>2. card' \in [Entries -> Face] /\ faults' \in Nat /\ faults' # 0
  BY <1>1 DEF TypeOK
<1>3. TypeOK' /\ CallsInv' /\ AloneInv' /\ SessionInv' /\ alone' = {}
  BY <1>1, <1>2, EndKeeps
<1>4. CardsInv' /\ DeckInv'
  BY <1>1, <1>2 DEF CardsInv, FilledIsShown, DeckInv
<1> QED BY <1>3, <1>4

LEMMA StillUpkeep ==
    ASSUME UpkeepInv, UNCHANGED vars
    PROVE  UpkeepInv'
<1> USE DEF UpkeepInv, vars
<1>1. TypeOK' /\ CallsInv' /\ AloneInv'
  BY DEF TypeOK, CallsInv, AloneInv, Running, Current
<1>2. SessionInv' /\ CardsInv' /\ DeckInv'
  BY DEF SessionInv, CardsInv, DeckInv, FilledIsShown, Goal, Reached, Rotatable
<1> QED BY <1>1, <1>2

LEMMA NextUpkeepInv == UpkeepInv /\ [Next]_vars => UpkeepInv'
<1> SUFFICES ASSUME UpkeepInv, [Next]_vars PROVE UpkeepInv'
  OBVIOUS
<1>1. ASSUME NEW q \in Rotations, StartRotation(q) PROVE UpkeepInv'
  <2>1. Rotatable \in SUBSET Entries /\ q \in Calls /\ q \notin Backfills
    BY DEF Rotatable, Calls
  <2>2. rotations' \in Nat /\ Start(q, Rotatable)
    BY <1>1 DEF StartRotation, UpkeepInv, TypeOK
  <2> QED BY <2>1, <2>2, StartKeeps
<1>2. ASSUME NEW q \in Backfills, StartBackfill(q) PROVE UpkeepInv'
  <2>1. /\ Candidates \in SUBSET Entries /\ \A e \in Candidates : ~row[e].filled
        /\ q \in Calls /\ q \notin Rotations
    BY DEF Candidates, Calls
  <2>2. rotations' \in Nat /\ Start(q, Candidates)
    BY <1>2 DEF StartBackfill, UpkeepInv, TypeOK
  <2> QED BY <2>1, <2>2, StartKeeps
<1>3. ASSUME NEW q \in Calls, Step(q) \/ Crash(q) PROVE UpkeepInv'
  BY <1>3, PushKeeps, CommitKeeps, FinishKeeps, RotationFailsKeeps, BackfillSkipsKeeps,
     CrashKeeps DEF Step
<1> QED BY <1>1, <1>2, <1>3, StillUpkeep DEF Next

-----------------------------------------------------------------------------
(* The invariant of rotation and backfill, without any fairness.           *)
THEOREM UpkeepInvariance == Spec => []UpkeepInv
<1> QED BY InitUpkeepInv, NextUpkeepInv, PTL DEF Spec

(* Cards never drift from their rows, whatever fails between the push and  *)
(* the commit of rotate_cloze and backfill_exercises.                      *)
THEOREM CardsInStep == Spec => []CardInStep
<1>1. UpkeepInv => CardInStep
  <2> SUFFICES ASSUME UpkeepInv, ~overlapped, Running = {}, faults = 0 PROVE card = row
    BY DEF UpkeepInv, CardsInv, CardInStep, Resting
  <2>1. \A e \in Entries : card[e] = row[e]
    BY DEF UpkeepInv, CardsInv, AloneInv
  <2>2. row \in [Entries -> Face] /\ card \in [Entries -> Face]
    BY DEF UpkeepInv, TypeOK
  <2>3. card = [e \in Entries |-> card[e]] /\ row = [e \in Entries |-> row[e]]
    BY <2>2
  <2> QED BY <2>1, <2>3, Zenon
<1> QED BY <1>1, UpkeepInvariance, PTL

(* A backfilled row's exercise is on the card (the savepoint per entry).   *)
THEOREM FilledRowsShown == Spec => []FilledIsShown
<1>1. UpkeepInv => FilledIsShown
  BY DEF UpkeepInv, CardsInv, FilledIsShown
<1> QED BY <1>1, UpkeepInvariance, PTL

(* "The nightly job bumps every entry together": up to the first card that *)
(* is gone from Anki.                                                      *)
THEOREM DeckInUnison == Spec => []DeckAdvancesTogether
<1>1. UpkeepInv => DeckAdvancesTogether
  <2> SUFFICES ASSUME UpkeepInv, Running = {}, faults = 0, ~overlapped, NEW d \in Reached,
                      NEW e \in Reached
               PROVE  row[d].index = row[e].index
    BY DEF DeckAdvancesTogether, Resting
  <2>1. \A q \in Rotations : todo[q] = {}
    BY DEF UpkeepInv, CallsInv, Running, Calls
  <2>2. Goal(d) = row[d].index /\ Goal(e) = row[e].index /\ Goal(d) = Goal(e)
    BY <2>1 DEF Goal, UpkeepInv, DeckInv
  <2> QED BY <2>2
<1> QED BY <1>1, UpkeepInvariance, PTL

(* A rotation that runs alone to its end repairs every card it visits,     *)
(* whatever overlapped, failed or died before.                             *)
THEOREM LoneRotationRepairs == Spec => RotationRepairs
<1>1. UpkeepInv =>
        [\A q \in Rotations : Finish(q) /\ q \in alone => \A e \in Rotatable : card[e] = row[e]]_vars
  BY DEF UpkeepInv, SessionInv, Finish
<1> QED BY <1>1, UpkeepInvariance, PTL DEF RotationRepairs

-----------------------------------------------------------------------------
(* The card fronts.  FrontInv is all their four invariants need of the     *)
(* past: what the entry's own gap sentence is made of.  The rest is about  *)
(* the functions that make the fronts.                                     *)
HIDE UpkeepAssumption
USE FrontAssumption

(* Induction over the natural numbers, for the members of a set.           *)
LEMMA NatsInSet ==
    ASSUME NEW S, 0 \in S, \A n \in Nat : n \in S => n + 1 \in S
    PROVE  Nat \subseteq S
<1> DEFINE T == Nat \ S
<1> SUFFICES ASSUME T # {} PROVE FALSE
  OBVIOUS
<1>1. Min(T) \in T /\ \A y \in T : Min(T) <= y
  BY MinOfNats
<1> DEFINE m == Min(T)
<1> HIDE DEF m
<1>2. m \in Nat /\ m \notin S /\ \A y \in T : m <= y
  BY <1>1 DEF m
<1>3. m - 1 \in Nat
  BY <1>2
<1>4. m - 1 \in S
  BY <1>2, <1>3
<1> QED BY <1>2, <1>3, <1>4

(* A quotient and a remainder are the only ones.                           *)
LEMMA Remainder ==
    ASSUME NEW n \in Nat \ {0}, NEW q \in Int, NEW r \in 0..(n - 1)
    PROVE  (n * q + r) % n = r /\ (n * q + r) \div n = q
<1> DEFINE a == n * q + r
<1>1. a \in Int
  OBVIOUS
<1> HIDE DEF a
<1>2. a = n * (a \div n) + (a % n) /\ a % n \in 0..(n - 1) /\ a \div n \in Int
  BY <1>1
<1> QED BY <1>2 DEF a

(* Among any n numbers in a row, one has the remainder r.                  *)
Meets(n, c, x, r) == \E i \in x..(x + n - 1) : (c + i) % n = r

LEMMA EveryRemainder ==
    ASSUME NEW n \in Nat \ {0}, NEW c \in Nat, NEW x \in Nat, NEW r \in 0..(n - 1)
    PROVE  Meets(n, c, x, r)
<1> USE DEF Meets
<1> DEFINE a == c + x
           q == a \div n
           b == a % n
<1>1. a \in Nat /\ q \in Int /\ b \in 0..(n - 1) /\ a = n * q + b
  <2>1. a \in Nat
    OBVIOUS
  <2> HIDE DEF a
  <2> QED BY <2>1
<1> HIDE DEF q, b
<1>2. CASE r >= b
  <2>1. (n * q + r) % n = r
    BY <1>1, Remainder
  <2>2. x + (r - b) \in x..(x + n - 1) /\ c + (x + (r - b)) = n * q + r
    BY <1>1, <1>2
  <2> QED BY <2>1, <2>2
<1>3. CASE r < b
  <2>1. (n * (q + 1) + r) % n = r
    <3>1. q + 1 \in Int
      BY <1>1
    <3> QED BY <3>1, Remainder
  <2>2. x + (r - b) + n \in x..(x + n - 1)
    BY <1>1, <1>3
  <2>3. c + (x + (r - b) + n) = n * (q + 1) + r
    <3>1. n * (q + 1) = n * q + n
      BY <1>1
    <3> QED BY <1>1, <3>1
  <2> QED BY <2>1, <2>2, <2>3
<1> QED BY <1>1, <1>2, <1>3

-----------------------------------------------------------------------------
(* Masking a word a sentence has: one place of it becomes the gap, the     *)
(* first, and the word put back there restores the sentence.               *)
LEMMA MaskedOnce ==
    ASSUME NEW s \in Sentences, NEW w \in Forms, Contains(s, w)
    PROVE  /\ Mask(s, w) \in Seq(Words \cup {Gap})
           /\ DOMAIN Mask(s, w) = DOMAIN s
           /\ \E k \in DOMAIN s :
                 /\ s[k] = w
                 /\ \A i \in DOMAIN s : Mask(s, w)[i] = IF i = k THEN Gap ELSE s[i]
           /\ Cardinality(Places(Mask(s, w), Gap)) = 1
           /\ Fill(Mask(s, w), w) = s
<1>1. PICK n \in Nat : s \in [1..n -> Words]
  BY DEF Sentences
<1>2. /\ s \in Seq(Words) /\ Len(s) = n /\ DOMAIN s = 1..n
      /\ \A i \in 1..n : s[i] \in Words /\ s[i] # Gap
  BY <1>1 DEF Words
<1> DEFINE P == {i \in 1..n : s[i] = w}
           k == Min(P)
<1>3. k \in P /\ \A i \in P : k <= i
  <2>1. P \in SUBSET Nat /\ P # {}
    BY <1>2 DEF Contains
  <2> HIDE DEF P
  <2> QED BY <2>1, MinOfNats
<1> HIDE DEF k
<1>4. k \in 1..n /\ s[k] = w /\ \A i \in 1..(k - 1) : s[i] # w
  BY <1>3
<1>5. \A i \in 1..n : Mask(s, w)[i] = IF i = k THEN Gap ELSE s[i]
  <2> SUFFICES ASSUME NEW i \in 1..n
               PROVE  (s[i] = w /\ \A j \in 1..(i - 1) : s[j] # w) <=> i = k
    BY <1>2 DEF Mask
  <2>1. ASSUME s[i] = w, \A j \in 1..(i - 1) : s[j] # w PROVE i = k
    <3>1. k <= i /\ k \in Int /\ i \in Int
      BY <1>3, <1>4, <2>1
    <3>2. ~(k < i)
      BY <1>4, <2>1
    <3> QED BY <3>1, <3>2
  <2> QED BY <1>4, <2>1
<1>6. Mask(s, w) = [i \in 1..n |-> IF i = k THEN Gap ELSE s[i]]
  <2>1. DOMAIN Mask(s, w) = 1..n /\ Mask(s, w) = [i \in 1..n |-> Mask(s, w)[i]]
    BY <1>2 DEF Mask
  <2> QED BY <1>5, <2>1
<1>7. Mask(s, w) \in [1..n -> Words \cup {Gap}]
  BY <1>2, <1>6
<1>8. Places(Mask(s, w), Gap) = {k}
  BY <1>2, <1>4, <1>6 DEF Places
<1>9. Fill(Mask(s, w), w) = s
  <2>1. \A i \in 1..n : (IF Mask(s, w)[i] = Gap THEN w ELSE Mask(s, w)[i]) = s[i]
    BY <1>2, <1>4, <1>6
  <2>2. s = [i \in 1..n |-> s[i]]
    BY <1>1
  <2> QED BY <1>6, <2>1, <2>2 DEF Fill
<1>10. Mask(s, w) \in Seq(Words \cup {Gap})
  BY <1>7
<1>11. DOMAIN Mask(s, w) = DOMAIN s
  BY <1>2, <1>6
<1> QED BY <1>2, <1>4, <1>5, <1>8, <1>9, <1>10, <1>11, FS_Singleton

(* The same for the form a sentence is masked by.                          *)
LEMMA MaskedForm ==
    ASSUME NEW s \in Sentences, word \in Forms, lemma \in Forms, Maskable(s)
    PROVE  \E w \in Forms : /\ Contains(s, w) /\ Masked(s) = Mask(s, w)
                            /\ Contains(s, lemma) => w = lemma
<1>1. CASE Contains(s, lemma)
  <2>1. Masked(s) = Mask(s, lemma)
    BY <1>1 DEF Masked
  <2> QED BY <1>1, <2>1
<1>2. CASE ~Contains(s, lemma)
  <2>1. Masked(s) = Mask(s, word) /\ Contains(s, word)
    BY <1>2 DEF Masked, Maskable
  <2> QED BY <1>2, <2>1
<1> QED BY <1>1, <1>2

-----------------------------------------------------------------------------
(* The recursion of poolUpTo has a solution.                               *)
LEMMA PoolExists ==
    ASSUME NEW L \in Nat
    PROVE  \E f : f = [n \in 0..L |->
                          IF n = 0 THEN <<cloze>>
                          ELSE IF Maskable(extras[n]) THEN Append(f[n - 1], Masked(extras[n]))
                          ELSE f[n - 1]]
<1> DEFINE Longer(p, n) == IF Maskable(extras[n]) THEN Append(p, Masked(extras[n])) ELSE p
           Pool(f, m) == [n \in 0..m |-> IF n = 0 THEN <<cloze>> ELSE Longer(f[n - 1], n)]
           S == {m \in Nat : \E f : f = Pool(f, m)}
<1>1. 0 \in S
  <2> DEFINE f == [n \in 0..0 |-> <<cloze>>]
  <2>1. f = Pool(f, 0)
    OBVIOUS
  <2> QED BY <2>1
<1>2. ASSUME NEW m \in Nat, m \in S PROVE m + 1 \in S
  <2> HIDE DEF Longer
  <2>1. PICK f : f = Pool(f, m)
    BY <1>2
  <2> DEFINE g == [n \in 0..(m + 1) |-> IF n = m + 1 THEN Longer(f[m], n) ELSE f[n]]
  <2>2. \A n \in 0..m : g[n] = f[n] /\ f[n] = IF n = 0 THEN <<cloze>> ELSE Longer(f[n - 1], n)
    BY <2>1
  <2>3. g[m + 1] = Longer(f[m], m + 1)
    OBVIOUS
  <2>4. g = [n \in 0..(m + 1) |-> g[n]]
    OBVIOUS
  <2> HIDE DEF g
  <2>5. \A n \in 0..(m + 1) : g[n] = IF n = 0 THEN <<cloze>> ELSE Longer(g[n - 1], n)
    <3> SUFFICES ASSUME NEW n \in 0..(m + 1)
                 PROVE  g[n] = IF n = 0 THEN <<cloze>> ELSE Longer(g[n - 1], n)
      OBVIOUS
    <3>1. CASE n = m + 1
      <4>1. n # 0 /\ n - 1 = m /\ g[m] = f[m] /\ g[n] = Longer(f[m], n)
        BY <2>2, <2>3, <3>1
      <4> QED BY <4>1
    <3>2. CASE n # m + 1 /\ n # 0
      <4>1. n \in 0..m /\ n - 1 \in 0..m
        BY <3>2
      <4>2. g[n] = f[n] /\ g[n - 1] = f[n - 1] /\ f[n] = Longer(f[n - 1], n)
        BY <2>2, <3>2, <4>1
      <4> QED BY <3>2, <4>2
    <3>3. CASE n = 0
      BY <2>2, <3>3
    <3> QED BY <3>1, <3>2, <3>3
  <2>6. g = Pool(g, m + 1)
    BY <2>4, <2>5
  <2> QED BY <2>6
<1> HIDE DEF S
<1>3. Nat \subseteq S
  BY <1>1, <1>2, NatsInSet
<1>4. L \in S
  BY <1>3
<1> QED BY <1>4 DEF S

LEMMA PoolSteps ==
    ASSUME extras \in Seq(Sentences)
    PROVE  /\ poolUpTo[0] = <<cloze>>
           /\ \A n \in 1..Len(extras) :
                 poolUpTo[n] = IF Maskable(extras[n])
                               THEN Append(poolUpTo[n - 1], Masked(extras[n]))
                               ELSE poolUpTo[n - 1]
<1>1. Len(extras) \in Nat
  OBVIOUS
<1>2. poolUpTo = [n \in 0..Len(extras) |->
                     IF n = 0 THEN <<cloze>>
                     ELSE IF Maskable(extras[n]) THEN Append(poolUpTo[n - 1], Masked(extras[n]))
                     ELSE poolUpTo[n - 1]]
  BY <1>1, PoolExists DEF poolUpTo
<1>3. ASSUME NEW n \in 0..Len(extras)
      PROVE  poolUpTo[n] = IF n = 0 THEN <<cloze>>
                           ELSE IF Maskable(extras[n])
                           THEN Append(poolUpTo[n - 1], Masked(extras[n]))
                           ELSE poolUpTo[n - 1]
  BY <1>2
<1> HIDE DEF poolUpTo
<1> QED BY <1>1, <1>3

Gapped == Seq(Words \cup {Gap})

LEMMA MaskedType ==
    ASSUME NEW s \in Sentences, word \in Forms, lemma \in Forms, Maskable(s)
    PROVE  Masked(s) \in Gapped
  BY MaskedForm, MaskedOnce DEF Gapped

(* The pool begins with the cloze; every other sentence in it is one of    *)
(* the extra examples, masked.                                             *)
LEMMA PoolShape ==
    ASSUME FrontTypeOK
    PROVE  /\ ClozePool \in Seq(Gapped) /\ Len(ClozePool) >= 1
           /\ ClozePool[1] = cloze
           /\ \A i \in 2..Len(ClozePool) :
                 \E s \in ToSet(extras) : /\ s \in Sentences /\ Maskable(s)
                                          /\ ClozePool[i] = Masked(s)
<1> DEFINE Good(p) == /\ p \in Seq(Gapped) /\ Len(p) >= 1 /\ p[1] = cloze
                      /\ \A i \in 2..Len(p) :
                            \E s \in ToSet(extras) : /\ s \in Sentences /\ Maskable(s)
                                                     /\ p[i] = Masked(s)
           S == {n \in Nat : n <= Len(extras) => Good(poolUpTo[n])}
<1>1. extras \in Seq(Sentences) /\ Len(extras) \in Nat /\ cloze \in Gapped
      /\ word \in Forms /\ lemma \in Forms
  BY DEF FrontTypeOK, Gapped
<1>2. 0 \in S
  <2>1. Good(<<cloze>>)
    BY <1>1
  <2> HIDE DEF Good
  <2> QED BY <1>1, <2>1, PoolSteps
<1>3. ASSUME NEW n \in Nat, n \in S PROVE n + 1 \in S
  <2> DEFINE p == poolUpTo[n]
             e == extras[n + 1]
  <2> SUFFICES ASSUME n + 1 <= Len(extras) PROVE Good(poolUpTo[n + 1])
    OBVIOUS
  <2>1. Good(p) /\ n + 1 \in 1..Len(extras) /\ (n + 1) - 1 = n
    BY <1>1, <1>3
  <2>2. e \in Sentences /\ e \in ToSet(extras)
    BY <1>1, <2>1 DEF ToSet
  <2>3. poolUpTo[n + 1] = IF Maskable(e) THEN Append(p, Masked(e)) ELSE p
    BY <1>1, <2>1, PoolSteps
  <2> HIDE DEF p, e
  <2>4. CASE Maskable(e)
    <3>1. Masked(e) \in Gapped
      BY <1>1, <2>2, <2>4, MaskedType
    <3>2. Good(Append(p, Masked(e)))
      BY <2>1, <2>2, <2>4, <3>1
    <3> HIDE DEF Good
    <3> QED BY <2>3, <2>4, <3>2
  <2> QED BY <2>1, <2>3, <2>4
<1> HIDE DEF S
<1>4. Nat \subseteq S
  BY <1>2, <1>3, NatsInSet
<1>5. Good(ClozePool)
  BY <1>1, <1>4 DEF S, ClozePool
<1> QED BY <1>5

(* One gap per front, and what fills it.                                   *)
LEMMA MaskedIsSolvable ==
    ASSUME NEW s \in Sentences, word \in Forms, lemma \in Forms, Maskable(s)
    PROVE  /\ Cardinality(Places(Masked(s), Gap)) = 1
           /\ \E w \in Forms : Fill(Masked(s), w) = s
  BY MaskedForm, MaskedOnce

LEMMA TwoMembers ==
    ASSUME NEW S, IsFiniteSet(S), NEW a \in S, NEW b \in S, a # b
    PROVE  Cardinality(S) > 1
<1>1. Cardinality(S) \in Nat
  BY FS_CardinalityType
<1>2. Cardinality(S) # 0
  BY FS_EmptySet
<1>3. Cardinality(S) # 1
  BY FS_Singleton
<1> QED BY <1>1, <1>2, <1>3

(* The stored gap sentence has one gap and fits the stored sentence.       *)
GapInv ==
    cloze # <<>> => /\ Cardinality(Places(cloze, Gap)) = 1
                    /\ \E w \in Forms : Fill(cloze, w) = sentence

FrontInv == FrontTypeOK /\ GapInv

LEMMA FrontStep ==
    ASSUME FrontInv, [FrontNext]_frontVars
    PROVE  FrontInv'
<1> USE DEF FrontInv
<1>1. /\ word \in Forms /\ lemma \in Forms /\ sentence \in Sentences \cup {<<>>}
      /\ index \in Nat
  BY DEF FrontTypeOK
<1>2. ASSUME NEW s \in Sentences, NEW w \in Forms, Contains(s, w), sentence' = s,
             cloze' = Mask(s, w), UNCHANGED <<word, lemma, extras, exercise>>
      PROVE  FrontInv'
  <2>1. /\ Mask(s, w) \in Gapped
        /\ Cardinality(Places(Mask(s, w), Gap)) = 1 /\ Fill(Mask(s, w), w) = s
    BY <1>2, MaskedOnce DEF Gapped
  <2>2. s # <<>>
    BY DEF Sentences
  <2> QED BY <1>2, <2>1, <2>2 DEF FrontTypeOK, GapInv, Gapped, exercise
<1>3. CASE MaskSource
  <2>1. sentence \in Sentences /\ Maskable(sentence)
    BY <1>1, <1>3 DEF MaskSource
  <2>2. PICK w \in Forms : Contains(sentence, w) /\ Masked(sentence) = Mask(sentence, w)
    BY <1>1, <2>1, MaskedForm
  <2> QED BY <1>1, <1>2, <1>3, <2>1, <2>2 DEF MaskSource
<1>4. CASE InventExample
  BY <1>1, <1>2, <1>4 DEF InventExample
<1>5. CASE StoreTranslation
  <2>1. extras' \in Seq(Sentences) /\ types' \subseteq Types
    BY <1>5 DEF StoreTranslation
  <2> QED BY <1>5, <2>1 DEF StoreTranslation, FrontTypeOK, GapInv
<1>6. CASE OverrideLemma
  BY <1>6 DEF OverrideLemma, FrontTypeOK, GapInv, Types
<1>7. CASE RotateCloze
  BY <1>1, <1>7 DEF RotateCloze, FrontTypeOK, GapInv
<1>8. CASE UNCHANGED frontVars
  BY <1>8 DEF frontVars, FrontTypeOK, GapInv
<1> QED BY <1>3, <1>4, <1>5, <1>6, <1>7, <1>8 DEF FrontNext

(* What the entry stores keeps its type, and its gap sentence fits.        *)
THEOREM FrontInvariance == FrontSpec => []FrontInv
<1>1. FrontInit => FrontInv
  BY DEF FrontInit, FrontInv, FrontTypeOK, GapInv
<1> QED BY <1>1, FrontStep, PTL DEF FrontSpec

(* A front has one gap, and one word in it gives back what the entry       *)
(* stores: also after the lemma was overridden.                            *)
THEOREM FrontsAreSolvable == FrontSpec => []GapsAreSolvable
<1>1. ASSUME FrontInv, cloze # <<>>
      PROVE  GapsAreSolvable
  <2>1. /\ ClozePool \in Seq(Gapped) /\ Len(ClozePool) >= 1 /\ ClozePool[1] = cloze
        /\ \A i \in 2..Len(ClozePool) :
              \E s \in ToSet(extras) : s \in Sentences /\ Maskable(s) /\ ClozePool[i] = Masked(s)
    BY <1>1, PoolShape DEF FrontInv
  <2>2. /\ Cardinality(Places(cloze, Gap)) = 1
        /\ \E w \in Forms : Fill(cloze, w) = sentence
    BY <1>1 DEF FrontInv, GapInv
  <2>3. ASSUME NEW i \in 2..Len(ClozePool)
        PROVE  /\ Cardinality(Places(ClozePool[i], Gap)) = 1
               /\ \E w \in Forms : Fill(ClozePool[i], w) \in ToSet(extras)
    BY <1>1, <2>1, <2>3, MaskedIsSolvable DEF FrontInv, FrontTypeOK
  <2>4. \A i \in DOMAIN ClozePool : Cardinality(Places(ClozePool[i], Gap)) = 1
    <3>1. \A i \in DOMAIN ClozePool : i = 1 \/ i \in 2..Len(ClozePool)
      BY <2>1
    <3> QED BY <2>1, <2>2, <2>3, <3>1
  <2> QED BY <2>1, <2>2, <2>3, <2>4 DEF GapsAreSolvable
<1>2. FrontInv => GapsAreSolvable
  BY <1>1 DEF GapsAreSolvable
<1> QED BY <1>2, FrontInvariance, PTL

(* A gap sentence shows the lemma only if the example has it twice.        *)
THEOREM FrontsHideTheAnswer == FrontSpec => []AnswerIsHidden
<1>1. ASSUME FrontInv PROVE AnswerIsHidden
  <2> SUFFICES ASSUME NEW i \in 2..Len(ClozePool), Places(ClozePool[i], lemma) # {}
               PROVE  \E s \in ToSet(extras) : /\ Fill(ClozePool[i], lemma) = s
                                               /\ Cardinality(Places(s, lemma)) > 1
    BY DEF AnswerIsHidden
  <2>1. PICK s \in ToSet(extras) : s \in Sentences /\ Maskable(s) /\ ClozePool[i] = Masked(s)
    BY <1>1, PoolShape DEF FrontInv
  <2>2. word \in Forms /\ lemma \in Forms /\ lemma # Gap
    BY <1>1 DEF FrontInv, FrontTypeOK
  <2>3. PICK w \in Forms : /\ Contains(s, w) /\ Masked(s) = Mask(s, w)
                           /\ Contains(s, lemma) => w = lemma
    BY <2>1, <2>2, MaskedForm
  <2>4. PICK k \in DOMAIN s :
           /\ s[k] = w
           /\ \A j \in DOMAIN s : Mask(s, w)[j] = IF j = k THEN Gap ELSE s[j]
    BY <2>1, <2>2, <2>3, MaskedOnce
  <2>5. DOMAIN Mask(s, w) = DOMAIN s /\ Fill(Mask(s, w), w) = s
    BY <2>1, <2>2, <2>3, MaskedOnce
  <2>6. PICK j \in DOMAIN s : j # k /\ s[j] = lemma
    BY <2>1, <2>2, <2>3, <2>4, <2>5 DEF Places
  <2>7. DOMAIN s = 1..Len(s) /\ Len(s) \in Nat
    BY <2>1 DEF Sentences
  <2>8. w = lemma
    BY <2>3, <2>6, <2>7 DEF Contains
  <2>9. Cardinality(Places(s, lemma)) > 1
    <3>1. j \in Places(s, lemma) /\ k \in Places(s, lemma)
      BY <2>4, <2>6, <2>8 DEF Places
    <3>2. IsFiniteSet(Places(s, lemma))
      <4>1. IsFiniteSet(1..Len(s))
        BY <2>7, FS_Interval
      <4> QED BY <4>1, <2>7, FS_Subset DEF Places
    <3> QED BY <2>6, <3>1, <3>2, TwoMembers
  <2> QED BY <2>1, <2>3, <2>5, <2>8, <2>9
<1> QED BY <1>1, FrontInvariance, PTL

-----------------------------------------------------------------------------
(* s lists the members of T, each once.                                    *)
Lists(s, T) ==
    /\ s \in Seq(Types) /\ IsFiniteSet(T) /\ Cardinality(T) = Len(s)
    /\ \A t \in T : \E r \in 1..Len(s) : s[r] = t

LEMMA OfferedNext ==
    ASSUME NEW s, NEW T, Lists(s, T), NEW t \in Types \ T
    PROVE  /\ Lists(s \o Offered(t), T \cup ({t} \cap types))
           /\ Len(s \o Offered(t)) <= Len(s) + 1
           /\ Len(s) >= 1 => Len(s \o Offered(t)) >= 1 /\ (s \o Offered(t))[1] = s[1]
<1> DEFINE p == s \o Offered(t)
           U == T \cup ({t} \cap types)
<1> SUFFICES /\ Lists(p, U) /\ Len(p) <= Len(s) + 1
             /\ Len(s) >= 1 => Len(p) >= 1 /\ p[1] = s[1]
  OBVIOUS
<1>1. s \in Seq(Types) /\ IsFiniteSet(T) /\ Cardinality(T) = Len(s) /\ Len(s) \in Nat
  BY DEF Lists
<1>2. CASE t \in types
  <2>1. U = T \cup {t}
    BY <1>2
  <2>2. p = s \o <<t>>
    BY <1>2 DEF Offered
  <2> HIDE DEF p, U
  <2>3. /\ p \in Seq(Types) /\ Len(p) = Len(s) + 1 /\ p[Len(s) + 1] = t
        /\ \A r \in 1..Len(s) : p[r] = s[r]
    BY <1>1, <2>2
  <2>4. IsFiniteSet(U) /\ Cardinality(U) = Len(p)
    BY <1>1, <2>1, <2>3, FS_AddElement
  <2>5. ASSUME NEW u \in U PROVE \E r \in 1..Len(p) : p[r] = u
    <3>1. CASE u = t
      BY <1>1, <2>3, <3>1
    <3>2. CASE u \in T
      BY <1>1, <2>3, <3>2 DEF Lists
    <3> QED BY <2>1, <3>1, <3>2
  <2>6. Lists(p, U)
    BY <2>3, <2>4, <2>5 DEF Lists
  <2>7. Len(s) >= 1 => p[1] = s[1]
    BY <1>1, <2>3
  <2> QED BY <1>1, <2>3, <2>6, <2>7
<1>3. CASE t \notin types
  <2>1. p = s /\ U = T
    BY <1>1, <1>3 DEF Offered
  <2> HIDE DEF p, U
  <2> QED BY <1>1, <2>1
<1> QED BY <1>2, <1>3

(* exercise_pool has each exercise once, the choice first.                 *)
LEMMA Exercises ==
    ASSUME types \subseteq Types
    PROVE  /\ Lists(ExercisePool, types)
           /\ Len(ExercisePool) \in Nat /\ Len(ExercisePool) <= 4
           /\ "choice" \in types => Len(ExercisePool) >= 1 /\ ExercisePool[1] = "choice"
<1> DEFINE s1 == Offered("choice")
           s2 == s1 \o Offered("hints")
           s3 == s2 \o Offered("definition")
           s4 == s3 \o Offered("listening")
           T1 == {"choice"} \cap types
           T2 == T1 \cup ({"hints"} \cap types)
           T3 == T2 \cup ({"definition"} \cap types)
           T4 == T3 \cup ({"listening"} \cap types)
<1>1. /\ Lists(s1, T1) /\ Len(s1) <= 1
      /\ "choice" \in types => Len(s1) = 1 /\ s1[1] = "choice"
  <2>1. Lists(<<>>, {})
    BY FS_EmptySet DEF Lists
  <2>2. "choice" \in Types \ {}
    BY DEF Types
  <2>3. <<>> \o s1 = s1 /\ {} \cup T1 = T1 /\ Len(<<>>) = 0
    BY DEF Offered
  <2>4. Lists(<<>> \o s1, {} \cup T1) /\ Len(<<>> \o s1) <= Len(<<>>) + 1
    BY <2>1, <2>2, OfferedNext
  <2> QED BY <2>3, <2>4 DEF Offered
<1>2. "hints" \in Types \ T1 /\ "definition" \in Types \ T2 /\ "listening" \in Types \ T3
  BY DEF Types
<1>3. T4 = types /\ s4 = ExercisePool
  BY DEF Types, ExercisePool
<1> HIDE DEF s1, T1
<1>4. Lists(s2, T2) /\ Len(s2) <= Len(s1) + 1
      /\ (Len(s1) >= 1 => Len(s2) >= 1 /\ s2[1] = s1[1])
  BY <1>1, <1>2, OfferedNext
<1> HIDE DEF s2, T2
<1>5. Lists(s3, T3) /\ Len(s3) <= Len(s2) + 1
      /\ (Len(s2) >= 1 => Len(s3) >= 1 /\ s3[1] = s2[1])
  BY <1>2, <1>4, OfferedNext
<1> HIDE DEF s3, T3
<1>6. Lists(s4, T4) /\ Len(s4) <= Len(s3) + 1
      /\ (Len(s3) >= 1 => Len(s4) >= 1 /\ s4[1] = s3[1])
  BY <1>2, <1>5, OfferedNext
<1> HIDE DEF s4, T4
<1>7. Len(s1) \in Nat /\ Len(s2) \in Nat /\ Len(s3) \in Nat /\ Len(s4) \in Nat
  BY <1>1, <1>4, <1>5, <1>6 DEF Lists
<1>8. Len(s4) <= 4
  BY <1>1, <1>4, <1>5, <1>6, <1>7
<1>9. "choice" \in types => Len(s4) >= 1 /\ s4[1] = "choice"
  BY <1>1, <1>4, <1>5, <1>6, <1>7
<1> QED BY <1>3, <1>6, <1>7, <1>8, <1>9

(* The shared counter starves neither pool.                                *)
THEOREM NothingStarves == FrontSpec => []EverythingTurnsUp
<1>1. ASSUME FrontInv PROVE EverythingTurnsUp
  <2>1. id \in Nat /\ index \in Nat /\ types \subseteq Types
    BY <1>1 DEF FrontInv, FrontTypeOK
  <2>2. ASSUME NEW t \in types
        PROVE  \E i \in index..(index + Cardinality(types) - 1) : ActiveExercise(i) = t
    <3> DEFINE L == Len(ExercisePool)
    <3>1. PICK r \in 1..L : ExercisePool[r] = t
      BY <2>1, Exercises DEF Lists
    <3>2. L = Cardinality(types) /\ L \in Nat
      BY <2>1, Exercises DEF Lists
    <3> HIDE DEF L
    <3>3. L \in Nat \ {0} /\ r - 1 \in 0..(L - 1)
      BY <3>1, <3>2
    <3>4. Meets(L, id, index, r - 1)
      BY <2>1, <3>3, EveryRemainder
    <3>5. PICK i \in index..(index + L - 1) : (id + i) % L = r - 1
      BY <3>4 DEF Meets
    <3>6. ActiveExercise(i) = ExercisePool[(r - 1) + 1]
      BY <3>5 DEF ActiveExercise, L
    <3>7. (r - 1) + 1 = r
      BY <3>1
    <3> QED BY <3>1, <3>2, <3>5, <3>6, <3>7
  <2>3. ToSet(ClozePool) = {ActiveCloze(i) : i \in index..(index + Len(ClozePool) - 1)}
    <3> DEFINE n == Len(ClozePool)
               I == index..(index + n - 1)
    <3>1. n \in Nat \ {0} /\ DOMAIN ClozePool = 1..n
      BY <1>1, PoolShape DEF FrontInv
    <3>2. \A i : ActiveCloze(i) = ClozePool[(i % n) + 1]
      BY DEF ActiveCloze
    <3> HIDE DEF n
    <3>3. ASSUME NEW i \in I PROVE ActiveCloze(i) \in ToSet(ClozePool)
      <4>1. i \in Nat
        BY <2>1, <3>1
      <4>2. i % n \in 0..(n - 1)
        BY <3>1, <4>1
      <4>3. (i % n) + 1 \in DOMAIN ClozePool
        BY <3>1, <4>2
      <4> QED BY <3>2, <4>3 DEF ToSet
    <3>4. ASSUME NEW j \in DOMAIN ClozePool PROVE \E i \in I : ActiveCloze(i) = ClozePool[j]
      <4>1. j - 1 \in 0..(n - 1) /\ 0 \in Nat /\ (j - 1) + 1 = j
        BY <3>1, <3>4
      <4>2. Meets(n, 0, index, j - 1)
        BY <2>1, <3>1, <4>1, EveryRemainder
      <4>3. PICK i \in I : (0 + i) % n = j - 1
        BY <4>2 DEF Meets
      <4>4. i % n = j - 1
        BY <2>1, <3>1, <4>3
      <4> QED BY <3>2, <4>1, <4>4
    <3> QED BY <3>3, <3>4 DEF ToSet, n
  <2> QED BY <2>2, <2>3 DEF EverythingTurnsUp
<1> QED BY <1>1, FrontInvariance, PTL

(* The exercise turns with the index modulo L, the slot with the index     *)
(* divided by m: a pair of them comes up within L * m * m steps.  With no  *)
(* more exercises than slots it does so while the slot stands still; L and *)
(* m that follow each other have no common factor.                         *)
BothMeet(L, m, c, x, s) ==
    \E i \in x..(x + L * m * m) : (c + i) % L = 0 /\ (c + i \div m) % m = s

LEMMA BothTurn ==
    ASSUME NEW L \in Nat, L >= 1, L <= 4, NEW m \in Nat, m > 1, m > 2 \/ L < 4,
           NEW c \in Nat, NEW x \in Nat, NEW s \in 0..(m - 1)
    PROVE  BothMeet(L, m, c, x, s)
<1> USE DEF BothMeet
<1> DEFINE b == x \div m
<1>1. b \in Nat /\ m * b <= x /\ x < m * b + m
  <2>1. b \in Nat /\ x % m \in 0..(m - 1) /\ x = m * b + (x % m)
    OBVIOUS
  <2> HIDE DEF b
  <2>2. m * b \in Nat
    BY <2>1
  <2> QED BY <2>1, <2>2
<1> HIDE DEF b
<1>2. Meets(m, c, b + 1, s)
  <2>1. b + 1 \in Nat /\ m \in Nat \ {0}
    BY <1>1
  <2> QED BY <2>1, EveryRemainder
<1>3. PICK q \in (b + 1)..((b + 1) + m - 1) : (c + q) % m = s
  BY <1>2 DEF Meets
<1>4. q \in Nat /\ b + 1 <= q /\ q <= b + m
  BY <1>1, <1>3
<1>5. CASE L <= m
  <2> DEFINE y == m * q
  <2>1. y \in Nat /\ m * b + m <= y /\ y <= m * b + m * m
    <3>1. m * q \in Nat /\ m * (b + 1) <= m * q /\ m * q <= m * (b + m)
      BY <1>1, <1>4
    <3>2. m * (b + 1) = m * b + m /\ m * (b + m) = m * b + m * m
      BY <1>1
    <3> QED BY <3>1, <3>2
  <2> HIDE DEF y
  <2>2. Meets(L, c, y, 0)
    <3>1. L \in Nat \ {0} /\ 0 \in 0..(L - 1)
      OBVIOUS
    <3> QED BY <2>1, <3>1, EveryRemainder
  <2>3. PICK i \in y..(y + L - 1) : (c + i) % L = 0
    BY <2>2 DEF Meets
  <2>4. i \div m = q
    <3>1. i - y \in 0..(m - 1) /\ i = y + (i - y)
      BY <1>5, <2>1, <2>3
    <3> DEFINE r == i - y
    <3>2. r \in 0..(m - 1) /\ i = m * q + r
      BY <3>1 DEF y
    <3> HIDE DEF r
    <3>3. m \in Nat \ {0} /\ q \in Int
      BY <1>4
    <3>4. (m * q + r) \div m = q
      BY <3>2, <3>3, Remainder
    <3> QED BY <3>2, <3>4
  <2>5. L - 1 <= L * m * m - m * m
    <3> DEFINE M == m * m
    <3>1. M \in Nat /\ M >= 1
      OBVIOUS
    <3>2. L * m * m = L * M
      OBVIOUS
    <3> HIDE DEF M
    <3>3. L * M - M = (L - 1) * M /\ L - 1 <= (L - 1) * M
      BY <3>1
    <3> QED BY <3>2, <3>3 DEF M
  <2>6. i \in x..(x + L * m * m)
    <3> DEFINE H == L * m * m
               M == m * m
               B == m * b
    <3>1. H \in Nat /\ M \in Nat /\ B \in Nat
      BY <1>1
    <3>2. B <= x /\ x < B + m /\ B + m <= y /\ y <= B + M /\ L - 1 <= H - M
      BY <1>1, <2>1, <2>5
    <3> HIDE DEF H, M, B
    <3>3. i \in x..(x + H)
      BY <2>1, <2>3, <3>1, <3>2
    <3> QED BY <3>3 DEF H
  <2>7. (c + i \div m) % m = s
    BY <1>3, <2>4
  <2> QED BY <2>3, <2>6, <2>7
<1>6. CASE L = 4 /\ m = 3
  <2>1. Meets(4, c + 3 * q, 0, 0)
    <3>1. c + 3 * q \in Nat
      BY <1>4
    <3> QED BY <3>1, EveryRemainder
  <2>2. PICK t \in 0..3 : (c + 3 * q + t) % 4 = 0
    BY <2>1 DEF Meets
  <2> DEFINE i == 3 * (q + 3 * t)
  <2>3. i \in Nat /\ i \div 3 = q + 3 * t
    BY <1>4
  <2>4. (c + i) % 4 = 0
    BY <1>4, <2>2
  <2>5. (c + (q + 3 * t)) % 3 = s
    BY <1>3, <1>4, <1>6
  <2>6. i \in x..(x + 36)
    BY <1>1, <1>4, <1>6
  <2>7. (c + i \div 3) % 3 = s /\ L * m * m = 36
    BY <1>6, <2>3, <2>5
  <2> HIDE DEF i
  <2> QED BY <1>6, <2>4, <2>6, <2>7
<1>7. CASE L = 3 /\ m = 2
  <2>1. Meets(3, c + 2 * q, 0, 0)
    <3>1. c + 2 * q \in Nat
      BY <1>4
    <3> QED BY <3>1, EveryRemainder
  <2>2. PICK t \in 0..2 : (c + 2 * q + t) % 3 = 0
    BY <2>1 DEF Meets
  <2> DEFINE i == 2 * (q + 2 * t)
  <2>3. i \in Nat /\ i \div 2 = q + 2 * t
    BY <1>4
  <2>4. (c + i) % 3 = 0
    BY <1>4, <2>2
  <2>5. (c + (q + 2 * t)) % 2 = s
    BY <1>3, <1>4, <1>7
  <2>6. i \in x..(x + 12)
    BY <1>1, <1>4, <1>7
  <2>7. (c + i \div 2) % 2 = s /\ L * m * m = 12
    BY <1>7, <2>3, <2>5
  <2> HIDE DEF i
  <2> QED BY <1>7, <2>4, <2>6, <2>7
<1>8. L <= m \/ (L = 4 /\ m = 3) \/ (L = 3 /\ m = 2)
  OBVIOUS
<1> QED BY <1>5, <1>6, <1>7, <1>8

(* The answer of a multiple choice visits all its slots.                   *)
THEOREM AnswersWander == FrontSpec => []NoFixedSlot
<1>1. ASSUME FrontInv PROVE NoFixedSlot
  <2> SUFFICES ASSUME "choice" \in types, options > 2 \/ Len(ExercisePool) < 4,
                      NEW s \in 0..(options - 1)
               PROVE  \E i \in index..(index + Horizon) :
                         ActiveExercise(i) = "choice" /\ Position(i) = s
    BY DEF NoFixedSlot
  <2> DEFINE L == Len(ExercisePool)
  <2>1. /\ id \in Nat /\ index \in Nat /\ types \subseteq Types
        /\ options \in Nat /\ options > 1
    BY <1>1 DEF FrontInv, FrontTypeOK
  <2>2. /\ L \in Nat /\ L >= 1 /\ L <= 4 /\ ExercisePool[1] = "choice"
        /\ options > 2 \/ L < 4
    BY <2>1, Exercises
  <2>3. \A i : ActiveExercise(i) = ExercisePool[((id + i) % L) + 1]
    BY DEF ActiveExercise
  <2>4. Horizon = L * options * options
    BY DEF Horizon
  <2> HIDE DEF L
  <2>5. BothMeet(L, options, id, index, s)
    BY <2>1, <2>2, BothTurn
  <2>6. PICK i \in index..(index + L * options * options) :
           (id + i) % L = 0 /\ (id + i \div options) % options = s
    BY <2>5 DEF BothMeet
  <2>7. ActiveExercise(i) = "choice" /\ Position(i) = s
    BY <2>2, <2>3, <2>6 DEF Position
  <2> QED BY <2>4, <2>6, <2>7
<1> QED BY <1>1, FrontInvariance, PTL
=============================================================================
