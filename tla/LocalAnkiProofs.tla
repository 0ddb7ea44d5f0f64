--------------------------- MODULE LocalAnkiProofs ---------------------------
(***************************************************************************)
(* The local Anki backend and its notetype, for any languages, releases    *)
(* and calls: no template is lost or doubled, the schema settles, a new    *)
(* note's wanted cards land in their own deck, old notes' stray in one     *)
(* write at most, and the backend implements CardStore.                    *)
(***************************************************************************)
EXTENDS LocalAnki, SequenceTheorems, TLAPS

(* Distinct names, "Card 1" standing for "DE-EN".                          *)
Spread(n) ==
    /\ n \in Seq(Names \cup {"Card 1"})
    /\ \A i, k \in 1..Len(n) : n[i] = n[k] => i = k
    /\ \A i, k \in 1..Len(n) : ~(n[i] = "Card 1" /\ n[k] = "DE-EN")

LEMMA UpTo ==
    /\ \A i \in 1..1 : i = 1
    /\ \A i \in 1..2 : i = 1 \/ i = 2
    /\ \A i \in 1..3 : i = 1 \/ i = 2 \/ i = 3
  OBVIOUS

LEMMA SeqFrom ==
    ASSUME NEW S, NEW k \in Nat, NEW f \in [1..k -> S]
    PROVE  f \in Seq(S) /\ Len(f) = k
  OBVIOUS

LEMMA OneRow ==
    ASSUME NEW S, NEW n, NEW a \in S, n = <<a>>
    PROVE  n \in Seq(S) /\ Len(n) = 1 /\ n[1] = a
  OBVIOUS

LEMMA TwoRow ==
    ASSUME NEW S, NEW n, NEW a \in S, NEW b \in S, n = <<a, b>>
    PROVE  n \in Seq(S) /\ Len(n) = 2 /\ n[1] = a /\ n[2] = b
  OBVIOUS

LEMMA SpreadOne ==
    ASSUME NEW n, n \in Seq(Names \cup {"Card 1"}), Len(n) = 1
    PROVE  Spread(n)
  BY UpTo DEF Spread

LEMMA SpreadTwo ==
    ASSUME NEW n, n \in Seq(Names \cup {"Card 1"}), NEW a, NEW b,
           Len(n) = 2, n[1] = a, n[2] = b, a # b,
           ~(a = "Card 1" /\ b = "DE-EN"), ~(b = "Card 1" /\ a = "DE-EN")
    PROVE  Spread(n)
  BY UpTo DEF Spread

LEMMA ThreeNames ==
    ASSUME NEW n, n = <<"EN-DE", "DE-EN", "Exercise">>
    PROVE  Spread(n)
<1>1. Len(n) = 3 /\ n[1] = "EN-DE" /\ n[2] = "DE-EN" /\ n[3] = "Exercise"
  OBVIOUS
<1>2. n \in Seq(Names \cup {"Card 1"})
  BY DEF Names
<1> QED BY <1>1, <1>2, UpTo DEF Spread

(* What earlier releases left is spread in this sense.                     *)
LEMMA LegacySeq ==
    ASSUME NEW n \in LegacyNames
    PROVE  Spread(n)
<1>1. /\ "Card 1" \in Names \cup {"Card 1"} /\ "DE-EN" \in Names \cup {"Card 1"}
      /\ "EN-DE" \in Names \cup {"Card 1"} /\ "Exercise" \in Names \cup {"Card 1"}
  BY DEF Names
<1>2. n = <<"Card 1">> \/ n = <<"DE-EN">> \/ n = <<"EN-DE">> => Spread(n)
  BY <1>1, OneRow, SpreadOne
<1>3. ASSUME n = <<"DE-EN", "EN-DE">> PROVE Spread(n)
  <2>1. n \in Seq(Names \cup {"Card 1"}) /\ Len(n) = 2 /\ n[1] = "DE-EN" /\ n[2] = "EN-DE"
    BY <1>1, <1>3, TwoRow
  <2> QED BY <2>1, SpreadTwo
<1>4. ASSUME n = <<"Card 1", "Exercise">> PROVE Spread(n)
  <2>1. n \in Seq(Names \cup {"Card 1"}) /\ Len(n) = 2 /\ n[1] = "Card 1" /\ n[2] = "Exercise"
    BY <1>1, <1>4, TwoRow
  <2> QED BY <2>1, SpreadTwo
<1> QED BY <1>2, <1>3, <1>4, ThreeNames DEF LegacyNames

(* The first one is a direction's.                                         *)
LEMMA LegacyFirst ==
    ASSUME NEW n \in LegacyNames
    PROVE  1 \in 1..Len(n) /\ n[1] \in {"Card 1", "DE-EN", "EN-DE"}
<1> DEFINE Ways == {"Card 1", "DE-EN", "EN-DE"}
<1>1. "Card 1" \in Ways /\ "DE-EN" \in Ways /\ "EN-DE" \in Ways
  OBVIOUS
<1> HIDE DEF Ways
<1>2. ASSUME NEW a \in Ways, n = <<a>> PROVE 1 \in 1..Len(n) /\ n[1] \in Ways
  BY <1>2
<1>3. ASSUME NEW a \in Ways, NEW b, n = <<a, b>> PROVE 1 \in 1..Len(n) /\ n[1] \in Ways
  BY <1>3
<1>4. ASSUME NEW a \in Ways, NEW b, NEW c, n = <<a, b, c>>
      PROVE  1 \in 1..Len(n) /\ n[1] \in Ways
  BY <1>4
<1>5. 1 \in 1..Len(n) /\ n[1] \in Ways
  BY <1>1, <1>2, <1>3, <1>4 DEF LegacyNames
<1> QED BY <1>5 DEF Ways

USE NotetypeAssumption, LocalAnkiAssumption

Distinct(tmpls) == \A i, k \in 1..Len(tmpls) : tmpls[i].name = tmpls[k].name => i = k
Plain(tmpls) == \A i \in 1..Len(tmpls) : tmpls[i].name \in Names

(* The names are distinct once "Card 1" is renamed.  After the first write *)
(* to an existing notetype the fields are complete and two of the three    *)
(* templates are there, after the second schema change all of them.  A     *)
(* collection with notes has a template of one direction, with a filled    *)
(* exercise its template, and once cards have strayed all three.           *)
Has(n) == n \in NamesOf(Renamed(model.tmpls))

NoteInv ==
    /\ NoteTypeOK
    /\ Distinct(Renamed(model.tmpls))
    /\ \/ schemas = 0
       \/ schemas = 1 /\ model.fields = Releases /\ Len(model.tmpls) >= 2
       \/ schemas = 2 /\ model.fields = Releases /\ Len(model.tmpls) >= 3
    /\ kinds # {} => Has("DE-EN") \/ Has("EN-DE")
    /\ \A k \in kinds : k.filled => Has("Exercise")
    /\ strewn = 1 => Has("DE-EN") /\ Has("EN-DE")
    /\ CardsInOwnDeck

(* A call has an answer from when it is made; one that is about to return, *)
(* or has returned, has put its note or change into the collection.        *)
LocalInv ==
    /\ TypeOK
    /\ NoteInv
    /\ \A c \in Calls :
          /\ thread[c] = "idle" <=> answer[c] = "none"
          /\ thread[c] = "returning" => c \in notes
          /\ answer[c] = "returned" => c \in notes

-----------------------------------------------------------------------------
(* A template is its three parts.                                          *)
LEMMA Templates ==
    ASSUME NEW t \in Template
    PROVE  /\ t.name \in Names \cup {"Card 1"}
           /\ [t EXCEPT !.name = "DE-EN"] \in Template
           /\ [t EXCEPT !.name = "DE-EN"].name = "DE-EN"
  BY DEF Template, Names

LEMMA FreshTemplate ==
    ASSUME NEW n \in Names, NEW l \in Langs
    PROVE  Fresh(n, l) \in Template /\ Fresh(n, l).name = n /\ Fresh(n, l).deck = l
  BY DEF Fresh, Template

(* Renaming keeps every template in its place.                             *)
LEMMA RenamedSeq ==
    ASSUME NEW tmpls \in Seq(Template)
    PROVE  /\ Renamed(tmpls) \in Seq(Template) /\ Len(Renamed(tmpls)) = Len(tmpls)
           /\ Plain(Renamed(tmpls))
           /\ Plain(tmpls) => \A i \in 1..Len(tmpls) : Renamed(tmpls)[i].name = tmpls[i].name
<1> PICK s : s = Renamed(tmpls)
  OBVIOUS
<1>1. DOMAIN tmpls = 1..Len(tmpls) /\ Len(tmpls) \in Nat
      /\ \A i \in 1..Len(tmpls) : tmpls[i] \in Template
  BY LenProperties
<1>2. s = [i \in 1..Len(tmpls) |->
             IF tmpls[i].name = "Card 1" THEN [tmpls[i] EXCEPT !.name = "DE-EN"] ELSE tmpls[i]]
  BY <1>1 DEF Renamed
<1>3. \A i \in 1..Len(tmpls) :
         /\ s[i] \in Template /\ s[i].name \in Names
         /\ tmpls[i].name # "Card 1" => s[i] = tmpls[i]
  <2> TAKE i \in 1..Len(tmpls)
  <2>1. CASE tmpls[i].name = "Card 1"
    <3>1. s[i] = [tmpls[i] EXCEPT !.name = "DE-EN"]
      BY <1>2, <2>1
    <3>2. s[i] \in Template /\ s[i].name = "DE-EN"
      <4> PICK t \in Template : t = tmpls[i]
        BY <1>1
      <4>1. s[i] = [t EXCEPT !.name = "DE-EN"]
        BY <3>1
      <4>2. /\ [t EXCEPT !.name = "DE-EN"] \in Template
            /\ [t EXCEPT !.name = "DE-EN"].name = "DE-EN"
        BY Templates
      <4> QED BY <4>1, <4>2
    <3> QED BY <2>1, <3>2 DEF Names
  <2>2. CASE tmpls[i].name # "Card 1"
    <3>1. s[i] = tmpls[i]
      BY <1>2, <2>2
    <3>2. tmpls[i] \in Template /\ tmpls[i].name \in Names \cup {"Card 1"}
      BY <1>1, Templates
    <3> QED BY <2>2, <3>1, <3>2
  <2> QED BY <2>1, <2>2
<1>4. s \in Seq(Template) /\ Len(s) = Len(tmpls)
  <2>1. s \in [1..Len(tmpls) -> Template]
    BY <1>2, <1>3, Zenon
  <2> QED BY <1>1, <2>1
<1> QED BY <1>3, <1>4 DEF Plain, Names

(* Lists of all elements of a set, each once, can be joined.               *)
Lists(s, S) ==
    /\ s \in Seq(S)
    /\ \A i, k \in 1..Len(s) : s[i] = s[k] => i = k
    /\ \A x \in S : \E i \in 1..Len(s) : s[i] = x

LEMMA JoinLists ==
    ASSUME NEW s, NEW t, NEW S, NEW T, Lists(s, S), Lists(t, T), S \cap T = {}
    PROVE  Lists(s \o t, S \cup T)
<1>1. s \in Seq(S \cup T) /\ t \in Seq(S \cup T) /\ Len(s) \in Nat /\ Len(t) \in Nat
  BY LenProperties DEF Lists
<1> PICK st : st = s \o t
  OBVIOUS
<1>2. /\ st \in Seq(S \cup T) /\ Len(st) = Len(s) + Len(t)
      /\ \A i \in 1..Len(s) : st[i] = s[i]
      /\ \A i \in (Len(s) + 1)..Len(st) : st[i] = t[i - Len(s)]
  BY <1>1, ConcatProperties
<1>3. ASSUME NEW i \in 1..Len(st), NEW k \in 1..Len(st), st[i] = st[k] PROVE i = k
  <2>1. \A j \in 1..Len(s) : s[j] \in S
    BY ElementOfSeq DEF Lists
  <2>2. \A j \in 1..Len(t) : t[j] \in T
    BY ElementOfSeq DEF Lists
  <2>3. CASE i <= Len(s) /\ k <= Len(s)
    BY <1>1, <1>2, <1>3, <2>3 DEF Lists
  <2>4. CASE i > Len(s) /\ k > Len(s)
    <3>1. i - Len(s) \in 1..Len(t) /\ k - Len(s) \in 1..Len(t)
      BY <1>1, <1>2, <2>4
    <3>2. t[i - Len(s)] = t[k - Len(s)]
      BY <1>1, <1>2, <1>3, <2>4
    <3>3. i - Len(s) = k - Len(s)
      BY <3>1, <3>2 DEF Lists
    <3> QED BY <3>3, <1>1
  <2>5. CASE (i <= Len(s)) # (k <= Len(s))
    BY <1>1, <1>2, <1>3, <2>1, <2>2, <2>5
  <2> QED BY <1>1, <2>3, <2>4, <2>5
<1>4. ASSUME NEW x \in S \cup T PROVE \E i \in 1..Len(st) : st[i] = x
  <2>1. CASE x \in S
    BY <1>1, <1>2, <2>1 DEF Lists
  <2>2. CASE x \in T
    <3>1. PICK k \in 1..Len(t) : t[k] = x
      BY <2>2 DEF Lists
    <3>2. k + Len(s) \in 1..Len(st) /\ st[k + Len(s)] = x
      BY <1>1, <1>2, <3>1
    <3> QED BY <3>2
  <2> QED BY <2>1, <2>2
<1> QED BY <1>2, <1>3, <1>4 DEF Lists

(* Missing lists the wanted names there are not.                           *)
LEMMA MissingLists ==
    ASSUME NEW tmpls, NEW d \in Directions
    PROVE  Lists(Missing(tmpls, d), ToSet(Wanted(d)) \ NamesOf(tmpls))
<1> DEFINE lack == ToSet(Wanted(d)) \ NamesOf(tmpls)
           absent(n) == IF n \in lack THEN <<n>> ELSE <<>>
<1>1. ToSet(Wanted(d)) \subseteq Names
  BY DEF ToSet, Wanted, Names, Directions
<1>2. ASSUME NEW n PROVE Lists(absent(n), {n} \cap lack)
  <2> HIDE DEF lack
  <2>1. CASE n \in lack
    <3>1. absent(n) = <<n>> /\ {n} \cap lack = {n}
      BY <2>1
    <3> HIDE DEF absent
    <3> QED BY <3>1 DEF Lists
  <2>2. CASE n \notin lack
    <3>1. absent(n) = <<>> /\ {n} \cap lack = {}
      BY <2>2
    <3> HIDE DEF absent
    <3> QED BY <3>1 DEF Lists
  <2> QED BY <2>1, <2>2
<1>3. Missing(tmpls, d) = (absent("DE-EN") \o absent("EN-DE")) \o absent("Exercise")
  BY DEF Missing
<1>4. lack = (({"DE-EN"} \cap lack) \cup ({"EN-DE"} \cap lack)) \cup ({"Exercise"} \cap lack)
  BY <1>1 DEF Names
<1> HIDE DEF lack, absent
<1>5. Lists(absent("DE-EN") \o absent("EN-DE"), ({"DE-EN"} \cap lack) \cup ({"EN-DE"} \cap lack))
  BY <1>2, JoinLists
<1>6. Lists(Missing(tmpls, d), lack)
  <2>1. (({"DE-EN"} \cap lack) \cup ({"EN-DE"} \cap lack)) \cap ({"Exercise"} \cap lack) = {}
    OBVIOUS
  <2>2. Lists((absent("DE-EN") \o absent("EN-DE")) \o absent("Exercise"),
              (({"DE-EN"} \cap lack) \cup ({"EN-DE"} \cap lack)) \cup ({"Exercise"} \cap lack))
    BY <1>2, <1>5, <2>1, JoinLists
  <2> QED BY <1>3, <1>4, <2>2
<1> QED BY <1>6 DEF lack

(* One sync of plain, distinct templates: each stays where it is, the      *)
(* wanted ones are all there, once, and pinned to the language's deck.     *)
LEMMA SyncedSeq ==
    ASSUME NEW tmpls \in Seq(Template), Plain(tmpls), Distinct(tmpls),
           NEW d \in Directions, NEW l \in Langs
    PROVE  /\ Synced(tmpls, d, l) \in Seq(Template)
           /\ Len(Synced(tmpls, d, l)) >= Len(tmpls)
           /\ \A i \in 1..Len(tmpls) : Synced(tmpls, d, l)[i].name = tmpls[i].name
           /\ Plain(Synced(tmpls, d, l)) /\ Distinct(Synced(tmpls, d, l))
           /\ ToSet(Wanted(d)) \subseteq NamesOf(Synced(tmpls, d, l))
           /\ \A i \in 1..Len(Synced(tmpls, d, l)) :
                 Synced(tmpls, d, l)[i].name \in ToSet(Wanted(d)) =>
                 Synced(tmpls, d, l)[i].deck = l
<1> DEFINE want == ToSet(Wanted(d))
           kept == [i \in DOMAIN tmpls |->
                       IF tmpls[i].name \in want /\ First(tmpls, i)
                       THEN Fresh(tmpls[i].name, l) ELSE tmpls[i]]
<1> PICK lack : lack = Missing(tmpls, d)
  OBVIOUS
<1> DEFINE added == [i \in DOMAIN lack |-> Fresh(lack[i], l)]
<1>1. want \subseteq Names
  BY DEF ToSet, Wanted, Names, Directions
<1>2. Synced(tmpls, d, l) = kept \o added
  BY DEF Synced
<1>3. /\ DOMAIN tmpls = 1..Len(tmpls) /\ Len(tmpls) \in Nat
      /\ \A i \in 1..Len(tmpls) : tmpls[i] \in Template /\ tmpls[i].name \in Names
  BY LenProperties DEF Plain
<1>4. Lists(lack, want \ NamesOf(tmpls))
  BY MissingLists
<1>5. /\ DOMAIN lack = 1..Len(lack) /\ Len(lack) \in Nat
      /\ \A i \in 1..Len(lack) : lack[i] \in want /\ lack[i] \notin NamesOf(tmpls)
  BY <1>4, LenProperties, ElementOfSeq DEF Lists
<1> HIDE DEF want
<1>6. /\ kept \in Seq(Template) /\ Len(kept) = Len(tmpls)
      /\ \A i \in 1..Len(tmpls) : /\ kept[i].name = tmpls[i].name
                                  /\ kept[i].name \in want => kept[i].deck = l
  <2>1. ASSUME NEW i \in 1..Len(tmpls)
        PROVE  /\ kept[i] \in Template /\ kept[i].name = tmpls[i].name
               /\ kept[i].name \in want => kept[i].deck = l
    <3>1. CASE tmpls[i].name \in want
      <4>1. First(tmpls, i)
        BY <1>3 DEF First, Distinct
      <4>2. kept[i] = Fresh(tmpls[i].name, l)
        BY <1>3, <3>1, <4>1
      <4> QED BY <1>3, <4>2, FreshTemplate
    <3>2. CASE tmpls[i].name \notin want
      BY <1>3, <3>2
    <3> QED BY <3>1, <3>2
  <2>2. kept \in [1..Len(tmpls) -> Template]
    <3>1. kept = [i \in 1..Len(tmpls) |-> kept[i]]
      BY <1>3
    <3> QED BY <2>1, <3>1
  <2> HIDE DEF kept
  <2> QED BY <1>3, <2>1, <2>2
<1>7. /\ added \in Seq(Template) /\ Len(added) = Len(lack)
      /\ \A i \in 1..Len(lack) : added[i].name = lack[i] /\ added[i].deck = l
  <2>1. ASSUME NEW i \in 1..Len(lack)
        PROVE  added[i] \in Template /\ added[i].name = lack[i] /\ added[i].deck = l
    BY <1>1, <1>5, FreshTemplate
  <2>2. added \in [1..Len(lack) -> Template]
    <3>1. added = [i \in 1..Len(lack) |-> added[i]]
      BY <1>5
    <3> QED BY <2>1, <3>1
  <2> HIDE DEF added
  <2> QED BY <1>5, <2>1, <2>2
<1> HIDE DEF kept, added
<1> PICK s : s = Synced(tmpls, d, l)
  OBVIOUS
<1>8. /\ s \in Seq(Template) /\ Len(s) = Len(tmpls) + Len(lack)
      /\ DOMAIN s = 1..(Len(tmpls) + Len(lack))
      /\ \A i \in 1..Len(tmpls) : s[i] = kept[i]
      /\ \A i \in (Len(tmpls) + 1)..Len(s) : s[i] = added[i - Len(tmpls)]
  <2>1. s = kept \o added /\ kept \in Seq(Template) /\ added \in Seq(Template)
    BY <1>2, <1>6, <1>7
  <2>2. /\ s \in Seq(Template) /\ Len(s) = Len(kept) + Len(added)
        /\ \A i \in 1..(Len(kept) + Len(added)) :
              s[i] = IF i <= Len(kept) THEN kept[i] ELSE added[i - Len(kept)]
    BY <2>1, ConcatProperties
  <2>3. DOMAIN s = 1..Len(s)
    BY <2>2, LenProperties
  <2>4. Len(kept) = Len(tmpls) /\ Len(added) = Len(lack)
    BY <1>6, <1>7
  <2> QED BY <1>3, <1>5, <2>2, <2>3, <2>4
<1>9. /\ \A i \in 1..Len(tmpls) : s[i].name = tmpls[i].name /\ (s[i].name \in want => s[i].deck = l)
      /\ \A i \in (Len(tmpls) + 1)..Len(s) :
            /\ i - Len(tmpls) \in 1..Len(lack)
            /\ s[i].name = lack[i - Len(tmpls)] /\ s[i].deck = l
  <2>1. \A i \in 1..Len(tmpls) : s[i].name = tmpls[i].name /\ (s[i].name \in want => s[i].deck = l)
    BY <1>6, <1>8
  <2>2. \A i \in (Len(tmpls) + 1)..Len(s) : i - Len(tmpls) \in 1..Len(lack)
    BY <1>3, <1>5, <1>8
  <2> QED BY <2>1, <2>2, <1>7, <1>8
<1>10. Plain(s) /\ \A i \in 1..Len(s) : s[i].name \in want => s[i].deck = l
  <2> SUFFICES ASSUME NEW i \in 1..Len(s)
               PROVE  s[i].name \in Names /\ (s[i].name \in want => s[i].deck = l)
    BY DEF Plain
  <2>1. CASE i <= Len(tmpls)
    BY <1>3, <1>8, <1>9, <2>1
  <2>2. CASE i > Len(tmpls)
    BY <1>1, <1>3, <1>5, <1>8, <1>9, <2>2
  <2> QED BY <1>3, <1>8, <2>1, <2>2
<1>11. Distinct(s)
  <2> SUFFICES ASSUME NEW i \in 1..Len(s), NEW k \in 1..Len(s), s[i].name = s[k].name
               PROVE  i = k
    BY DEF Distinct
  <2>1. CASE i <= Len(tmpls) /\ k <= Len(tmpls)
    BY <1>3, <1>8, <1>9, <2>1 DEF Distinct
  <2>2. CASE i > Len(tmpls) /\ k > Len(tmpls)
    <3>1. /\ i - Len(tmpls) \in 1..Len(lack) /\ k - Len(tmpls) \in 1..Len(lack)
          /\ lack[i - Len(tmpls)] = lack[k - Len(tmpls)]
      BY <1>3, <1>8, <1>9, <2>2
    <3>2. i - Len(tmpls) = k - Len(tmpls)
      BY <1>4, <3>1 DEF Lists
    <3> QED BY <1>3, <1>8, <3>2
  <2>3. \A a \in 1..Len(tmpls) : tmpls[a].name \in NamesOf(tmpls)
    BY <1>3 DEF NamesOf
  <2>4. CASE i <= Len(tmpls) /\ k > Len(tmpls)
    <3>1. s[i].name \in NamesOf(tmpls) /\ s[k].name \notin NamesOf(tmpls)
      BY <1>3, <1>5, <1>8, <1>9, <2>3, <2>4
    <3> QED BY <3>1
  <2>5. CASE i > Len(tmpls) /\ k <= Len(tmpls)
    <3>1. s[k].name \in NamesOf(tmpls) /\ s[i].name \notin NamesOf(tmpls)
      BY <1>3, <1>5, <1>8, <1>9, <2>3, <2>5
    <3> QED BY <3>1
  <2> QED BY <1>3, <1>8, <2>1, <2>2, <2>4, <2>5
<1>12. want \subseteq NamesOf(s)
  <2> SUFFICES ASSUME NEW n \in want PROVE \E i \in 1..Len(s) : s[i].name = n
    BY <1>8 DEF NamesOf
  <2>1. CASE n \in NamesOf(tmpls)
    BY <1>3, <1>5, <1>8, <1>9, <2>1 DEF NamesOf
  <2>2. CASE n \notin NamesOf(tmpls)
    <3>1. PICK k \in 1..Len(lack) : lack[k] = n
      BY <1>4, <2>2 DEF Lists
    <3>2. k + Len(tmpls) \in (Len(tmpls) + 1)..Len(s) /\ (k + Len(tmpls)) - Len(tmpls) = k
      BY <1>3, <1>5, <1>8, <3>1
    <3>3. s[k + Len(tmpls)].name = n
      BY <1>9, <3>1, <3>2
    <3> QED BY <1>3, <1>8, <3>2, <3>3
  <2> QED BY <2>1, <2>2
<1> QED BY <1>3, <1>5, <1>8, <1>9, <1>10, <1>11, <1>12 DEF want

(* Three names make at most three templates, two wanted ones at least two. *)
LEMMA TwoOrThree ==
    ASSUME NEW tmpls \in Seq(Template), Plain(tmpls), Distinct(tmpls),
           NEW d \in Directions, ToSet(Wanted(d)) \subseteq NamesOf(tmpls)
    PROVE  Len(tmpls) \in {2, 3}
<1>1. Len(tmpls) \in Nat /\ DOMAIN tmpls = 1..Len(tmpls)
  BY LenProperties
<1>2. ~(Len(tmpls) >= 4)
  <2> SUFFICES ASSUME Len(tmpls) >= 4 PROVE FALSE
    OBVIOUS
  <2>1. 1 \in 1..Len(tmpls) /\ 2 \in 1..Len(tmpls) /\ 3 \in 1..Len(tmpls) /\ 4 \in 1..Len(tmpls)
    BY <1>1
  <2> QED BY <2>1 DEF Plain, Distinct, Names
<1>3. \E x, y \in ToSet(Wanted(d)) : x # y
  <2>1. 1 \in DOMAIN Wanted(d) /\ 2 \in DOMAIN Wanted(d) /\ Wanted(d)[1] # Wanted(d)[2]
    BY DEF Wanted, Directions
  <2> QED BY <2>1 DEF ToSet
<1>4. \E i, k \in 1..Len(tmpls) : i # k
  BY <1>1, <1>3 DEF NamesOf
<1> QED BY <1>1, <1>2, <1>4

(* What every write first does to the notetype.                            *)
LEMMA MigratedModel ==
    ASSUME NEW m \in Model, Distinct(Renamed(m.tmpls)), NEW d \in Directions, NEW l \in Langs
    PROVE  LET n == Migrated(m, d, l)
           IN  /\ n \in Model /\ n.fields = Releases /\ Distinct(Renamed(n.tmpls))
               /\ Len(n.tmpls) \in {2, 3} /\ Len(m.tmpls) <= Len(n.tmpls)
               /\ Plain(n.tmpls) /\ Distinct(n.tmpls)
               /\ ToSet(Wanted(d)) \subseteq NamesOf(n.tmpls)
               /\ \A i \in 1..Len(m.tmpls) : n.tmpls[i].name = Renamed(m.tmpls)[i].name
               /\ \A i \in 1..Len(n.tmpls) :
                     n.tmpls[i].name \in ToSet(Wanted(d)) => n.tmpls[i].deck = l
<1> PICK r : r = Renamed(m.tmpls)
  OBVIOUS
<1> PICK s : s = Synced(r, d, l)
  OBVIOUS
<1>1. m.tmpls \in Seq(Template)
  BY DEF Model
<1>2. r \in Seq(Template) /\ Len(r) = Len(m.tmpls) /\ Plain(r) /\ Distinct(r)
  BY <1>1, RenamedSeq
<1>3. /\ s \in Seq(Template) /\ Len(s) >= Len(r) /\ Plain(s) /\ Distinct(s)
      /\ \A i \in 1..Len(r) : s[i].name = r[i].name
      /\ ToSet(Wanted(d)) \subseteq NamesOf(s)
      /\ \A i \in 1..Len(s) : s[i].name \in ToSet(Wanted(d)) => s[i].deck = l
  BY <1>2, SyncedSeq
<1>4. Len(s) \in {2, 3}
  BY <1>3, TwoOrThree
<1>5. Distinct(Renamed(s))
  <2>1. Len(Renamed(s)) = Len(s) /\ \A i \in 1..Len(s) : Renamed(s)[i].name = s[i].name
    BY <1>3, RenamedSeq
  <2> QED BY <1>3, <2>1 DEF Distinct
<1>6. Migrated(m, d, l) = [fields |-> Releases, tmpls |-> s]
  BY DEF Migrated
<1>7. [fields |-> Releases, tmpls |-> s] \in Model
  BY <1>3 DEF Model
<1>8. Len(m.tmpls) \in Nat /\ Len(m.tmpls) <= Len(s)
  BY <1>1, <1>2, <1>3, <1>4, LenProperties
<1> QED BY <1>2, <1>3, <1>4, <1>5, <1>6, <1>7, <1>8

(* Two or three templates, never fewer than before: counting the changes.  *)
LEMMA SchemaCount ==
    ASSUME NEW was, NEW is, NEW old \in Nat, NEW new \in {2, 3}, old <= new,
           NEW fields, NEW full,
           \/ was = 0
           \/ was = 1 /\ fields = full /\ old >= 2
           \/ was = 2 /\ fields = full /\ old >= 3,
           \/ is = was
           \/ is = was + 1 /\ (fields # full \/ old # new)
    PROVE  \/ is = 0
           \/ is = 1 /\ new >= 2
           \/ is = 2 /\ new >= 3
<1>1. CASE new = 2
  BY <1>1
<1>2. CASE new = 3
  BY <1>2
<1> QED BY <1>1, <1>2

(* The schema changes at most twice: the second change leaves nothing to   *)
(* add.                                                                    *)
LEMMA EnsureKeeps ==
    ASSUME NoteInv, NEW d \in Directions, NEW l \in Langs, EnsureNotetype(d, l)
    PROVE  /\ model' \in Model /\ schemas' \in Nat
           /\ Distinct(Renamed(model'.tmpls))
           /\ \/ schemas' = 0
              \/ schemas' = 1 /\ model'.fields = Releases /\ Len(model'.tmpls) >= 2
              \/ schemas' = 2 /\ model'.fields = Releases /\ Len(model'.tmpls) >= 3
           /\ \A i \in 1..Len(model'.tmpls) :
                 model'.tmpls[i].name \in ToSet(Wanted(d)) => model'.tmpls[i].deck = l
           /\ Plain(model'.tmpls) /\ Distinct(model'.tmpls)
           /\ ToSet(Wanted(d)) \subseteq NamesOf(model'.tmpls)
           /\ Len(model.tmpls) <= Len(model'.tmpls)
           /\ \A i \in 1..Len(model.tmpls) : model'.tmpls[i].name = Renamed(model.tmpls)[i].name
<1> PICK n : n = Migrated(model, d, l)
  OBVIOUS
<1>1. model \in Model /\ schemas \in Nat /\ Distinct(Renamed(model.tmpls))
  BY DEF NoteInv, NoteTypeOK
<1>2. /\ n \in Model /\ n.fields = Releases /\ Distinct(Renamed(n.tmpls))
      /\ Len(n.tmpls) \in {2, 3} /\ Len(model.tmpls) <= Len(n.tmpls)
      /\ Plain(n.tmpls) /\ Distinct(n.tmpls)
      /\ ToSet(Wanted(d)) \subseteq NamesOf(n.tmpls)
      /\ \A i \in 1..Len(model.tmpls) : n.tmpls[i].name = Renamed(model.tmpls)[i].name
      /\ \A i \in 1..Len(n.tmpls) : n.tmpls[i].name \in ToSet(Wanted(d)) => n.tmpls[i].deck = l
  BY <1>1, MigratedModel
<1>3. model' = n /\ schemas' = IF SchemaChange(model, n) THEN schemas + 1 ELSE schemas
  BY DEF EnsureNotetype
<1>4. \/ schemas' = 0
      \/ schemas' = 1 /\ n.fields = Releases /\ Len(n.tmpls) >= 2
      \/ schemas' = 2 /\ n.fields = Releases /\ Len(n.tmpls) >= 3
  <2>0. PICK old, new : old = Len(model.tmpls) /\ new = Len(n.tmpls)
    OBVIOUS
  <2>1. old \in Nat /\ new \in {2, 3} /\ old <= new /\ n.fields = Releases
    BY <2>0, <1>1, <1>2, LenProperties DEF Model
  <2>2. \/ schemas = 0
        \/ schemas = 1 /\ model.fields = Releases /\ old >= 2
        \/ schemas = 2 /\ model.fields = Releases /\ old >= 3
    BY <2>0 DEF NoteInv
  <2>3. \/ schemas' = schemas
        \/ schemas' = schemas + 1 /\ (model.fields # n.fields \/ old # new)
    BY <2>0, <1>3 DEF SchemaChange
  <2>4. \/ schemas' = 0
        \/ schemas' = 1 /\ new >= 2
        \/ schemas' = 2 /\ new >= 3
    <3>0. PICK was, is, has, full :
             was = schemas /\ is = schemas' /\ has = model.fields /\ full = Releases
      OBVIOUS
    <3>1. /\ \/ was = 0
             \/ was = 1 /\ has = full /\ old >= 2
             \/ was = 2 /\ has = full /\ old >= 3
          /\ \/ is = was
             \/ is = was + 1 /\ (has # full \/ old # new)
      BY <2>1, <2>2, <2>3, <3>0
    <3>2. old \in Nat /\ new \in {2, 3} /\ old <= new
      BY <2>1
    <3>3. \/ is = 0
          \/ is = 1 /\ new >= 2
          \/ is = 2 /\ new >= 3
      BY <3>1, <3>2, SchemaCount
    <3> QED BY <3>0, <3>3
  <2> QED BY <2>0, <2>1, <2>4
<1>5. schemas' \in Nat
  BY <1>4
<1> QED BY <1>2, <1>3, <1>4, <1>5

LEMMA MadeCards ==
    ASSUME NEW m \in Model, NEW d \in Directions, NEW l \in Langs, NEW names \in SUBSET Names,
           \A i \in 1..Len(m.tmpls) : m.tmpls[i].name \in ToSet(Wanted(d)) => m.tmpls[i].deck = l
    PROVE  /\ Made(m.tmpls, d, l, names) \subseteq Card
           /\ \A c \in Made(m.tmpls, d, l, names) : c.wanted => c.deck = c.lang
<1> SUFFICES ASSUME NEW c \in Made(m.tmpls, d, l, names)
             PROVE  c \in Card /\ (c.wanted => c.deck = c.lang)
  OBVIOUS
<1>1. m.tmpls \in Seq(Template) /\ DOMAIN m.tmpls = 1..Len(m.tmpls)
  BY LenProperties DEF Model
<1>2. PICK i \in 1..Len(m.tmpls) :
         /\ m.tmpls[i].name \in names
         /\ c = [lang |-> l, name |-> m.tmpls[i].name, deck |-> m.tmpls[i].deck,
                 wanted |-> m.tmpls[i].name \in ToSet(Wanted(d)), late |-> FALSE]
  BY <1>1, Zenon DEF Made
<1>3. m.tmpls[i].deck \in Langs \cup {Unpinned} /\ m.tmpls[i].name \in Names
  <2>1. m.tmpls[i] \in Template
    BY <1>1, ElementOfSeq
  <2> QED BY <1>2, <2>1 DEF Template
<1>4. CASE m.tmpls[i].name \in ToSet(Wanted(d))
  <2>1. c = [lang |-> l, name |-> m.tmpls[i].name, deck |-> m.tmpls[i].deck, wanted |-> TRUE,
             late |-> FALSE]
    BY <1>2, <1>4, Zenon
  <2> QED BY <1>3, <1>4, <2>1 DEF Card
<1>5. CASE m.tmpls[i].name \notin ToSet(Wanted(d))
  <2>1. (m.tmpls[i].name \in ToSet(Wanted(d))) = FALSE
    BY <1>5, SMT
  <2>2. c = [lang |-> l, name |-> m.tmpls[i].name, deck |-> m.tmpls[i].deck, wanted |-> FALSE,
             late |-> FALSE]
    BY <1>2, <2>1, Zenon
  <2> QED BY <1>3, <2>2 DEF Card
<1> QED BY <1>4, <1>5

(* The templates an update adds are among those there are afterwards, and  *)
(* none of them was there before.                                          *)
LEMMA Keeps ==
    ASSUME NoteInv, NEW d \in Directions, NEW l \in Langs, EnsureNotetype(d, l)
    PROVE  /\ \A n : Has(n) => Has(n)'
           /\ \A n \in ToSet(Missing(Renamed(model.tmpls), d)) :
                 n \in ToSet(Wanted(d)) /\ ~Has(n)
           /\ \A n \in ToSet(Wanted(d)) : Has(n)'
<1>1. /\ model' \in Model /\ Plain(model'.tmpls) /\ Len(model.tmpls) <= Len(model'.tmpls)
      /\ ToSet(Wanted(d)) \subseteq NamesOf(model'.tmpls)
      /\ \A i \in 1..Len(model.tmpls) : model'.tmpls[i].name = Renamed(model.tmpls)[i].name
  BY EnsureKeeps
<1> PICK r : r = Renamed(model.tmpls)
  OBVIOUS
<1> PICK s : s = Renamed(model'.tmpls)
  OBVIOUS
<1>2. model.tmpls \in Seq(Template) /\ model'.tmpls \in Seq(Template)
  BY <1>1 DEF NoteInv, NoteTypeOK, Model
<1>3. /\ r \in Seq(Template) /\ Len(r) = Len(model.tmpls)
      /\ s \in Seq(Template) /\ Len(s) = Len(model'.tmpls)
      /\ \A i \in 1..Len(model'.tmpls) : s[i].name = model'.tmpls[i].name
  BY <1>1, <1>2, RenamedSeq
<1>4. /\ DOMAIN r = 1..Len(r) /\ DOMAIN s = 1..Len(s) /\ Len(r) \in Nat /\ Len(s) \in Nat
      /\ DOMAIN model'.tmpls = 1..Len(s)
  BY <1>2, <1>3, LenProperties
<1>5. NamesOf(r) \subseteq NamesOf(s)
  <2> SUFFICES ASSUME NEW i \in 1..Len(r) PROVE i \in 1..Len(s) /\ s[i].name = r[i].name
    BY <1>4 DEF NamesOf
  <2> QED BY <1>1, <1>3, <1>4
<1>6. NamesOf(model'.tmpls) = NamesOf(s)
  BY <1>3, <1>4 DEF NamesOf
<1>7. \A n \in ToSet(Missing(r, d)) : n \in ToSet(Wanted(d)) /\ n \notin NamesOf(r)
  <2>1. Lists(Missing(r, d), ToSet(Wanted(d)) \ NamesOf(r))
    BY MissingLists
  <2> PICK lack : lack = Missing(r, d)
    OBVIOUS
  <2>2. \A i \in 1..Len(lack) : lack[i] \in ToSet(Wanted(d)) \ NamesOf(r)
    BY <2>1, ElementOfSeq DEF Lists
  <2>3. DOMAIN lack = 1..Len(lack)
    BY <2>1, LenProperties DEF Lists
  <2> QED BY <2>2, <2>3 DEF ToSet
<1> QED BY <1>1, <1>5, <1>6, <1>7 DEF Has

(* Late cards are cards; one in a foreign deck is a direction's that was   *)
(* not there before, of a collection with notes.                           *)
LEMMA LateCards ==
    ASSUME NoteInv, NEW d \in Directions, NEW l \in Langs, EnsureNotetype(d, l)
    PROVE  /\ Late(d, l) \subseteq Card
           /\ \A c \in Late(d, l) :
                 /\ c.late /\ kinds # {}
                 /\ \E n \in {"DE-EN", "EN-DE"} : n \in ToSet(Wanted(d)) /\ ~Has(n)
<1> SUFFICES ASSUME NEW c \in Late(d, l)
             PROVE  /\ c \in Card /\ c.late /\ kinds # {}
                    /\ \E n \in {"DE-EN", "EN-DE"} : n \in ToSet(Wanted(d)) /\ ~Has(n)
  OBVIOUS
<1>1. PICK k \in kinds, n \in ToSet(Missing(Renamed(model.tmpls), d)) :
         /\ n \in Fronts(k.filled)
         /\ c = [lang |-> k.lang, name |-> n, deck |-> l, wanted |-> TRUE, late |-> TRUE]
  BY DEF Late
<1>2. n \in ToSet(Wanted(d)) /\ ~Has(n) /\ n \in Names
  BY <1>1, Keeps DEF Fronts
<1>3. k \in Kind
  BY DEF NoteInv, NoteTypeOK
<1>4. n # "Exercise"
  BY <1>1, <1>2 DEF NoteInv, Fronts
<1> QED BY <1>1, <1>2, <1>3, <1>4 DEF Card, Kind, Names

(* Every write, whatever it adds, keeps the notetype's invariant, and the  *)
(* user's templates.                                                       *)
Written(d, l) == AddVocabNote(d, l) \/ UpdateVocabNote(d, l) \/ UpdateMissesCard(d, l)

(* What it makes of the notes.                                             *)
LEMMA WrittenCards ==
    ASSUME NoteInv, NEW d \in Directions, NEW l \in Langs, Written(d, l)
    PROVE  /\ cards' \subseteq Card
           /\ \A c \in cards' : c.wanted /\ ~c.late => c.deck = c.lang
<1>1. EnsureNotetype(d, l)
  BY DEF Written, AddVocabNote, UpdateVocabNote, UpdateMissesCard
<1>2. PICK m \in Model : m = model'
  BY <1>1, EnsureKeeps
<1>3. \A i \in 1..Len(m.tmpls) : m.tmpls[i].name \in ToSet(Wanted(d)) => m.tmpls[i].deck = l
  BY <1>1, <1>2, EnsureKeeps
<1>4. \/ cards' = Late(d, l)
      \/ \E names \in SUBSET Names : cards' = Late(d, l) \cup Made(m.tmpls, d, l, names)
  BY <1>2 DEF Written, AddVocabNote, UpdateVocabNote, UpdateMissesCard, Names, Fronts
<1>5. Late(d, l) \subseteq Card /\ \A c \in Late(d, l) : c.late
  BY <1>1, LateCards
<1>6. ASSUME NEW names \in SUBSET Names
      PROVE  /\ Made(m.tmpls, d, l, names) \subseteq Card
             /\ \A c \in Made(m.tmpls, d, l, names) : c.wanted => c.deck = c.lang
  BY <1>3, MadeCards
<1> QED BY <1>4, <1>5, <1>6

LEMMA WrittenKinds ==
    ASSUME NoteInv, NEW d \in Directions, NEW l \in Langs, Written(d, l)
    PROVE  /\ kinds' \subseteq Kind
           /\ kinds' # {} => (Has("DE-EN") \/ Has("EN-DE"))'
           /\ \A k \in kinds' : k.filled => Has("Exercise")'
<1>1. EnsureNotetype(d, l)
  BY DEF Written, AddVocabNote, UpdateVocabNote, UpdateMissesCard
<1>2. kinds \subseteq Kind
  BY DEF NoteInv, NoteTypeOK
<1>3. \A k \in kinds' : k \in kinds \/ \E filled \in BOOLEAN : k = [lang |-> l, filled |-> filled]
  BY DEF Written, AddVocabNote, UpdateVocabNote, UpdateMissesCard
<1>4. kinds' \subseteq Kind
  BY <1>2, <1>3 DEF Kind
<1>5. "Exercise" \in ToSet(Wanted(d)) /\ \E n \in {"DE-EN", "EN-DE"} : n \in ToSet(Wanted(d))
  <2>1. /\ 1 \in DOMAIN Wanted(d) /\ Wanted(d)[1] \in {"DE-EN", "EN-DE"}
        /\ \E i \in DOMAIN Wanted(d) : Wanted(d)[i] = "Exercise"
    <3>1. CASE d = "both"
      <4>1. Wanted(d) = <<"DE-EN", "EN-DE", "Exercise">>
        BY <3>1 DEF Wanted
      <4>2. 3 \in DOMAIN Wanted(d) /\ Wanted(d)[3] = "Exercise"
        BY <4>1
      <4> QED BY <4>1, <4>2
    <3>2. CASE d = "de_en" \/ d = "en_de"
      <4>1. Wanted(d) = <<"DE-EN", "Exercise">> \/ Wanted(d) = <<"EN-DE", "Exercise">>
        BY <3>2 DEF Wanted
      <4>2. 2 \in DOMAIN Wanted(d) /\ Wanted(d)[2] = "Exercise"
        BY <4>1
      <4> QED BY <4>1, <4>2
    <3> QED BY <3>1, <3>2 DEF Directions
  <2> QED BY <2>1 DEF ToSet
<1>6. /\ Has("Exercise")'
      /\ (Has("DE-EN") \/ Has("EN-DE"))'
  BY <1>1, <1>5, Keeps
<1> QED BY <1>4, <1>6

(* Cards stray when a second direction comes to a collection with notes:   *)
(* after that there is none left to come.                                  *)
LEMMA WrittenStrews ==
    ASSUME NoteInv, NEW d \in Directions, NEW l \in Langs, Written(d, l)
    PROVE  /\ strewn' \in Nat /\ strewn' <= 1
           /\ strewn' = 1 => (Has("DE-EN") /\ Has("EN-DE"))'
<1>1. EnsureNotetype(d, l)
  BY DEF Written, AddVocabNote, UpdateVocabNote, UpdateMissesCard
<1>2. strewn' = IF \E c \in Late(d, l) : c.deck # c.lang THEN strewn + 1 ELSE strewn
  BY <1>1 DEF EnsureNotetype
<1>3. strewn \in Nat /\ strewn <= 1 /\ (strewn = 1 => Has("DE-EN") /\ Has("EN-DE"))
  BY DEF NoteInv, NoteTypeOK, CardsInOwnDeck
<1>4. /\ Has("DE-EN") => Has("DE-EN")'
      /\ Has("EN-DE") => Has("EN-DE")'
      /\ \A n \in ToSet(Wanted(d)) : Has(n)'
  BY <1>1, Keeps
<1>5. CASE \E c \in Late(d, l) : c.deck # c.lang
  <2>1. PICK n \in {"DE-EN", "EN-DE"} : n \in ToSet(Wanted(d)) /\ ~Has(n) /\ kinds # {}
    BY <1>1, <1>5, LateCards
  <2>2. Has("DE-EN") \/ Has("EN-DE")
    BY <2>1 DEF NoteInv
  <2>3. strewn = 0
    BY <1>3, <2>1
  <2>4. (Has("DE-EN") /\ Has("EN-DE"))'
    BY <1>4, <2>1, <2>2
  <2> QED BY <1>2, <1>5, <2>3, <2>4
<1>6. CASE ~\E c \in Late(d, l) : c.deck # c.lang
  BY <1>2, <1>3, <1>4, <1>6
<1> QED BY <1>5, <1>6

LEMMA WrittenKeeps ==
    ASSUME NoteInv, NEW d \in Directions, NEW l \in Langs, Written(d, l)
    PROVE  NoteInv'
<1>1. EnsureNotetype(d, l)
  BY DEF Written, AddVocabNote, UpdateVocabNote, UpdateMissesCard
<1>2. /\ model' \in Model /\ schemas' \in Nat
      /\ Distinct(Renamed(model'.tmpls))
      /\ \/ schemas' = 0
         \/ schemas' = 1 /\ model'.fields = Releases /\ Len(model'.tmpls) >= 2
         \/ schemas' = 2 /\ model'.fields = Releases /\ Len(model'.tmpls) >= 3
  BY <1>1, EnsureKeeps
<1> QED BY <1>2, WrittenCards, WrittenKinds, WrittenStrews
        DEF NoteInv, NoteTypeOK, CardsInOwnDeck

LEMMA StillNotes ==
    ASSUME NoteInv, UNCHANGED noteVars
    PROVE  NoteInv'
  BY DEF NoteInv, NoteTypeOK, CardsInOwnDeck, Has, noteVars

LEMMA WrittenKeepsTemplates ==
    ASSUME NoteInv, NEW d \in Directions, NEW l \in Langs, Written(d, l)
    PROVE  /\ \A i \in DOMAIN model.tmpls :
                 /\ i \in DOMAIN model'.tmpls
                 /\ model'.tmpls[i].name = Renamed(model.tmpls)[i].name
           /\ \A i, k \in DOMAIN model'.tmpls :
                 model'.tmpls[i].name = model'.tmpls[k].name => i = k
<1>1. EnsureNotetype(d, l)
  BY DEF Written, AddVocabNote, UpdateVocabNote, UpdateMissesCard
<1>2. /\ model' \in Model /\ Distinct(model'.tmpls) /\ Len(model.tmpls) <= Len(model'.tmpls)
      /\ \A i \in 1..Len(model.tmpls) : model'.tmpls[i].name = Renamed(model.tmpls)[i].name
  BY <1>1, EnsureKeeps
<1>3. /\ DOMAIN model.tmpls = 1..Len(model.tmpls) /\ Len(model.tmpls) \in Nat
      /\ DOMAIN model'.tmpls = 1..Len(model'.tmpls) /\ Len(model'.tmpls) \in Nat
  <2>1. model.tmpls \in Seq(Template) /\ model'.tmpls \in Seq(Template)
    BY <1>2 DEF NoteInv, NoteTypeOK, Model
  <2> QED BY <2>1, LenProperties
<1> QED BY <1>2, <1>3 DEF Distinct

(* Collections of every earlier release, and no notetype at all.           *)
LEMMA InitNoteInv == NoteInit => NoteInv
<1> SUFFICES ASSUME NoteInit PROVE NoteInv
  OBVIOUS
<1>1. CASE model = NoModel
  <2>1. model \in Model /\ Len(model.tmpls) = 0
    BY <1>1 DEF NoModel, Model
  <2>2. Len(Renamed(model.tmpls)) = 0
    BY <2>1, RenamedSeq DEF Model
  <2>3. kinds = {} /\ cards = {} /\ schemas = 0 /\ strewn = 0
    BY <1>1 DEF NoteInit
  <2> QED BY <2>1, <2>2, <2>3 DEF NoteInv, NoteTypeOK, Distinct, CardsInOwnDeck
<1>2. CASE model \in Legacy
  <2>1. PICK f \in 1..Releases, n \in LegacyNames, c \in BOOLEAN, k \in Langs \cup {Unpinned} :
           model = [fields |-> f, tmpls |-> [i \in DOMAIN n |->
                                               [name |-> n[i], current |-> c, deck |-> k]]]
    BY <1>2, SMT DEF Legacy
  <2>0. PICK t : t = [i \in DOMAIN n |-> [name |-> n[i], current |-> c, deck |-> k]]
    OBVIOUS
  <2>2. Spread(n)
    BY LegacySeq
  <2>3. DOMAIN n = 1..Len(n) /\ Len(n) \in Nat /\ \A i \in 1..Len(n) : n[i] \in Names \cup {"Card 1"}
    BY <2>2, LenProperties, ElementOfSeq DEF Spread
  <2>4. \A i \in 1..Len(n) : t[i] \in Template /\ t[i].name = n[i]
    BY <2>0, <2>3 DEF Template
  <2>5. t \in Seq(Template) /\ Len(t) = Len(n)
    <3>1. t \in [1..Len(n) -> Template]
      BY <2>0, <2>3, <2>4, Zenon
    <3>2. PICK len \in Nat : len = Len(n)
      BY <2>3
    <3>3. t \in [1..len -> Template]
      BY <3>1, <3>2
    <3>4. t \in Seq(Template) /\ Len(t) = len
      BY <3>3
    <3> QED BY <3>2, <3>4
  <2>6. PICK r : r = Renamed(t)
    OBVIOUS
  <2>7. /\ Len(r) = Len(n)
        /\ \A i \in 1..Len(n) : r[i].name = IF n[i] = "Card 1" THEN "DE-EN" ELSE n[i]
    <3>1. Len(r) = Len(n)
      BY <2>5, <2>6, RenamedSeq
    <3>2. ASSUME NEW i \in 1..Len(n)
          PROVE  r[i].name = IF n[i] = "Card 1" THEN "DE-EN" ELSE n[i]
      <4>1. i \in DOMAIN t /\ t[i] \in Template /\ t[i].name = n[i]
        BY <2>3, <2>4, <2>5, LenProperties
      <4>2. r[i] = IF t[i].name = "Card 1" THEN [t[i] EXCEPT !.name = "DE-EN"] ELSE t[i]
        BY <2>6, <4>1 DEF Renamed
      <4> QED BY <4>1, <4>2 DEF Template
    <3> QED BY <3>1, <3>2
  <2>8. Distinct(r)
    <3> SUFFICES ASSUME NEW i \in 1..Len(r), NEW j \in 1..Len(r), r[i].name = r[j].name
                 PROVE  i = j
      BY DEF Distinct
    <3>1. i \in 1..Len(n) /\ j \in 1..Len(n)
      BY <2>7
    <3>2. n[i] = n[j]
      BY <2>2, <2>7, <3>1 DEF Spread
    <3> QED BY <2>2, <3>1, <3>2 DEF Spread
  <2>9. model = [fields |-> f, tmpls |-> t] /\ model \in Model
    BY <2>0, <2>1, <2>5 DEF Model
  <2>10. /\ Has("DE-EN") \/ Has("EN-DE")
         /\ "Exercise" \in NamesOf(model.tmpls) => Has("Exercise")
    <3>1. DOMAIN r = 1..Len(n) /\ DOMAIN t = 1..Len(n)
      BY <2>5, <2>6, <2>7, RenamedSeq, LenProperties
    <3>2. \E i \in 1..Len(n) : n[i] \in {"Card 1", "DE-EN", "EN-DE"}
      <4>1. 1 \in 1..Len(n) /\ n[1] \in {"Card 1", "DE-EN", "EN-DE"}
        BY LegacyFirst
      <4> QED BY <4>1
    <3>3. \E i \in 1..Len(n) : r[i].name \in {"DE-EN", "EN-DE"}
      BY <2>7, <3>2
    <3>4. ASSUME NEW i \in 1..Len(n), t[i].name = "Exercise" PROVE r[i].name = "Exercise"
      BY <2>4, <2>7, <3>4
    <3> QED BY <2>6, <2>9, <3>1, <3>3, <3>4 DEF Has, NamesOf
  <2> QED BY <2>6, <2>8, <2>9, <2>10 DEF NoteInit, NoteInv, NoteTypeOK, CardsInOwnDeck
<1> QED BY <1>1, <1>2 DEF NoteInit

-----------------------------------------------------------------------------
(* The calls' part of the invariant, which only thread, answer and notes   *)
(* can disturb.                                                            *)
CallsTyped ==
    /\ notes \subseteq Calls
    /\ open \in Calls \cup {Nobody}
    /\ thread \in [Calls -> {"idle", "opening", "changing", "returning", "raising", "ended"}]
    /\ answer \in [Calls -> {"none", "open", "returned", "raised"}]

CallsAnswered ==
    \A c \in Calls :
       /\ thread[c] = "idle" <=> answer[c] = "none"
       /\ thread[c] = "returning" => c \in notes
       /\ answer[c] = "returned" => c \in notes

LEMMA LocalParts == LocalInv <=> NoteInv /\ CallsTyped /\ CallsAnswered
  BY DEF LocalInv, TypeOK, NoteInv, CallsTyped, CallsAnswered

LEMMA LocalPartsNext == LocalInv' <=> NoteInv' /\ CallsTyped' /\ CallsAnswered'
  BY DEF LocalInv, TypeOK, NoteInv, CallsTyped, CallsAnswered

USE DEF CallsTyped, CallsAnswered

LEMMA InitCalls == Init => CallsTyped /\ CallsAnswered
  BY DEF Init

LEMMA CallCalls ==
    ASSUME CallsTyped, CallsAnswered, NEW c \in Calls, Call(c)
    PROVE  CallsTyped' /\ CallsAnswered'
  BY DEF Call, Goto

LEMMA OpenCalls ==
    ASSUME CallsTyped, CallsAnswered, NEW c \in Calls, OpenCollection(c)
    PROVE  CallsTyped' /\ CallsAnswered'
  BY DEF OpenCollection, Goto

LEMMA FailCalls ==
    ASSUME CallsTyped, CallsAnswered, NEW c \in Calls, OpenFails(c)
    PROVE  CallsTyped' /\ CallsAnswered'
  BY DEF OpenFails, End, Goto

LEMMA ChangeCalls ==
    ASSUME CallsTyped, CallsAnswered, NEW c \in Calls, Change(c)
    PROVE  CallsTyped' /\ CallsAnswered'
  BY DEF Change, Goto

LEMMA RaiseCalls ==
    ASSUME CallsTyped, CallsAnswered, NEW c \in Calls, ChangeRaises(c)
    PROVE  CallsTyped' /\ CallsAnswered'
  BY DEF ChangeRaises, Goto

LEMMA CloseCalls ==
    ASSUME CallsTyped, CallsAnswered, NEW c \in Calls, Close(c)
    PROVE  CallsTyped' /\ CallsAnswered'
  BY DEF Close, End, Goto

LEMMA CancelCalls ==
    ASSUME CallsTyped, CallsAnswered, NEW c \in Calls, Cancel(c)
    PROVE  CallsTyped' /\ CallsAnswered'
  BY DEF Cancel

LEMMA RestartCalls ==
    ASSUME CallsTyped, CallsAnswered, Restart
    PROVE  CallsTyped' /\ CallsAnswered'
  BY DEF Restart

LEMMA OtherCalls ==
    ASSUME CallsTyped, CallsAnswered, UNCHANGED <<notes, open, thread, answer>>
    PROVE  CallsTyped' /\ CallsAnswered'
  OBVIOUS

(* Every step leaves the notetype alone or is a write.                     *)
LEMMA NoteSteps ==
    ASSUME [Next]_vars
    PROVE  \/ UNCHANGED noteVars
           \/ \E d \in Directions, l \in Langs : Written(d, l)
<1>1. CASE UNCHANGED vars
  BY <1>1 DEF vars, noteVars
<1>2. ASSUME NEW c \in Calls,
             \/ Call(c) \/ OpenCollection(c) \/ OpenFails(c) \/ Close(c) \/ Cancel(c)
      PROVE  UNCHANGED noteVars
  BY <1>2 DEF Call, OpenCollection, OpenFails, Close, Cancel, noteVars
<1>3. ASSUME NEW c \in Calls, Change(c)
      PROVE  \E d \in Directions, l \in Langs : Written(d, l)
  BY <1>3 DEF Change, Written
<1>4. ASSUME NEW c \in Calls, ChangeRaises(c)
      PROVE  \E d \in Directions, l \in Langs : Written(d, l)
  BY <1>4 DEF ChangeRaises, Written
<1>5. CASE Restart
  BY <1>5 DEF Restart, noteVars
<1>6. CASE OtherCall
  BY <1>6 DEF OtherCall, Written
<1> QED BY <1>1, <1>2, <1>3, <1>4, <1>5, <1>6 DEF Next

LEMMA CallSteps ==
    ASSUME CallsTyped, CallsAnswered, [Next]_vars
    PROVE  CallsTyped' /\ CallsAnswered'
<1>1. CASE UNCHANGED vars
  BY <1>1, OtherCalls DEF vars
<1>2. CASE OtherCall
  BY <1>2, OtherCalls DEF OtherCall
<1> HIDE DEF CallsTyped, CallsAnswered
<1> QED BY <1>1, <1>2, CallCalls, OpenCalls, FailCalls, ChangeCalls, RaiseCalls, CloseCalls,
           CancelCalls, RestartCalls DEF Next

(* The invariant holds of every state of every behaviour: it is what the   *)
(* properties below need of the notetype and of the calls.                 *)
THEOREM LocalInvariance == Spec => []LocalInv
<1> HIDE DEF CallsTyped, CallsAnswered
<1>1. Init => LocalInv
  BY InitCalls, InitNoteInv, LocalParts DEF Init
<1>2. LocalInv /\ [Next]_vars => LocalInv'
  <2> SUFFICES ASSUME LocalInv, [Next]_vars PROVE LocalInv'
    OBVIOUS
  <2>1. NoteInv'
    BY NoteSteps, WrittenKeeps, StillNotes, LocalParts
  <2>2. CallsTyped' /\ CallsAnswered'
    BY CallSteps, LocalParts
  <2> QED BY <2>1, <2>2, LocalPartsNext
<1> QED BY <1>1, <1>2, PTL DEF Spec

(* However many writes, of any direction and language, the notetype's      *)
(* schema changes at most twice (_ensure_notetype, _migrate_notetype).     *)
THEOREM SchemaChangesTwice == Spec => []SchemaSettles
<1>1. LocalInv => SchemaSettles
  BY DEF LocalInv, NoteInv, SchemaSettles
<1> QED BY <1>1, LocalInvariance, PTL

(* Every card a write makes of its own note and a template the user asked  *)
(* for lies in the deck of its entry's language (_sync_templates pins it   *)
(* on every write); at most one write ever puts cards of older notes into  *)
(* another language's deck (_add_template).                                *)
THEOREM CardsArrive == Spec => []CardsInOwnDeck
<1>1. LocalInv => CardsInOwnDeck
  BY DEF LocalInv, NoteInv
<1> QED BY <1>1, LocalInvariance, PTL

(* No write drops, moves or doubles a template, whichever release made the *)
(* collection (_migrate_notetype: removing one would delete its cards).    *)
THEOREM TemplatesSurvive == Spec => TemplatesKept
<1> DEFINE kept == /\ \A i \in DOMAIN model.tmpls :
                         /\ i \in DOMAIN model'.tmpls
                         /\ model'.tmpls[i].name = Renamed(model.tmpls)[i].name
                   /\ \A i, k \in DOMAIN model'.tmpls :
                         model'.tmpls[i].name = model'.tmpls[k].name => i = k
<1>1. LocalInv /\ [Next]_vars => [kept]_noteVars
  BY NoteSteps, WrittenKeepsTemplates, LocalParts
<1> QED BY <1>1, LocalInvariance, PTL DEF Spec, TemplatesKept

(* Each step of the backend is a step of CardStore, or changes nothing of  *)
(* it: a call gets one answer, and what was answered stays.                *)
LEMMA StoreInit == Init => Store!Init
  BY DEF Init, Store!Init

LEMMA StoreStep ==
    ASSUME LocalInv, [Next]_vars
    PROVE  [Store!Serve]_<<answer, notes>>
<1>1. CallsTyped /\ CallsAnswered /\ CallsTyped' /\ CallsAnswered'
  BY LocalParts, CallSteps
<1>2. ASSUME \A c \in Calls :
                /\ answer'[c] \in Store!Follows(answer[c])
                /\ c \in notes' => c \in notes \/ answer[c] # "none"
      PROVE  Store!Serve
  BY <1>1, <1>2 DEF Store!Serve
<1>3. ASSUME NEW a \in {"none", "open", "returned", "raised"}
      PROVE  a \in Store!Follows(a)
  BY DEF Store!Follows
<1>4. CASE UNCHANGED <<answer, notes>>
  BY <1>4
<1>5. ASSUME NEW c \in Calls, Call(c) PROVE Store!Serve
  BY <1>1, <1>2, <1>3, <1>5 DEF Call, Store!Follows
<1>6. ASSUME NEW c \in Calls, NEW result \in {"returned", "raised"}, End(c, result), notes' = notes
      PROVE  Store!Serve
  BY <1>1, <1>2, <1>3, <1>6 DEF End, Store!Follows
<1>7. ASSUME NEW c \in Calls, Change(c) PROVE Store!Serve
  BY <1>1, <1>2, <1>3, <1>7 DEF Change
<1>8. ASSUME NEW c \in Calls, Cancel(c) PROVE Store!Serve
  BY <1>1, <1>2, <1>3, <1>8 DEF Cancel, Store!Follows
<1>9. CASE Restart
  BY <1>1, <1>2, <1>3, <1>9 DEF Restart, Store!Follows
<1>10. ASSUME NEW c \in Calls, OpenFails(c) PROVE Store!Serve
  BY <1>6, <1>10 DEF OpenFails
<1>11. ASSUME NEW c \in Calls, Close(c) PROVE Store!Serve
  BY <1>6, <1>11 DEF Close
<1>12. ASSUME NEW c \in Calls, OpenCollection(c) \/ ChangeRaises(c)
       PROVE  UNCHANGED <<answer, notes>>
  BY <1>12 DEF OpenCollection, ChangeRaises
<1>13. CASE UNCHANGED vars \/ OtherCall
  BY <1>13 DEF vars, OtherCall
<1> QED BY <1>5, <1>7, <1>8, <1>9, <1>10, <1>11, <1>12, <1>13 DEF Next

(* The file-based backend implements CardStore: without any lock, a call   *)
(* that returned has its note in the collection for good.                  *)
THEOREM LocalAnkiIsAStore == Spec => LocalStoreSpec
<1>1. Init => Store!Init
  BY StoreInit
<1>2. LocalInv /\ [Next]_vars => [Store!Serve]_<<answer, notes>>
  BY StoreStep
<1> QED BY <1>1, <1>2, LocalInvariance, PTL DEF Spec, LocalStoreSpec, Store!Spec
=============================================================================
