--------------------------- MODULE SubsStore_proofs ---------------------------
(****************************************************************************)
(* Proofs about the store of subscriptions: whatever is refreshed, removed, *)
(* imported or reloaded, in any order and at any number of cards, the       *)
(* choice follows its location, and a reload shows what was shown before.   *)
(****************************************************************************)
EXTENDS SubsStoreProps, Lists_proofs

-----------------------------------------------------------------------------
(* The shapes of the state.                                                 *)

Sources == DOMAIN Provider \cup DOMAIN Pasted
Intervals == {"none", "hours", "zero"}
CardType == [id : Nat, url : Sources, json : BOOLEAN, every : Intervals,
             servers : Seq(Locations), due : BOOLEAN]
CallType == [kind : {"import", "refresh", "json"}, card : Nat, source : Sources,
             auto : BOOLEAN, rest : Seq(Nat)]
SelType == [at : Nat, key : STRING \cup {""}, sub : Nat, label : STRING \cup {""},
            lost : BOOLEAN]
RowType == [key : STRING \ {""}, label : STRING, sub : Nat, at : Nat \ {0}]
BodyType == [servers : Seq(Locations), every : Intervals, json : BOOLEAN]

\* No two cards have the same id.
Tidy(list) ==
    /\ list \in Seq(CardType)
    /\ \A i, j \in DOMAIN list : list[i].id = list[j].id => i = j

RowAt(card, j) ==
    [key |-> card.servers[j].key, label |-> card.servers[j].label, sub |-> card.id, at |-> j]

-----------------------------------------------------------------------------
(* Rows.                                                                    *)

LEMMA RowShape ==
    ASSUME NEW list, NEW r
    PROVE  r \in Rows(list) <=>
             \E i \in DOMAIN list : \E j \in DOMAIN list[i].servers : r = RowAt(list[i], j)
<1>1. r \in Rows(list) <=> \E i \in DOMAIN list : r \in RowsOf(list[i])
  BY DEF Rows, ToSet
<1> QED
  BY <1>1 DEF RowsOf, RowAt

LEMMA RowIsTyped ==
    ASSUME NEW list \in Seq(CardType), NEW r \in Rows(list)
    PROVE  r \in RowType /\ r.sub \in CardIds(list)
<1>1. PICK i \in DOMAIN list : \E j \in DOMAIN list[i].servers : r = RowAt(list[i], j)
  BY RowShape
<1>2. PICK j \in DOMAIN list[i].servers : r = RowAt(list[i], j)
  BY <1>1
<1>3. list[i] \in CardType
  BY ElementOfSeq, LenProperties
<1>4. list[i].servers \in Seq(Locations) /\ list[i].id \in Nat
  BY <1>3 DEF CardType
<1>5. list[i].servers[j] \in Locations /\ j \in Nat \ {0}
  BY <1>4, ElementOfSeq, LenProperties
<1>6. list[i].id \in CardIds(list)
  BY DEF CardIds, ToSet
<1> QED
  BY <1>2, <1>4, <1>5, <1>6 DEF RowAt, RowType, Locations

\* A card and a place in it are one row.
LEMMA RowIsOne ==
    ASSUME NEW list, Tidy(list), NEW r \in Rows(list), NEW o \in Rows(list),
           r.sub = o.sub, r.at = o.at
    PROVE  r = o
<1>1. PICK i \in DOMAIN list : \E j \in DOMAIN list[i].servers : r = RowAt(list[i], j)
  BY RowShape
<1>2. PICK j \in DOMAIN list[i].servers : r = RowAt(list[i], j)
  BY <1>1
<1>3. PICK k \in DOMAIN list : \E l \in DOMAIN list[k].servers : o = RowAt(list[k], l)
  BY RowShape
<1>4. PICK l \in DOMAIN list[k].servers : o = RowAt(list[k], l)
  BY <1>3
<1>5. list[i].id = list[k].id /\ j = l
  BY <1>2, <1>4 DEF RowAt
<1>6. i = k
  BY <1>5 DEF Tidy
<1> QED
  BY <1>2, <1>4, <1>5, <1>6

LEMMA CardIsFound ==
    ASSUME NEW id \in CardIds(cards), cards \in Seq(CardType)
    PROVE  Card(id) \in CardType /\ Card(id).id = id /\ Card(id) \in ToSet(cards)
<1>1. \E c \in ToSet(cards) : c.id = id
  BY DEF CardIds
<1>2. Card(id) \in ToSet(cards) /\ Card(id).id = id
  BY <1>1 DEF Card
<1>3. \A c \in ToSet(cards) : c \in CardType
  BY ElementOfSeq, LenProperties DEF ToSet
<1> QED
  BY <1>2, <1>3
\* Some rows have a first.
LEMMA TopIsOne ==
    ASSUME NEW list \in Seq(CardType), NEW rows \in SUBSET Rows(list), rows # {}
    PROVE  Top(list, rows) \in rows
<1> DEFINE I == {i \in DOMAIN list : \E r \in rows : r.sub = list[i].id}
<1>1. ASSUME NEW r \in rows PROVE \E i \in I : r.sub = list[i].id
  <2>1. r \in Rows(list)
    OBVIOUS
  <2>2. PICK i \in DOMAIN list : \E j \in DOMAIN list[i].servers : r = RowAt(list[i], j)
    BY <2>1, RowShape
  <2>3. r.sub = list[i].id
    BY <2>2 DEF RowAt
  <2> QED
    BY <2>3
<1>2. I \in SUBSET Nat /\ I # {}
  <2>1. DOMAIN list = 1..Len(list) /\ Len(list) \in Nat
    BY LenProperties
  <2>2. I # {}
    BY <1>1
  <2> QED
    BY <2>1, <2>2
<1>3. PICK i \in I : \A k \in I : i <= k
  BY <1>2, Minimum
<1> DEFINE A == {r.at : r \in {o \in rows : o.sub = list[i].id}}
<1>4. A \in SUBSET Nat /\ A # {}
  <2>1. \A r \in rows : r.at \in Nat
    BY RowIsTyped DEF RowType
  <2>2. \E r \in rows : r.sub = list[i].id
    BY <1>3
  <2> QED
    BY <2>1, <2>2
<1>5. PICK a \in A : \A b \in A : a <= b
  BY <1>4, Minimum
<1>6. PICK row \in rows : row.sub = list[i].id /\ row.at = a
  BY <1>5
<1>7. ASSUME NEW other \in rows PROVE Above(list, row, other)
  <2>1. PICK k \in I : other.sub = list[k].id
    BY <1>1
  <2>2. i <= k /\ i \in Nat /\ k \in Nat
    BY <1>2, <1>3
  <2>3. CASE i = k
    <3>1. other.at \in A
      BY <2>1, <2>3
    <3>2. row.at <= other.at /\ row.sub = other.sub
      BY <1>5, <1>6, <2>1, <2>3, <3>1
    <3> QED
      BY <3>2 DEF Above
  <2>4. CASE i # k
    <3>1. i < k /\ i \in DOMAIN list /\ k \in DOMAIN list
      BY <2>2, <2>4
    <3> HIDE DEF I
    <3> QED
      BY <1>6, <2>1, <3>1 DEF Above
  <2> QED
    BY <2>3, <2>4
<1> QED
  BY <1>6, <1>7 DEF Top

-----------------------------------------------------------------------------
(* What a choice is resolved to.                                            *)

RowsAt(list, s) == {r \in Rows(list) : r.sub = s.sub /\ r.at = s.at}

LEMMA PoolIsShown ==
    ASSUME NEW list, NEW s
    PROVE  /\ Pool(list, s) \subseteq Rows(list)
           /\ RowsAt(list, s) \subseteq Pool(list, s)
BY DEF Pool, RowsAt

\* No location, a row that the choice fits or stands on, or the choice as it was.
Found(list, s, after) ==
    \E row \in Pool(list, s) :
        /\ after = Chosen(row)
        /\ row \in RowsAt(list, s) \/ (RowsAt(list, s) = {} /\ Fits(row, s))
Adopted(list, s, after) ==
    \E row \in Rows(list) : after = Chosen(row) /\ NeverChose(s) /\ RowsAt(list, s) = {}
Missed(list, s, after) ==
    /\ after = [s EXCEPT !.at = 0, !.lost = TRUE]
    /\ ~NeverChose(s)
    /\ RowsAt(list, s) = {}
    /\ \A row \in Pool(list, s) : ~Fits(row, s)

LEMMA ResolveCases ==
    ASSUME NEW list \in Seq(CardType), NEW s \in SelType
    PROVE  LET after == ResolveSelection(list, s) IN
             \/ Rows(list) = {} /\ after = Nothing
             \/ Rows(list) # {} /\ (Found(list, s, after) \/ Adopted(list, s, after)
                                    \/ Missed(list, s, after))
<1> DEFINE after == ResolveSelection(list, s)
           pool == Pool(list, s)
           byId    == {r \in pool : r.sub = s.sub /\ r.at = s.at}
           byKey   == {r \in pool : r.key = s.key}
           byBoth  == {r \in byKey : s.label # "" /\ r.label = s.label}
           byLabel == {r \in pool : s.label # "" /\ r.label = s.label}
<1>1. after = IF Rows(list) = {} THEN Nothing
              ELSE IF byId # {} THEN Chosen(Top(list, byId))
              ELSE IF byBoth # {} THEN Chosen(Top(list, byBoth))
              ELSE IF byKey # {} THEN Chosen(Top(list, byKey))
              ELSE IF byLabel # {} THEN Chosen(Top(list, byLabel))
              ELSE IF NeverChose(s) THEN Chosen(Top(list, Rows(list)))
              ELSE [s EXCEPT !.at = 0, !.lost = TRUE]
  BY DEF ResolveSelection, Resolve
<1>2. pool \subseteq Rows(list) /\ RowsAt(list, s) \subseteq pool
  BY PoolIsShown
<1>3. byId = RowsAt(list, s)
  BY <1>2 DEF RowsAt
<1> HIDE DEF after, pool
<1>4. CASE Rows(list) = {}
  BY <1>1, <1>4 DEF after
<1>5. CASE Rows(list) # {} /\ byId # {}
  <2>1. Top(list, byId) \in byId
    BY <1>2, <1>5, TopIsOne
  <2>2. after = Chosen(Top(list, byId)) /\ Top(list, byId) \in pool
    BY <1>1, <1>5, <2>1
  <2> QED
    BY <1>3, <1>5, <2>1, <2>2 DEF Found, pool, after
<1>6. CASE Rows(list) # {} /\ byId = {} /\ byBoth # {}
  <2>1. Top(list, byBoth) \in byBoth
    BY <1>2, <1>6, TopIsOne
  <2>2. after = Chosen(Top(list, byBoth)) /\ Top(list, byBoth) \in pool
    BY <1>1, <1>6, <2>1
  <2> QED
    BY <1>3, <1>6, <2>1, <2>2 DEF Found, Fits, pool, after
<1>7. CASE Rows(list) # {} /\ byId = {} /\ byBoth = {} /\ byKey # {}
  <2>1. Top(list, byKey) \in byKey
    BY <1>2, <1>7, TopIsOne
  <2>2. after = Chosen(Top(list, byKey)) /\ Top(list, byKey) \in pool
    BY <1>1, <1>7, <2>1
  <2> QED
    BY <1>3, <1>7, <2>1, <2>2 DEF Found, Fits, pool, after
<1>8. CASE Rows(list) # {} /\ byId = {} /\ byBoth = {} /\ byKey = {} /\ byLabel # {}
  <2>1. Top(list, byLabel) \in byLabel
    BY <1>2, <1>8, TopIsOne
  <2>2. after = Chosen(Top(list, byLabel)) /\ Top(list, byLabel) \in pool
    BY <1>1, <1>8, <2>1
  <2> QED
    BY <1>3, <1>8, <2>1, <2>2 DEF Found, Fits, pool, after
<1>9. CASE Rows(list) # {} /\ byId = {} /\ byKey = {} /\ byLabel = {}
  <2>1. byBoth = {}
    BY <1>9
  <2>2. CASE NeverChose(s)
    <3>1. Top(list, Rows(list)) \in Rows(list)
      BY <1>9, TopIsOne
    <3> QED
      BY <1>1, <1>3, <1>9, <2>1, <2>2, <3>1 DEF Adopted, after
  <2>3. CASE ~NeverChose(s)
    <3>1. \A row \in pool : ~Fits(row, s)
      BY <1>9 DEF Fits
    <3>2. after = [s EXCEPT !.at = 0, !.lost = TRUE]
      BY <1>1, <1>9, <2>1, <2>3
    <3> QED
      BY <1>3, <1>9, <2>3, <3>1, <3>2 DEF Missed, pool, after
  <2> QED
    BY <2>2, <2>3
<1> QED
  BY <1>4, <1>5, <1>6, <1>7, <1>8, <1>9 DEF after

-----------------------------------------------------------------------------
(* A choice that is settled: nothing to choose, waiting, or on a row.        *)

Waits(s) == s.lost /\ s.at = 0 /\ ~NeverChose(s)
Stands(list, s) == ~s.lost /\ \E r \in RowsAt(list, s) : r.key = s.key
SelOK(list, s) ==
    /\ s \in SelType
    /\ \/ s = Nothing /\ Rows(list) = {}
       \/ Waits(s)
       \/ Stands(list, s)

\* What is looked for is what was chosen, and where it stands is its endpoint.
SameChoice(held, s) ==
    /\ held \in SelType
    /\ held.key = s.key /\ held.sub = s.sub /\ held.label = s.label
    /\ NeverChose(held) => NeverChose(s)
    /\ held.at # 0 => held.key # ""
Keeps(list, held) == \A r \in RowsAt(list, held) : r.key = held.key

LEMMA Places ==
    ASSUME NEW list \in Seq(CardType), NEW s, NEW r \in RowsAt(list, s)
    PROVE  /\ r \in Rows(list) /\ r \in RowType /\ r.sub = s.sub /\ r.at = s.at
           /\ s.at # 0 /\ r.key # ""
<1>1. r \in Rows(list) /\ r.sub = s.sub /\ r.at = s.at
  BY DEF RowsAt
<1>2. r \in RowType
  BY <1>1, RowIsTyped
<1> QED
  BY <1>1, <1>2 DEF RowType

LEMMA NothingIsTyped == Nothing \in SelType /\ Nothing.at = 0 /\ NeverChose(Nothing)
BY DEF Nothing, SelType, NeverChose

\* Nothing is chosen only where there is nothing to choose.
LEMMA NothingToFind ==
    ASSUME NEW list \in Seq(CardType), NEW s, SelOK(list, s), NeverChose(s)
    PROVE  s = Nothing /\ Rows(list) = {}
<1>1. ~Waits(s)
  BY DEF Waits
<1>2. ASSUME Stands(list, s) PROVE FALSE
  <2>1. PICK r \in RowsAt(list, s) : r.key = s.key
    BY <1>2 DEF Stands
  <2>2. s.at # 0
    BY Places
  <2> QED
    BY <2>2 DEF NeverChose
<1> QED
  BY <1>1, <1>2 DEF SelOK

LEMMA ChosenIsSettled ==
    ASSUME NEW list \in Seq(CardType), NEW row \in Rows(list)
    PROVE  /\ Chosen(row) \in SelType /\ ~Chosen(row).lost /\ Chosen(row).at # 0
           /\ Chosen(row).sub = row.sub /\ Chosen(row).at = row.at
           /\ Stands(list, Chosen(row)) /\ SelOK(list, Chosen(row))
<1>1. row \in RowType
  BY RowIsTyped
<1>2. Chosen(row) \in SelType
  BY <1>1 DEF Chosen, RowType, SelType
<1>3. /\ ~Chosen(row).lost /\ Chosen(row).at # 0 /\ Chosen(row).key = row.key
      /\ Chosen(row).sub = row.sub /\ Chosen(row).at = row.at
  BY <1>1 DEF Chosen, RowType
<1>4. row \in RowsAt(list, Chosen(row))
  BY <1>3 DEF RowsAt
<1>5. Stands(list, Chosen(row))
  BY <1>3, <1>4 DEF Stands
<1> QED
  BY <1>2, <1>3, <1>5 DEF SelOK

\* The lost choice, field by field.
LEMMA LostFields ==
    ASSUME NEW s \in SelType, NEW after, after = [s EXCEPT !.at = 0, !.lost = TRUE]
    PROVE  /\ after \in SelType /\ after.lost /\ after.at = 0
           /\ after.key = s.key /\ after.sub = s.sub /\ after.label = s.label
BY DEF SelType

\* A choice is its fields.
LEMMA SelEqual ==
    ASSUME NEW s \in SelType, NEW o \in SelType,
           s.key = o.key, s.sub = o.sub, s.label = o.label, s.at = o.at
    PROVE  [s EXCEPT !.lost = FALSE] = [o EXCEPT !.lost = FALSE]
BY DEF SelType

LEMMA Resettled ==
    ASSUME NEW list \in Seq(CardType), NEW held, sel \in SelType,
           SameChoice(held, sel), Keeps(list, held)
    PROVE  /\ SelOK(list, ResolveSelection(list, held))
           /\ Follows(sel, ResolveSelection(list, held), list)
<1> DEFINE after == ResolveSelection(list, held)
<1>1. /\ held \in SelType
      /\ held.key = sel.key /\ held.sub = sel.sub /\ held.label = sel.label
      /\ NeverChose(held) => NeverChose(sel)
      /\ held.at # 0 => held.key # ""
  BY DEF SameChoice
<1>2. Pool(list, held) = Pool(list, sel)
  BY <1>1 DEF Pool
<1>3. Pool(list, sel) \subseteq Rows(list)
  BY PoolIsShown
<1>4. \/ Rows(list) = {} /\ after = Nothing
      \/ Found(list, held, after) \/ Adopted(list, held, after) \/ Missed(list, held, after)
  BY <1>1, ResolveCases
<1> HIDE DEF after
<1>5. CASE Rows(list) = {} /\ after = Nothing
  BY <1>5, NothingIsTyped DEF SelOK, Follows, after
<1>6. CASE Found(list, held, after)
  <2>1. PICK row \in Pool(list, sel) :
          after = Chosen(row) /\ (row \in RowsAt(list, held) \/ Fits(row, held))
    BY <1>2, <1>6 DEF Found
  <2>2. Fits(row, sel)
    BY <1>1, <2>1 DEF Keeps, Fits
  <2>3. row \in Rows(list)
    BY <1>3
  <2>4. SelOK(list, after) /\ ~after.lost /\ after.sub = row.sub /\ after.at = row.at
    BY <2>1, <2>3, ChosenIsSettled
  <2>5. Follows(sel, after, list)
    BY <2>1, <2>2, <2>4 DEF Follows
  <2> QED
    BY <2>4, <2>5 DEF after
<1>7. CASE Adopted(list, held, after)
  <2>1. PICK row \in Rows(list) : after = Chosen(row) /\ NeverChose(held)
    BY <1>7 DEF Adopted
  <2>2. SelOK(list, after)
    BY <2>1, ChosenIsSettled
  <2>3. Follows(sel, after, list)
    BY <1>1, <2>1 DEF Follows
  <2> QED
    BY <2>2, <2>3 DEF after
<1>8. CASE Missed(list, held, after)
  <2>1. /\ after = [held EXCEPT !.at = 0, !.lost = TRUE]
        /\ ~NeverChose(held)
        /\ \A row \in Pool(list, sel) : ~Fits(row, sel)
    BY <1>1, <1>2, <1>8 DEF Missed, Fits
  <2>2. /\ after \in SelType /\ after.lost /\ after.at = 0
        /\ after.key = held.key /\ after.sub = held.sub /\ after.label = held.label
    BY <1>1, <2>1, LostFields
  <2>3. Waits(after)
    BY <1>1, <2>1, <2>2 DEF Waits, NeverChose
  <2>4. IdentityOf(after) = IdentityOf(sel)
    BY <1>1, <2>2 DEF IdentityOf
  <2>5. SelOK(list, after)
    BY <2>2, <2>3 DEF SelOK
  <2>6. Follows(sel, after, list)
    BY <2>1, <2>2, <2>4 DEF Follows
  <2> QED
    BY <2>5, <2>6 DEF after
<1> QED
  BY <1>4, <1>5, <1>6, <1>7, <1>8

\* A step that changes no row leaves the choice where it was.
LEMMA Unmoved ==
    ASSUME SelOK(cards, sel), cards \in Seq(CardType), NEW list, Rows(list) = Rows(cards)
    PROVE  SelOK(list, sel) /\ Follows(sel, sel, list)
<1>1. RowsAt(list, sel) = RowsAt(cards, sel)
  BY DEF RowsAt
<1>2. SelOK(list, sel)
  BY <1>1 DEF SelOK, Stands
<1>3. CASE sel = Nothing
  BY <1>2, <1>3, NothingIsTyped DEF Follows
<1>4. CASE Waits(sel)
  <2>1. Pool(list, sel) \subseteq Rows(cards)
    BY PoolIsShown
  <2> QED
    BY <1>2, <1>4, <2>1 DEF Follows, Waits
<1>5. CASE Stands(cards, sel)
  <2>1. PICK row \in RowsAt(list, sel) : row.key = sel.key
    BY <1>1, <1>5 DEF Stands
  <2>2. row \in Pool(list, sel) /\ row \in Rows(cards) /\ sel.sub = row.sub /\ sel.at = row.at
    BY <2>1, PoolIsShown DEF RowsAt
  <2> QED
    BY <1>2, <1>5, <2>2 DEF Follows, Stands
<1> QED
  BY <1>2, <1>3, <1>4, <1>5 DEF SelOK

-----------------------------------------------------------------------------
(* Lists whose cards were changed one by one.                               *)

LEMMA CardsAreTyped ==
    ASSUME NEW list, Tidy(list)
    PROVE  /\ list \in Seq(CardType) /\ Len(list) \in Nat /\ DOMAIN list = 1..Len(list)
           /\ \A i \in DOMAIN list : list[i] \in CardType
BY ElementOfSeq, LenProperties DEF Tidy

LEMMA FunctionIsSeq ==
    ASSUME NEW n \in Nat, NEW S, NEW f \in [1..n -> S]
    PROVE  f \in Seq(S)
BY SeqDef

LEMMA Revised ==
    ASSUME NEW list, Tidy(list), NEW new \in [DOMAIN list -> CardType],
           \A i \in DOMAIN list : new[i].id = list[i].id
    PROVE  /\ Tidy(new) /\ CardIds(new) = CardIds(list)
           /\ (\A i \in DOMAIN list : new[i].servers = list[i].servers) => Rows(new) = Rows(list)
           /\ \A id : (\A i \in DOMAIN list : list[i].id # id => new[i].servers = list[i].servers)
                      => \A r \in Rows(new) : r.sub # id => r \in Rows(list)
<1>1. /\ Len(list) \in Nat /\ DOMAIN list = 1..Len(list)
  BY CardsAreTyped
<1>2. new \in Seq(CardType) /\ DOMAIN new = DOMAIN list
  BY <1>1, FunctionIsSeq
<1>3. Tidy(new)
  BY <1>2 DEF Tidy
<1>4. CardIds(new) = CardIds(list)
  BY <1>2 DEF CardIds, ToSet
<1>5. ASSUME NEW i \in DOMAIN list, new[i].servers = list[i].servers, NEW j
      PROVE  RowAt(new[i], j) = RowAt(list[i], j)
  BY <1>5 DEF RowAt
<1>6. ASSUME \A i \in DOMAIN list : new[i].servers = list[i].servers
      PROVE  Rows(new) = Rows(list)
  <2>1. ASSUME NEW r PROVE r \in Rows(new) <=> r \in Rows(list)
    BY <1>2, <1>5, <1>6, RowShape
  <2> QED
    BY <2>1
<1>7. ASSUME NEW id, \A i \in DOMAIN list : list[i].id # id => new[i].servers = list[i].servers,
             NEW r \in Rows(new), r.sub # id
      PROVE  r \in Rows(list)
  <2>1. PICK i \in DOMAIN new : \E j \in DOMAIN new[i].servers : r = RowAt(new[i], j)
    BY RowShape
  <2>2. PICK j \in DOMAIN new[i].servers : r = RowAt(new[i], j)
    BY <2>1
  <2>3. r.sub = list[i].id
    BY <1>2, <2>2 DEF RowAt
  <2>4. new[i].servers = list[i].servers /\ i \in DOMAIN list
    BY <1>2, <1>7, <2>3
  <2>5. r = RowAt(list[i], j) /\ j \in DOMAIN list[i].servers
    BY <1>5, <2>2, <2>4
  <2> QED
    BY <2>4, <2>5, RowShape
<1> QED
  BY <1>3, <1>4, <1>6, <1>7

\* What is written has the rows and the cards of what is shown.
LEMMA WrittenIsShown ==
    ASSUME NEW list, Tidy(list)
    PROVE  Tidy(Written(list)) /\ Rows(Written(list)) = Rows(list)
<1> DEFINE new == Written(list)
<1>1. \A i \in DOMAIN list : list[i] \in CardType
  BY CardsAreTyped
<1>2. ASSUME NEW c \in CardType
      PROVE  /\ [c EXCEPT !.due = FALSE] \in CardType
             /\ [c EXCEPT !.due = FALSE].id = c.id
             /\ [c EXCEPT !.due = FALSE].servers = c.servers
  BY DEF CardType
<1>3. new = [i \in DOMAIN list |-> [list[i] EXCEPT !.due = FALSE]]
  BY DEF Written
<1>4. /\ new \in [DOMAIN list -> CardType]
      /\ \A i \in DOMAIN list : new[i].id = list[i].id /\ new[i].servers = list[i].servers
  BY <1>1, <1>2, <1>3
<1> HIDE DEF new
<1>5. Tidy(new) /\ Rows(new) = Rows(list)
  BY <1>4, Revised
<1> QED
  BY <1>5 DEF new

-----------------------------------------------------------------------------
(* What is stored agrees with what is shown, as far as the choice goes.      *)

DiskOK(list, s, d) ==
    /\ Tidy(d.cards)
    /\ d.sel = [s EXCEPT !.lost = FALSE]
    /\ s = Nothing => Rows(d.cards) = {}
    /\ ~s.lost => RowsAt(list, s) \subseteq Rows(d.cards)

LEMMA Stored ==
    ASSUME NEW list, Tidy(list), NEW s, SelOK(list, s)
    PROVE  DiskOK(list, s, Saved(list, s))
<1>1. Tidy(Written(list)) /\ Rows(Written(list)) = Rows(list)
  BY WrittenIsShown
<1>2. s = Nothing => Rows(list) = {}
  BY NothingToFind, NothingIsTyped DEF Tidy
<1>3. RowsAt(list, s) \subseteq Rows(list)
  BY DEF RowsAt
<1> QED
  BY <1>1, <1>2, <1>3 DEF DiskOK, Saved

\* The row where the choice stands has the endpoint that was chosen.
LEMMA KeyIsChosen ==
    ASSUME Tidy(cards), SelOK(cards, sel), NEW r \in RowsAt(cards, sel)
    PROVE  r.key = sel.key
<1>1. sel.at # 0 /\ r \in Rows(cards) /\ r.sub = sel.sub /\ r.at = sel.at
  BY Places DEF Tidy
<1>2. Stands(cards, sel)
  BY <1>1, NothingIsTyped DEF SelOK, Waits
<1>3. PICK o \in RowsAt(cards, sel) : o.key = sel.key
  BY <1>2 DEF Stands
<1>4. o \in Rows(cards) /\ o.sub = sel.sub /\ o.at = sel.at
  BY <1>3 DEF RowsAt
<1>5. o = r
  BY <1>1, <1>4, RowIsOne
<1> QED
  BY <1>3, <1>5

\* A choice that stands somewhere has an endpoint; one without an id is the same.
LEMMA ChoiceIsSame ==
    ASSUME cards \in Seq(CardType), SelOK(cards, sel)
    PROVE  /\ sel.at # 0 => sel.key # ""
           /\ SameChoice(sel, sel)
           /\ SameChoice([sel EXCEPT !.at = 0], sel)
<1>1. sel \in SelType
  BY DEF SelOK
<1>2. /\ sel.at # 0 => sel.key # ""
      /\ NeverChose([sel EXCEPT !.at = 0]) => NeverChose(sel)
  <2>1. CASE sel = Nothing \/ Waits(sel)
    BY <1>1, <2>1, NothingIsTyped DEF Waits, NeverChose, SelType, Nothing
  <2>2. CASE Stands(cards, sel)
    <3>1. PICK r \in RowsAt(cards, sel) : r.key = sel.key
      BY <2>2 DEF Stands
    <3>2. sel.key # ""
      BY <3>1, Places
    <3> QED
      BY <1>1, <3>2 DEF NeverChose, SelType
  <2> QED
    BY <2>1, <2>2 DEF SelOK
<1>3. SameChoice(sel, sel)
  BY <1>1, <1>2 DEF SameChoice
<1>4. SameChoice([sel EXCEPT !.at = 0], sel)
  <2> DEFINE held == [sel EXCEPT !.at = 0]
  <2>1. /\ held \in SelType /\ held.at = 0
        /\ held.key = sel.key /\ held.sub = sel.sub /\ held.label = sel.label
    BY <1>1 DEF SelType
  <2> QED
    BY <1>2, <2>1 DEF SameChoice
<1> QED
  BY <1>2, <1>3, <1>4

\* The list is replaced and the choice found again, which is not always written.
LEMMA Reconciled ==
    ASSUME Tidy(cards), SelOK(cards, sel), DiskOK(cards, sel, disk),
           NEW list, Tidy(list), NEW held, Reconcile(list, held),
           \/ held = sel /\ RowsAt(list, sel) \subseteq Rows(cards)
           \/ held = [sel EXCEPT !.at = 0]
    PROVE  /\ cards' = list
           /\ SelOK(list, sel') /\ DiskOK(list, sel', disk') /\ Follows(sel, sel', list)
<1>1. /\ cards' = list /\ sel' = ResolveSelection(list, held)
      /\ disk' = IF Saves(held, sel') THEN Saved(list, sel') ELSE disk
  BY DEF Reconcile
<1>2. cards \in Seq(CardType) /\ list \in Seq(CardType) /\ sel \in SelType
  BY DEF Tidy, SelOK
<1>4. SameChoice(held, sel) /\ (held.at = sel.at \/ held.at = 0)
  <2>1. [sel EXCEPT !.at = 0].at = 0
    BY <1>2 DEF SelType
  <2> QED
    BY <1>2, <2>1, ChoiceIsSame
<1>5. RowsAt(list, held) \subseteq RowsAt(cards, sel)
  <2>1. CASE held = sel /\ RowsAt(list, sel) \subseteq Rows(cards)
    BY <2>1 DEF RowsAt
  <2>2. CASE held = [sel EXCEPT !.at = 0]
    <3>1. held.at = 0
      BY <1>2, <2>2 DEF SelType
    <3>2. RowsAt(list, held) = {}
      BY <1>2, <3>1, Places
    <3> QED
      BY <3>2
  <2> QED
    BY <2>1, <2>2
<1>6. Keeps(list, held)
  <2> SUFFICES ASSUME NEW r \in RowsAt(list, held) PROVE r.key = held.key
    BY DEF Keeps
  <2> QED
    BY <1>4, <1>5, KeyIsChosen DEF SameChoice
<1>7. SelOK(list, sel') /\ Follows(sel, sel', list)
  BY <1>1, <1>2, <1>4, <1>6, Resettled
<1>8. DiskOK(list, sel', disk')
  <2>1. CASE Saves(held, sel')
    BY <1>1, <1>7, <2>1, Stored
  <2>2. CASE ~Saves(held, sel')
    <3>1. /\ disk' = disk /\ ~sel'.lost
          /\ [sel' EXCEPT !.lost = FALSE] = [held EXCEPT !.lost = FALSE]
      BY <1>1, <2>2 DEF Saves
    <3>2. /\ sel' \in SelType /\ held \in SelType
      BY <1>4, <1>7 DEF SelOK, SameChoice
    <3>3. /\ sel'.at = held.at /\ sel'.key = held.key /\ sel'.sub = held.sub
          /\ sel'.label = held.label
      BY <3>1, <3>2 DEF SelType
    <3>4. held.at # sel.at => sel' = Nothing
      <4>1. CASE Stands(list, sel')
        <5>1. sel'.at # 0
          BY <1>2, <4>1, Places DEF Stands
        <5> QED
          BY <1>4, <3>3, <5>1
      <4>2. ~Waits(sel')
        BY <3>1 DEF Waits
      <4> QED
        BY <1>7, <4>1, <4>2 DEF SelOK
    <3>5. sel' = Nothing => sel = Nothing /\ Rows(disk.cards) = {}
      <4> SUFFICES ASSUME sel' = Nothing PROVE sel = Nothing /\ Rows(disk.cards) = {}
        OBVIOUS
      <4>1. NeverChose(held)
        BY <3>3 DEF Nothing, NeverChose
      <4>2. NeverChose(sel)
        BY <1>4, <4>1 DEF SameChoice
      <4>3. sel = Nothing
        BY <1>2, <4>2, NothingToFind
      <4> QED
        BY <4>3 DEF DiskOK
    <3>6. sel'.at = sel.at
      BY <3>3, <3>4, <3>5
    <3>7. disk'.sel = [sel' EXCEPT !.lost = FALSE]
      <4>1. sel'.key = sel.key /\ sel'.sub = sel.sub /\ sel'.label = sel.label
        BY <1>4, <3>3 DEF SameChoice
      <4>2. [sel' EXCEPT !.lost = FALSE] = [sel EXCEPT !.lost = FALSE]
        BY <1>2, <3>2, <3>6, <4>1, SelEqual
      <4> QED
        BY <3>1, <4>2, Zenon DEF DiskOK
    <3>8. RowsAt(list, sel') \subseteq Rows(disk.cards)
      <4>1. RowsAt(list, sel') \subseteq RowsAt(cards, sel)
        BY <1>5, <3>3 DEF RowsAt
      <4>2. CASE sel.lost
        <5>1. sel.at = 0
          BY <1>2, <4>2, NothingIsTyped DEF SelOK, Waits, Stands
        <5> QED
          BY <1>2, <4>1, <5>1, Places
      <4> QED
        BY <4>1, <4>2 DEF DiskOK
    <3> QED
      BY <3>1, <3>5, <3>7, <3>8, Zenon DEF DiskOK
  <2> QED
    BY <2>1, <2>2
<1> QED
  BY <1>1, <1>7, <1>8

-----------------------------------------------------------------------------
(* The id of a new card.                                                    *)

CallsOK == calls \in [Slots -> CallType \cup {Free}]

LEMMA SlotsAreFinite == IsFiniteSet(Slots)
<1>1. PICK n \in Nat : n = MaxCalls
  BY BoundsAssumption
<1>2. IsFiniteSet(1..n)
  BY FS_Interval
<1> QED
  BY <1>1, <1>2 DEF Slots

LEMMA ImageIsFinite ==
    ASSUME NEW f, IsFiniteSet(DOMAIN f)
    PROVE  IsFiniteSet({f[x] : x \in DOMAIN f})
<1> DEFINE T == {f[x] : x \in DOMAIN f}
           g == [x \in DOMAIN f |-> f[x]]
<1>1. g \in Surjection(DOMAIN f, T)
  BY DEF Surjection
<1> HIDE DEF T, g
<1>2. IsFiniteSet(T)
  BY <1>1, FS_Surjection
<1> QED
  BY <1>2 DEF T

LEMMA ListIsFinite ==
    ASSUME NEW S, NEW list \in Seq(S)
    PROVE  IsFiniteSet(ToSet(list))
<1>1. PICK n \in Nat : n = Len(list)
  BY LenProperties
<1>2. DOMAIN list = 1..n
  BY <1>1, LenProperties
<1>3. IsFiniteSet(1..n)
  BY FS_Interval
<1>4. IsFiniteSet({list[i] : i \in DOMAIN list})
  BY <1>2, <1>3, ImageIsFinite
<1> QED
  BY <1>4 DEF ToSet

LEMMA IdsAreFinite ==
    ASSUME NEW list \in Seq(CardType)
    PROVE  IsFiniteSet(CardIds(list))
<1>1. IsFiniteSet(ToSet(list))
  BY ListIsFinite
<1> DEFINE f == [c \in ToSet(list) |-> c.id]
<1>2. DOMAIN f = ToSet(list) /\ \A c \in ToSet(list) : f[c] = c.id
  OBVIOUS
<1> HIDE DEF f
<1>3. IsFiniteSet({f[c] : c \in DOMAIN f})
  BY <1>1, <1>2, ImageIsFinite
<1>4. CardIds(list) = {f[c] : c \in DOMAIN f}
  BY <1>2 DEF CardIds
<1> QED
  BY <1>3, <1>4

LEMMA UsedAreFinite ==
    ASSUME cards \in Seq(CardType), disk.cards \in Seq(CardType), CallsOK
    PROVE  IsFiniteSet(UsedCards)
<1> DEFINE Of(s) == {calls[s].card} \cup ToSet(calls[s].rest)
<1>1. IsFiniteSet(CardIds(cards)) /\ IsFiniteSet(CardIds(disk.cards))
  BY IdsAreFinite
<1>2. IsFiniteSet({sel.sub} \cup {disk.sel.sub})
  BY FS_Singleton, FS_AddElement
<1>3. ASSUME NEW s \in Slots PROVE IsFiniteSet(Of(s))
  <2>1. calls[s] \in CallType \/ calls[s] = Free
    BY DEF CallsOK
  <2>2. calls[s].rest \in Seq(Nat)
    <3>1. <<>> \in Seq(Nat)
      BY EmptySeq
    <3>2. Free.rest = <<>>
      BY DEF Free, Call
    <3>3. \A c \in CallType : c.rest \in Seq(Nat)
      BY DEF CallType
    <3> QED
      BY <2>1, <3>1, <3>2, <3>3
  <2>3. IsFiniteSet(ToSet(calls[s].rest))
    BY <2>2, ListIsFinite
  <2>4. IsFiniteSet(ToSet(calls[s].rest) \cup {calls[s].card})
    BY <2>3, FS_AddElement
  <2>5. Of(s) = ToSet(calls[s].rest) \cup {calls[s].card}
    OBVIOUS
  <2> QED
    BY <2>4, <2>5
<1> HIDE DEF Of
<1> DEFINE f == [s \in Slots |-> Of(s)]
<1>4. IsFiniteSet({Of(s) : s \in Slots})
  <2>1. DOMAIN f = Slots /\ \A s \in Slots : f[s] = Of(s)
    OBVIOUS
  <2> HIDE DEF f
  <2>2. IsFiniteSet({f[s] : s \in DOMAIN f})
    BY <2>1, SlotsAreFinite, ImageIsFinite
  <2>3. {Of(s) : s \in Slots} = {f[s] : s \in DOMAIN f}
    BY <2>1
  <2> QED
    BY <2>2, <2>3
<1>5. IsFiniteSet(UNION {Of(s) : s \in Slots})
  BY <1>3, <1>4, FS_UNION
<1>6. UsedCards = ((CardIds(cards) \cup CardIds(disk.cards)) \cup ({sel.sub} \cup {disk.sel.sub}))
                  \cup UNION {Of(s) : s \in Slots}
  BY DEF UsedCards, Of
<1>7. IsFiniteSet(CardIds(cards) \cup CardIds(disk.cards))
  BY <1>1, FS_Union
<1>8. IsFiniteSet((CardIds(cards) \cup CardIds(disk.cards)) \cup ({sel.sub} \cup {disk.sel.sub}))
  BY <1>2, <1>7, FS_Union
<1>9. IsFiniteSet(((CardIds(cards) \cup CardIds(disk.cards)) \cup ({sel.sub} \cup {disk.sel.sub}))
                  \cup UNION {Of(s) : s \in Slots})
  BY <1>5, <1>8, FS_Union
<1> QED
  BY <1>6, <1>9

\* Among one number more than there are cards, one is new.
LEMMA IdIsNew ==
    ASSUME cards \in Seq(CardType), disk.cards \in Seq(CardType), CallsOK
    PROVE  NewId \in Nat /\ NewId \notin UsedCards
<1>1. IsFiniteSet(UsedCards)
  BY UsedAreFinite
<1>2. PICK n \in Nat : n = Cardinality(UsedCards)
  BY <1>1, FS_CardinalityType
<1> DEFINE S == (1..(n + 1)) \ UsedCards
<1>3. S # {}
  <2> SUFFICES ASSUME 1..(n + 1) \subseteq UsedCards PROVE FALSE
    OBVIOUS
  <2>1. Cardinality(1..(n + 1)) = n + 1
    BY FS_Interval
  <2>2. Cardinality(1..(n + 1)) <= Cardinality(UsedCards)
    BY <1>1, FS_Subset
  <2> QED
    BY <1>2, <2>1, <2>2
<1>4. S \in SUBSET Nat
  OBVIOUS
<1>5. \E m \in S : \A k \in S : m <= k
  BY <1>3, <1>4, Minimum
<1>6. NewId = CHOOSE m \in S : \A k \in S : m <= k
  BY <1>2 DEF NewId, Min
<1>7. NewId \in S
  <2> HIDE DEF S
  <2> QED
    BY <1>5, <1>6
<1> QED
  BY <1>4, <1>7

-----------------------------------------------------------------------------
(* Cards left out, added and merged.                                        *)

LEMMA SelectionIsTidy ==
    ASSUME NEW list, Tidy(list), NEW I \in SUBSET DOMAIN list
    PROVE  /\ Tidy(Selection(list, I))
           /\ Rows(Selection(list, I)) \subseteq Rows(list)
<1> DEFINE new == Selection(list, I)
<1>1. list \in Seq(CardType)
  BY DEF Tidy
<1>2. new \in Seq(CardType)
  BY <1>1, SelectionIsSeq
<1>3. \A n \in DOMAIN new :
          \E i \in I : new[n] = list[i] /\ RankOf(I, i) = n
  BY <1>1, SelectionPlaces
<1> HIDE DEF new
<1>4. ASSUME NEW n \in DOMAIN new, NEW m \in DOMAIN new, new[n].id = new[m].id
      PROVE  n = m
  <2>1. PICK i \in I : new[n] = list[i] /\ RankOf(I, i) = n
    BY <1>3
  <2>2. PICK k \in I : new[m] = list[k] /\ RankOf(I, k) = m
    BY <1>3
  <2>3. i = k
    BY <1>4, <2>1, <2>2 DEF Tidy
  <2> QED
    BY <2>1, <2>2, <2>3
<1>5. ASSUME NEW r \in Rows(new) PROVE r \in Rows(list)
  <2>1. PICK n \in DOMAIN new : \E j \in DOMAIN new[n].servers : r = RowAt(new[n], j)
    BY RowShape
  <2>2. PICK i \in I : new[n] = list[i]
    BY <1>3
  <2> QED
    BY <2>1, <2>2, RowShape
<1>6. Tidy(new)
  BY <1>2, <1>4 DEF Tidy
<1> QED
  BY <1>5, <1>6 DEF new

LEMMA WithoutIsTidy ==
    ASSUME NEW list, Tidy(list), NEW id
    PROVE  /\ Tidy(Without(list, id)) /\ Rows(Without(list, id)) \subseteq Rows(list)
           /\ \A r \in Rows(Without(list, id)) : r.sub # id
<1> DEFINE I == {i \in DOMAIN list : list[i].id # id}
           new == Selection(list, I)
<1>1. I \in SUBSET DOMAIN list /\ list \in Seq(CardType)
  BY DEF Tidy
<1>2. Tidy(new) /\ Rows(new) \subseteq Rows(list)
  BY <1>1, SelectionIsTidy
<1>3. \A c \in ToSet(new) : \E i \in I : c = list[i]
  BY <1>1, SelectionIsSeq
<1>4. \A c \in ToSet(new) : c.id # id
  BY <1>3
<1> HIDE DEF new
<1>5. ASSUME NEW r \in Rows(new) PROVE r.sub # id
  <2>1. PICK i \in DOMAIN new : \E j \in DOMAIN new[i].servers : r = RowAt(new[i], j)
    BY RowShape
  <2> QED
    BY <1>4, <2>1 DEF RowAt, ToSet
<1> QED
  BY <1>2, <1>5 DEF Without, new

LEMMA AppendIsTidy ==
    ASSUME NEW list, Tidy(list), NEW c \in CardType, c.id \notin CardIds(list)
    PROVE  /\ Tidy(Append(list, c))
           /\ \A r \in Rows(Append(list, c)) : r.sub # c.id => r \in Rows(list)
           /\ Rows(list) \subseteq Rows(Append(list, c))
<1> DEFINE new == Append(list, c)
<1>1. list \in Seq(CardType) /\ Len(list) \in Nat /\ DOMAIN list = 1..Len(list)
  BY CardsAreTyped
<1>2. /\ new \in Seq(CardType) /\ DOMAIN new = 1..(Len(list) + 1)
      /\ \A i \in 1..Len(list) : new[i] = list[i]
      /\ new[Len(list) + 1] = c
  BY <1>1, AppendProperties, LenProperties
<1> HIDE DEF new
<1>3. \A i \in DOMAIN new : (i \in DOMAIN list /\ new[i] = list[i])
                            \/ (i = Len(list) + 1 /\ new[i] = c)
  BY <1>1, <1>2
<1>4. \A i \in DOMAIN list : list[i].id # c.id
  BY DEF CardIds, ToSet
<1>5. Tidy(new)
  BY <1>2, <1>3, <1>4 DEF Tidy
<1>6. ASSUME NEW r \in Rows(new), r.sub # c.id PROVE r \in Rows(list)
  <2>1. PICK i \in DOMAIN new : \E j \in DOMAIN new[i].servers : r = RowAt(new[i], j)
    BY RowShape
  <2>2. r.sub = new[i].id
    BY <2>1 DEF RowAt
  <2>3. i \in DOMAIN list /\ new[i] = list[i]
    BY <1>3, <1>6, <2>2
  <2> QED
    BY <2>1, <2>3, RowShape
<1>7. ASSUME NEW r \in Rows(list) PROVE r \in Rows(new)
  <2>1. PICK i \in DOMAIN list : \E j \in DOMAIN list[i].servers : r = RowAt(list[i], j)
    BY RowShape
  <2>2. i \in DOMAIN new /\ new[i] = list[i]
    BY <1>1, <1>2
  <2> QED
    BY <2>1, <2>2, RowShape
<1> QED
  BY <1>5, <1>6, <1>7 DEF new

\* A row of the pasted cards' one card stands where it stood, or is another row.
LEMMA MergeIsTidy ==
    ASSUME NEW list, Tidy(list)
    PROVE  /\ Tidy(MergeManual(list))
           /\ \A r \in Rows(MergeManual(list)), o \in Rows(list) :
                 r.sub = o.sub /\ r.at = o.at => r = o
<1> DEFINE pasted == {i \in DOMAIN list : ~Remote(list[i].url)}
           manual == Selection(list, pasted)
           seqs == [i \in DOMAIN manual |-> manual[i].servers]
           all == \A c \in ToSet(manual) : c.json
           merged == [manual[1] EXCEPT !.servers = FlattenSeq(seqs), !.json = all]
           new == [i \in DOMAIN list |-> IF list[i].id = merged.id THEN merged ELSE list[i]]
           I == {i \in DOMAIN list : i \in pasted => list[i].id = merged.id}
<1>1. MergeManual(list) = IF Len(manual) < 2 THEN list ELSE Selection(new, I)
  BY DEF MergeManual
<1>2. CASE Len(manual) < 2
  BY <1>1, <1>2, RowIsOne
<1>3. CASE ~(Len(manual) < 2)
  <2>1. /\ list \in Seq(CardType) /\ \A i \in DOMAIN list : list[i] \in CardType
    BY CardsAreTyped
  <2>2. manual \in Seq(CardType) /\ \A c \in ToSet(manual) : \E i \in pasted : c = list[i]
    BY <2>1, SelectionIsSeq
  <2> HIDE DEF manual
  <2>3. /\ Len(manual) \in Nat /\ 1 \in DOMAIN manual /\ DOMAIN manual = 1..Len(manual)
        /\ \A i \in DOMAIN manual : manual[i] \in CardType
    BY <1>3, <2>2, LenProperties, ElementOfSeq
  <2>4. PICK k \in DOMAIN list : manual[1] = list[k]
    BY <2>2, <2>3 DEF ToSet
  <2>5. seqs \in Seq(Seq(Locations)) /\ seqs # <<>> /\ seqs[1] = manual[1].servers
    <3>1. \A i \in DOMAIN manual : manual[i].servers \in Seq(Locations)
      BY <2>3 DEF CardType
    <3>2. seqs \in [1..Len(manual) -> Seq(Locations)]
      BY <2>3, <3>1
    <3>3. seqs[1] = manual[1].servers /\ 1 \in DOMAIN seqs
      BY <2>3
    <3> HIDE DEF seqs
    <3>4. seqs \in Seq(Seq(Locations))
      BY <2>3, <3>2, FunctionIsSeq
    <3> QED
      BY <3>3, <3>4
  <2>6. /\ FlattenSeq(seqs) \in Seq(Locations)
        /\ \A j \in DOMAIN manual[1].servers : /\ j \in DOMAIN FlattenSeq(seqs)
                                               /\ FlattenSeq(seqs)[j] = manual[1].servers[j]
    <3> HIDE DEF seqs
    <3> QED
      BY <2>5, Flattened
  <2> DEFINE flat == FlattenSeq(seqs)
  <2>7. all \in BOOLEAN
    OBVIOUS
  <2> HIDE DEF flat, all, seqs
  <2>8. /\ merged \in CardType /\ merged.id = manual[1].id /\ merged.servers = flat
    <3>1. manual[1] \in CardType /\ flat \in Seq(Locations)
      BY <2>3, <2>6 DEF flat
    <3>2. merged = [manual[1] EXCEPT !.servers = flat, !.json = all]
      BY DEF flat
    <3> HIDE DEF merged
    <3> QED
      BY <2>7, <3>1, <3>2 DEF CardType
  <2> HIDE DEF merged
  <2>9. /\ new \in [DOMAIN list -> CardType]
        /\ \A i \in DOMAIN list : new[i].id = list[i].id
        /\ \A i \in DOMAIN list : list[i].id # merged.id => new[i].servers = list[i].servers
    BY <2>1, <2>8
  <2>10. \A i \in DOMAIN list : list[i].id = merged.id => new[i] = merged
    OBVIOUS
  <2>11. DOMAIN new = DOMAIN list /\ I \in SUBSET DOMAIN list
    OBVIOUS
  <2> HIDE DEF new, I
  <2>12. Tidy(new) /\ \A r \in Rows(new) : r.sub # merged.id => r \in Rows(list)
    BY <2>9, Revised
  <2>13. Tidy(Selection(new, I)) /\ Rows(Selection(new, I)) \subseteq Rows(new)
    BY <2>11, <2>12, SelectionIsTidy
  <2>14. ASSUME NEW r \in Rows(new), NEW o \in Rows(list), r.sub = o.sub, r.at = o.at
         PROVE  r = o
    <3>1. CASE r.sub # merged.id
      BY <2>12, <2>14, <3>1, RowIsOne
    <3>2. CASE r.sub = merged.id
      <4>1. PICK n \in DOMAIN new : \E j \in DOMAIN new[n].servers : r = RowAt(new[n], j)
        BY RowShape
      <4>2. PICK j \in DOMAIN new[n].servers : r = RowAt(new[n], j)
        BY <4>1
      <4>3. PICK m \in DOMAIN list : \E l \in DOMAIN list[m].servers : o = RowAt(list[m], l)
        BY RowShape
      <4>4. PICK l \in DOMAIN list[m].servers : o = RowAt(list[m], l)
        BY <4>3
      <4>5. new[n] = merged /\ j = l
        BY <2>9, <2>10, <2>11, <2>14, <3>2, <4>2, <4>4 DEF RowAt
      <4>6. list[m] = manual[1]
        <5>1. list[m].id = list[k].id
          BY <2>4, <2>8, <2>14, <3>2, <4>4 DEF RowAt
        <5> QED
          BY <2>4, <5>1 DEF Tidy
      <4>7. merged.servers[l] = manual[1].servers[l]
        BY <2>6, <2>8, <4>4, <4>6 DEF flat
      <4> QED
        BY <2>8, <4>2, <4>4, <4>5, <4>6, <4>7 DEF RowAt
    <3> QED
      BY <3>1, <3>2
  <2> QED
    BY <1>1, <1>3, <2>13, <2>14
<1> QED
  BY <1>2, <1>3

-----------------------------------------------------------------------------
(* What a fetch may come to.                                                *)

LEMMA LocationsAreParsed ==
    ASSUME NEW lines \in Seq(Lines)
    PROVE  ParseSubscription(lines) \in Seq(Locations)
<1> DEFINE I == {i \in DOMAIN lines : lines[i].is = "location"}
           locations == Selection(lines, I)
           parsed == [i \in DOMAIN locations |->
                         [key |-> locations[i].key, label |-> locations[i].label]]
<1>1. ParseSubscription(lines) = parsed
  BY DEF ParseSubscription
<1>2. I \in SUBSET DOMAIN lines
  OBVIOUS
<1>3. /\ locations \in Seq(Lines)
      /\ \A x \in ToSet(locations) : \E i \in I : x = lines[i]
  BY <1>2, SelectionIsSeq
<1>4. \A x \in ToSet(locations) : x.is = "location"
  BY <1>3
<1> HIDE DEF locations
<1>5. /\ Len(locations) \in Nat /\ DOMAIN locations = 1..Len(locations)
      /\ \A i \in DOMAIN locations : locations[i] \in Lines /\ locations[i].is = "location"
  BY <1>3, <1>4, LenProperties, ElementOfSeq DEF ToSet
<1>6. ASSUME NEW i \in DOMAIN locations
      PROVE  [key |-> locations[i].key, label |-> locations[i].label] \in Locations
  <2>1. locations[i] \in Lines /\ locations[i].is = "location"
    BY <1>5
  <2>2. locations[i] \in [is : {"location"}, key : STRING \ {""}, label : STRING]
    BY <2>1 DEF Lines
  <2> QED
    BY <2>2 DEF Locations
<1>7. parsed \in [1..Len(locations) -> Locations]
  BY <1>5, <1>6
<1> HIDE DEF parsed
<1>8. parsed \in Seq(Locations)
  BY <1>5, <1>7, FunctionIsSeq
<1> QED
  BY <1>1, <1>8

IsBody(b) == b.json \in BOOLEAN /\ b.lines \in Seq(Lines)

LEMMA ResultIsTyped ==
    ASSUME NEW b, IsBody(b)
    PROVE  ImportResult(b) \in BodyType
<1>1. ParseSubscription(b.lines) \in Seq(Locations)
  BY LocationsAreParsed DEF IsBody
<1>2. ParseHeaders(b) \in Intervals
  BY DEF ParseHeaders, Intervals
<1> QED
  BY <1>1, <1>2 DEF ImportResult, BodyType, IsBody

LEMMA BodiesAreBodies ==
    ASSUME NEW b \in Bodies PROVE IsBody(b)
BY DEF Bodies, IsBody

LEMMA FetchIsTyped ==
    ASSUME NEW route \in Seq(Hops)
    PROVE  IsBody(FetchSubscriptionResponse(route))
<1> DEFINE ends == {i \in DOMAIN route : IsBlocked(route[i]) \/ route[i].gives # "redirect"}
           last == CHOOSE i \in ends : \A j \in ends : i <= j
           fails == \/ ends = {} \/ last > MaxRedirects + 1 \/ IsBlocked(route[last])
                    \/ route[last].gives # "body"
<1>1. FetchSubscriptionResponse(route) = IF fails THEN Failed ELSE route[last].body
  BY DEF FetchSubscriptionResponse
<1>2. IsBody(Failed)
  BY EmptySeq DEF Failed, IsBody
<1>3. ends \in SUBSET DOMAIN route /\ DOMAIN route = 1..Len(route) /\ Len(route) \in Nat
  BY LenProperties
<1>4. ends # {} => last \in ends
  <2>1. ends \in SUBSET Nat
    BY <1>3
  <2> HIDE DEF ends
  <2>2. ends # {} => \E i \in ends : \A j \in ends : i <= j
    BY <2>1, Minimum
  <2> QED
    BY <2>2
<1>5. ends # {} => IsBody(route[last].body)
  <2> HIDE DEF ends, last
  <2>1. ends # {} => route[last] \in Hops
    BY <1>3, <1>4, ElementOfSeq
  <2> QED
    BY <2>1, BodiesAreBodies DEF Hops
<1>6. ends = {} => fails
  OBVIOUS
<1> HIDE DEF fails, last, ends
<1> QED
  BY <1>1, <1>2, <1>5, <1>6

LEMMA AnswerIsTyped ==
    ASSUME NEW source \in Sources, NEW body \in Answers[source]
    PROVE  body \in BodyType
<1>1. Answers[source] =
        {ImportResult(b) : b \in IF Remote(source)
                                 THEN {FetchSubscriptionResponse(r) : r \in Provider[source]}
                                 ELSE {Pasted[source]}}
  BY DEF Answers, Sources
<1>2. PICK b \in IF Remote(source) THEN {FetchSubscriptionResponse(r) : r \in Provider[source]}
                                   ELSE {Pasted[source]} : body = ImportResult(b)
  BY <1>1
<1>3. CASE Remote(source)
  <2>1. PICK r \in Provider[source] : b = FetchSubscriptionResponse(r)
    BY <1>2, <1>3
  <2>2. r \in Seq(Hops)
    BY <1>3, SourcesAssumption DEF Remote
  <2> QED
    BY <1>2, <2>1, <2>2, FetchIsTyped, ResultIsTyped
<1>4. CASE ~Remote(source)
  <2>1. b = Pasted[source] /\ source \in DOMAIN Pasted
    BY <1>2, <1>4 DEF Remote, Sources
  <2>2. IsBody(b)
    BY <2>1, SourcesAssumption, BodiesAreBodies
  <2> QED
    BY <1>2, <2>2, ResultIsTyped
<1> QED
  BY <1>3, <1>4

-----------------------------------------------------------------------------
(* The invariant, and what every step keeps of it.                          *)

StoreInv == Tidy(cards) /\ SelOK(cards, sel) /\ DiskOK(cards, sel, disk)
Inv == StoreInv /\ CallsOK

Keep == StoreInv' /\ Follows(sel, sel', cards')

LEMMA CallsStep ==
    ASSUME CallsOK, NEW s, NEW c \in CallType \cup {Free}, calls' = [calls EXCEPT ![s] = c]
    PROVE  CallsOK'
<1>1. calls' \in [Slots -> CallType \cup {Free}]
  BY DEF CallsOK
<1>2. CallsOK' <=> calls' \in [Slots -> CallType \cup {Free}]
  BY DEF CallsOK, Slots, CallType, Free, Call, Sources
<1> QED
  BY <1>1, <1>2

LEMMA CallIsTyped ==
    ASSUME NEW kind \in {"import", "refresh", "json"}, NEW card \in Nat, NEW source \in Sources
    PROVE  Call(kind, card, source) \in CallType
<1>1. <<>> \in Seq(Nat)
  BY EmptySeq
<1> QED
  BY <1>1 DEF Call, CallType

\* The rows stay as they are, and so do the choice and the store.
LEMMA Unrowed ==
    ASSUME StoreInv, Tidy(cards'), Rows(cards') = Rows(cards), sel' = sel, disk' = disk
    PROVE  Keep
<1>1. SelOK(cards', sel) /\ Follows(sel, sel, cards')
  BY Unmoved DEF StoreInv, Tidy
<1>2. RowsAt(cards', sel) = RowsAt(cards, sel)
  BY DEF RowsAt
<1>3. DiskOK(cards', sel, disk)
  BY <1>2, Zenon DEF StoreInv, DiskOK
<1> QED
  BY <1>1, <1>3, Zenon DEF Keep, StoreInv

LEMMA PersistKeeps ==
    ASSUME Tidy(cards'), SelOK(cards', sel'), Persist
    PROVE  StoreInv'
<1>1. DiskOK(cards', sel', Saved(cards', sel'))
  BY Stored
<1> QED
  BY <1>1, Zenon DEF StoreInv, Persist

LEMMA ImportFromUrlKeeps ==
    ASSUME Inv, NEW source \in Sources, ImportFromUrl(source)
    PROVE  Keep /\ CallsOK'
<1>1. /\ UNCHANGED <<cards, sel, disk>>
      /\ calls' = [calls EXCEPT ![Slot] = Call("import", 0, source)]
  BY DEF ImportFromUrl
<1>2. CallsOK'
  BY <1>1, CallIsTyped, CallsStep DEF Inv
<1> QED
  BY <1>1, <1>2, Unrowed DEF Inv, StoreInv

LEMMA RefreshKeeps ==
    ASSUME Inv, NEW id \in CardIds(cards), Refresh(id)
    PROVE  Keep /\ CallsOK'
<1>1. /\ UNCHANGED <<cards, sel, disk>>
      /\ calls' = [calls EXCEPT ![Slot] = Call("refresh", id, Card(id).url)]
  BY DEF Refresh
<1>2. Card(id) \in CardType /\ Card(id).id = id
  BY CardIsFound DEF Inv, StoreInv, Tidy
<1>3. CallsOK'
  <2>1. Card(id).url \in Sources /\ id \in Nat
    BY <1>2 DEF CardType
  <2> QED
    BY <1>1, <2>1, CallIsTyped, CallsStep DEF Inv
<1> QED
  BY <1>1, <1>3, Unrowed DEF Inv, StoreInv

LEMMA UpdateJsonKeeps ==
    ASSUME Inv, NEW id \in CardIds(cards), NEW text \in DOMAIN Pasted, UpdateJson(id, text)
    PROVE  Keep /\ CallsOK'
<1>1. /\ UNCHANGED <<cards, sel, disk>>
      /\ calls' = [calls EXCEPT ![Slot] = Call("json", id, text)]
  BY DEF UpdateJson
<1>2. Card(id) \in CardType /\ Card(id).id = id
  BY CardIsFound DEF Inv, StoreInv, Tidy
<1>3. CallsOK'
  <2>1. text \in Sources /\ id \in Nat
    BY <1>2 DEF CardType, Sources
  <2> QED
    BY <1>1, <2>1, CallIsTyped, CallsStep DEF Inv
<1> QED
  BY <1>1, <1>3, Unrowed DEF Inv, StoreInv

LEMMA ToggleAutoKeeps ==
    ASSUME Inv, ToggleAuto
    PROVE  Keep /\ CallsOK'
<1>1. UNCHANGED <<cards, sel, disk, calls>>
  BY DEF ToggleAuto
<1> QED
  BY <1>1, Unrowed DEF Inv, StoreInv, CallsOK

LEMMA SaveKeeps ==
    ASSUME Inv, Save
    PROVE  Keep /\ CallsOK'
<1>1. UNCHANGED <<cards, sel, calls>> /\ Persist
  BY DEF Save
<1>2. StoreInv'
  BY <1>1, PersistKeeps DEF Inv, StoreInv
<1>3. Follows(sel, sel, cards)
  BY Unmoved DEF Inv, StoreInv, Tidy
<1> QED
  BY <1>1, <1>2, <1>3 DEF Inv, CallsOK, Keep

LEMMA SelectServerKeeps ==
    ASSUME Inv, NEW row \in Rows(cards), SelectServer(row)
    PROVE  StoreInv' /\ CallsOK'
<1>1. UNCHANGED <<cards, calls>> /\ sel' = Chosen(row) /\ Persist
  BY DEF SelectServer
<1>2. SelOK(cards, Chosen(row))
  BY ChosenIsSettled DEF Inv, StoreInv, Tidy
<1>3. StoreInv'
  BY <1>1, <1>2, PersistKeeps DEF Inv, StoreInv
<1> QED
  BY <1>1, <1>3 DEF Inv, CallsOK

LEMMA RemoveCardKeeps ==
    ASSUME Inv, NEW id, RemoveCard(id)
    PROVE  Keep /\ CallsOK'
<1>1. /\ cards' = Without(cards, id) /\ sel' = ResolveSelection(cards', sel) /\ Persist
      /\ calls' = calls
  BY DEF RemoveCard
<1>2. Tidy(cards') /\ Rows(cards') \subseteq Rows(cards)
  BY <1>1, WithoutIsTidy DEF Inv, StoreInv
<1>3. SameChoice(sel, sel) /\ sel \in SelType
  BY ChoiceIsSame DEF Inv, StoreInv, Tidy, SelOK
<1>4. Keeps(cards', sel)
  BY <1>2, KeyIsChosen DEF Inv, StoreInv, RowsAt, Keeps
<1>5. SelOK(cards', sel') /\ Follows(sel, sel', cards')
  BY <1>1, <1>2, <1>3, <1>4, Resettled DEF Tidy
<1>6. StoreInv'
  BY <1>1, <1>2, <1>5, PersistKeeps
<1> QED
  BY <1>1, <1>5, <1>6 DEF Inv, CallsOK, Keep

LEMMA TimePassesKeeps ==
    ASSUME Inv, NEW id, TimePasses(id)
    PROVE  Keep /\ CallsOK'
<1>1. /\ cards' = [i \in DOMAIN cards |-> IF cards[i].id = id THEN [cards[i] EXCEPT !.due = TRUE]
                                         ELSE cards[i]]
      /\ UNCHANGED <<sel, disk, calls>>
  BY DEF TimePasses, Update
<1>2. ASSUME NEW c \in CardType
      PROVE  /\ [c EXCEPT !.due = TRUE] \in CardType
             /\ [c EXCEPT !.due = TRUE].id = c.id
             /\ [c EXCEPT !.due = TRUE].servers = c.servers
  BY DEF CardType
<1>3. Tidy(cards) /\ \A i \in DOMAIN cards : cards[i] \in CardType
  BY CardsAreTyped DEF Inv, StoreInv
<1>4. /\ cards' \in [DOMAIN cards -> CardType]
      /\ \A i \in DOMAIN cards : cards'[i].id = cards[i].id /\ cards'[i].servers = cards[i].servers
  BY <1>1, <1>2, <1>3
<1>5. Tidy(cards') /\ Rows(cards') = Rows(cards)
  BY <1>3, <1>4, Revised
<1> QED
  BY <1>1, <1>5, Unrowed DEF Inv, CallsOK

\* A row belongs to the card of its id.
LEMMA RowsCard ==
    ASSUME Tidy(cards), NEW row \in Rows(cards)
    PROVE  /\ Card(row.sub) \in CardType /\ Card(row.sub).id = row.sub
           /\ row.at \in DOMAIN Card(row.sub).servers /\ row = RowAt(Card(row.sub), row.at)
           /\ \A i \in DOMAIN cards : cards[i].id = row.sub => cards[i] = Card(row.sub)
<1>1. row.sub \in CardIds(cards) /\ cards \in Seq(CardType)
  BY RowIsTyped DEF Tidy
<1>2. /\ Card(row.sub) \in CardType /\ Card(row.sub).id = row.sub
      /\ Card(row.sub) \in ToSet(cards)
  BY <1>1, CardIsFound
<1>3. PICK k \in DOMAIN cards : Card(row.sub) = cards[k]
  BY <1>2 DEF ToSet
<1>4. \A i \in DOMAIN cards : cards[i].id = row.sub => cards[i] = Card(row.sub)
  BY <1>2, <1>3 DEF Tidy
<1>5. PICK i \in DOMAIN cards : \E j \in DOMAIN cards[i].servers : row = RowAt(cards[i], j)
  BY RowShape
<1>6. PICK j \in DOMAIN cards[i].servers : row = RowAt(cards[i], j)
  BY <1>5
<1>7. row.sub = cards[i].id /\ row.at = j
  BY <1>6 DEF RowAt
<1> QED
  BY <1>2, <1>4, <1>6, <1>7

LEMMA SaveServerDraftKeeps ==
    ASSUME Inv, NEW row \in Rows(cards), NEW location \in Drafts, SaveServerDraft(row, location)
    PROVE  StoreInv' /\ CallsOK'
<1>1. /\ cards' = [i \in DOMAIN cards |-> IF cards[i].id = row.sub
                        THEN [cards[i] EXCEPT !.servers = [@ EXCEPT ![row.at] = location]]
                        ELSE cards[i]]
      /\ sel' = IF sel.sub = row.sub /\ sel.at = row.at THEN [sel EXCEPT !.key = location.key]
                ELSE sel
      /\ calls' = calls /\ Persist
  BY DEF SaveServerDraft, Update
<1>2. Tidy(cards) /\ SelOK(cards, sel) /\ sel \in SelType
  BY DEF Inv, StoreInv, SelOK
<1>3. location \in Locations
  BY SourcesAssumption
<1> DEFINE Edited(c) == [c EXCEPT !.servers = [@ EXCEPT ![row.at] = location]]
<1>4. ASSUME NEW i \in DOMAIN cards, cards[i].id = row.sub
      PROVE  /\ Edited(cards[i]) \in CardType /\ Edited(cards[i]).id = row.sub
             /\ DOMAIN Edited(cards[i]).servers = DOMAIN cards[i].servers
             /\ row.at \in DOMAIN cards[i].servers
             /\ \A j \in DOMAIN cards[i].servers :
                   Edited(cards[i]).servers[j] = IF j = row.at THEN location
                                                 ELSE cards[i].servers[j]
  <2>1. /\ cards[i] = Card(row.sub) /\ row.at \in DOMAIN Card(row.sub).servers
        /\ Card(row.sub) \in CardType
    BY <1>2, <1>4, RowsCard
  <2> DEFINE c == cards[i]
             new == [c.servers EXCEPT ![row.at] = location]
  <2>2. c \in CardType /\ c.id = row.sub /\ row.at \in DOMAIN c.servers
    BY <1>4, <2>1
  <2> HIDE DEF c
  <2>3. c.servers \in Seq(Locations)
    BY <2>2 DEF CardType
  <2>4. row.at \in 1..Len(c.servers) /\ DOMAIN c.servers = 1..Len(c.servers)
    BY <2>2, <2>3, LenProperties
  <2>5. /\ new \in Seq(Locations) /\ DOMAIN new = DOMAIN c.servers
        /\ \A j \in DOMAIN c.servers : new[j] = IF j = row.at THEN location ELSE c.servers[j]
    BY <1>3, <2>3, <2>4, ExceptSeq, LenProperties
  <2>6. Edited(c) = [c EXCEPT !.servers = new]
    BY <2>2 DEF CardType
  <2> HIDE DEF new, Edited
  <2>7. /\ Edited(c) \in CardType /\ Edited(c).id = c.id /\ Edited(c).servers = new
    BY <2>2, <2>5, <2>6 DEF CardType
  <2> QED
    BY <2>2, <2>5, <2>7 DEF c
<1> HIDE DEF Edited
<1>5. /\ cards' \in [DOMAIN cards -> CardType]
      /\ \A i \in DOMAIN cards : cards'[i].id = cards[i].id
  <2>1. cards' = [i \in DOMAIN cards |-> IF cards[i].id = row.sub THEN Edited(cards[i]) ELSE cards[i]]
    BY <1>1 DEF Edited
  <2>2. \A i \in DOMAIN cards : cards[i] \in CardType
    BY <1>2, CardsAreTyped
  <2> QED
    BY <1>4, <2>1, <2>2
<1>6. Tidy(cards')
  BY <1>2, <1>5, Revised
<1>7. \A i \in DOMAIN cards : cards'[i] = IF cards[i].id = row.sub THEN Edited(cards[i]) ELSE cards[i]
  BY <1>1 DEF Edited
<1>8. ASSUME NEW o \in Rows(cards)
      PROVE  IF o.sub = row.sub /\ o.at = row.at
             THEN [key |-> location.key, label |-> location.label, sub |-> o.sub, at |-> o.at] \in Rows(cards')
             ELSE o \in Rows(cards')
  <2>1. PICK i \in DOMAIN cards : \E j \in DOMAIN cards[i].servers : o = RowAt(cards[i], j)
    BY RowShape
  <2>2. PICK j \in DOMAIN cards[i].servers : o = RowAt(cards[i], j)
    BY <2>1
  <2>3. o.sub = cards[i].id /\ o.at = j
    BY <2>2 DEF RowAt
  <2>4. i \in DOMAIN cards' /\ j \in DOMAIN cards'[i].servers
    BY <1>4, <1>5, <1>7
  <2>5. RowAt(cards'[i], j) \in Rows(cards')
    BY <2>4, RowShape
  <2>6. CASE o.sub = row.sub
    <3>1. /\ cards'[i].id = row.sub
          /\ cards'[i].servers[j] = IF j = row.at THEN location ELSE cards[i].servers[j]
      BY <1>4, <1>7, <2>3, <2>6
    <3> QED
      BY <2>2, <2>3, <2>5, <2>6, <3>1 DEF RowAt
  <2>7. CASE o.sub # row.sub
    <3>1. cards'[i] = cards[i]
      BY <1>7, <2>3, <2>7
    <3> QED
      BY <2>2, <2>5, <2>7, <3>1
  <2> QED
    BY <2>6, <2>7
<1>9. row \in RowType
  BY <1>2, RowIsTyped DEF Tidy
<1>10. SelOK(cards', sel')
  <2>1. CASE sel = Nothing /\ Rows(cards) = {}
    BY <2>1
  <2>2. CASE Waits(sel)
    <3>1. sel' = sel
      BY <1>1, <1>9, <2>2 DEF Waits, RowType
    <3> QED
      BY <1>2, <2>2, <3>1 DEF SelOK
  <2>3. CASE Stands(cards, sel)
    <3>1. PICK o \in RowsAt(cards, sel) : o.key = sel.key
      BY <2>3 DEF Stands
    <3>2. o \in Rows(cards) /\ o.sub = sel.sub /\ o.at = sel.at /\ ~sel.lost
      BY <2>3, <3>1 DEF RowsAt, Stands
    <3>3. CASE o.sub = row.sub /\ o.at = row.at
      <4>1. sel' = [sel EXCEPT !.key = location.key]
        BY <1>1, <3>2, <3>3
      <4>2. /\ sel' \in SelType /\ ~sel'.lost /\ sel'.key = location.key
            /\ sel'.sub = sel.sub /\ sel'.at = sel.at
        BY <1>2, <1>3, <3>2, <4>1 DEF SelType, Locations
      <4> DEFINE new == [key |-> location.key, label |-> location.label, sub |-> o.sub, at |-> o.at]
      <4>3. new \in Rows(cards') /\ new.sub = o.sub /\ new.at = o.at /\ new.key = location.key
        BY <1>8, <3>2, <3>3
      <4> HIDE DEF new
      <4>4. new \in RowsAt(cards', sel')
        BY <3>2, <4>2, <4>3 DEF RowsAt
      <4> QED
        BY <4>2, <4>3, <4>4 DEF SelOK, Stands
    <3>4. CASE ~(o.sub = row.sub /\ o.at = row.at)
      <4>1. sel' = sel /\ o \in Rows(cards')
        BY <1>1, <1>8, <3>2, <3>4
      <4>2. o \in RowsAt(cards', sel)
        BY <3>2, <4>1 DEF RowsAt
      <4> QED
        BY <1>2, <3>1, <3>2, <4>1, <4>2 DEF SelOK, Stands
    <3> QED
      BY <3>3, <3>4
  <2> QED
    BY <1>2, <2>1, <2>2, <2>3 DEF SelOK
<1>11. StoreInv'
  BY <1>1, <1>6, <1>10, PersistKeeps
<1> QED
  BY <1>1, <1>11 DEF Inv, CallsOK

LEMMA DeleteLocationKeeps ==
    ASSUME Inv, NEW row \in Rows(cards), DeleteLocation(row)
    PROVE  Keep /\ CallsOK'
<1> DEFINE kept == RemoveAt(Card(row.sub).servers, row.at)
           held == IF sel.sub # row.sub \/ sel.at < row.at THEN sel
                   ELSE [sel EXCEPT !.at = IF @ = row.at THEN 0 ELSE @ - 1]
           updated == [i \in DOMAIN cards |-> IF cards[i].id = row.sub
                          THEN [cards[i] EXCEPT !.servers = kept] ELSE cards[i]]
<1>1. /\ cards' = IF kept = <<>> THEN Without(cards, row.sub) ELSE updated
      /\ sel' = ResolveSelection(cards', held)
      /\ calls' = calls /\ Persist
  BY DEF DeleteLocation, Update
<1>2. /\ Tidy(cards) /\ SelOK(cards, sel) /\ sel \in SelType /\ cards \in Seq(CardType)
  BY DEF Inv, StoreInv, SelOK, Tidy
<1>3. /\ Card(row.sub) \in CardType /\ Card(row.sub).id = row.sub
      /\ row.at \in DOMAIN Card(row.sub).servers /\ row = RowAt(Card(row.sub), row.at)
      /\ \A i \in DOMAIN cards : cards[i].id = row.sub => cards[i] = Card(row.sub)
  BY <1>2, RowsCard
<1> DEFINE servers == Card(row.sub).servers
<1>4. servers \in Seq(Locations) /\ DOMAIN servers = 1..Len(servers) /\ Len(servers) \in Nat
  <2>1. servers \in Seq(Locations)
    BY <1>3 DEF CardType
  <2> HIDE DEF servers
  <2> QED
    BY <2>1, LenProperties
<1>5. /\ kept \in Seq(Locations) /\ DOMAIN kept = 1..(Len(servers) - 1)
      /\ \A j \in 1..(Len(servers) - 1) :
            kept[j] = IF j < row.at THEN servers[j] ELSE servers[j + 1]
  <2>1. row.at \in 1..Len(servers)
    BY <1>3, <1>4
  <2>2. kept = RemoveAt(servers, row.at)
    OBVIOUS
  <2> HIDE DEF servers, kept
  <2> QED
    BY <1>4, <2>1, <2>2, Removed
<1> HIDE DEF kept
<1>6. /\ updated \in [DOMAIN cards -> CardType]
      /\ \A i \in DOMAIN cards : updated[i].id = cards[i].id
      /\ \A i \in DOMAIN cards : updated[i].servers = IF cards[i].id = row.sub THEN kept
                                                   ELSE cards[i].servers
  <2>1. ASSUME NEW c \in CardType
        PROVE  /\ [c EXCEPT !.servers = kept] \in CardType
               /\ [c EXCEPT !.servers = kept].id = c.id
               /\ [c EXCEPT !.servers = kept].servers = kept
    BY <1>5 DEF CardType
  <2>2. \A i \in DOMAIN cards : cards[i] \in CardType
    BY <1>2, CardsAreTyped
  <2> QED
    BY <2>1, <2>2
<1> HIDE DEF updated
<1>7. Tidy(updated) /\ \A r \in Rows(updated) : r.sub # row.sub => r \in Rows(cards)
  <2>1. \A i \in DOMAIN cards : cards[i].id # row.sub => updated[i].servers = cards[i].servers
    BY <1>6
  <2> QED
    BY <1>2, <1>6, <2>1, Revised
<1>8. /\ Tidy(Without(cards, row.sub)) /\ Rows(Without(cards, row.sub)) \subseteq Rows(cards)
      /\ \A r \in Rows(Without(cards, row.sub)) : r.sub # row.sub
  BY <1>2, WithoutIsTidy
<1>9. Tidy(cards') /\ cards' \in Seq(CardType)
      /\ \A r \in Rows(cards') : r.sub # row.sub => r \in Rows(cards)
  BY <1>1, <1>7, <1>8 DEF Tidy
<1>10. ASSUME NEW r \in Rows(cards'), r.sub = row.sub
       PROVE  /\ r.at \in 1..(Len(servers) - 1)
              /\ r = [key |-> kept[r.at].key, label |-> kept[r.at].label, sub |-> row.sub, at |-> r.at]
  <2>1. cards' = updated
    BY <1>1, <1>8, <1>10
  <2>2. PICK i \in DOMAIN updated : \E j \in DOMAIN updated[i].servers : r = RowAt(updated[i], j)
    BY <2>1, RowShape
  <2>3. PICK j \in DOMAIN updated[i].servers : r = RowAt(updated[i], j)
    BY <2>2
  <2>4. updated[i].id = row.sub /\ updated[i].servers = kept
    BY <1>6, <1>10, <2>3 DEF RowAt
  <2> QED
    BY <1>5, <2>3, <2>4 DEF RowAt
<1>11. \A j \in DOMAIN servers : RowAt(Card(row.sub), j) \in Rows(cards)
  <2>1. row.sub \in CardIds(cards)
    BY <1>2, RowIsTyped
  <2>2. PICK i \in DOMAIN cards : cards[i].id = row.sub
    BY <2>1 DEF CardIds, ToSet
  <2> QED
    BY <1>3, <2>2, RowShape
<1>12. /\ sel.at \in Nat /\ row.at \in Nat \ {0}
       /\ sel.at # 0 => sel.key # ""
  BY <1>2, RowIsTyped, ChoiceIsSame DEF SelType, RowType
<1>13. /\ held \in SelType /\ held.key = sel.key /\ held.sub = sel.sub /\ held.label = sel.label
       /\ held.at = IF sel.sub # row.sub \/ sel.at < row.at THEN sel.at
                    ELSE IF sel.at = row.at THEN 0 ELSE sel.at - 1
  <2>1. ASSUME NEW a \in Nat
        PROVE  /\ [sel EXCEPT !.at = a] \in SelType /\ [sel EXCEPT !.at = a].at = a
               /\ [sel EXCEPT !.at = a].key = sel.key /\ [sel EXCEPT !.at = a].sub = sel.sub
               /\ [sel EXCEPT !.at = a].label = sel.label
    BY <1>2 DEF SelType
  <2>2. CASE sel.sub # row.sub \/ sel.at < row.at
    BY <1>2, <2>2
  <2>3. CASE ~(sel.sub # row.sub \/ sel.at < row.at)
    <3> DEFINE a == IF sel.at = row.at THEN 0 ELSE sel.at - 1
    <3> HIDE DEF held
    <3>0. ASSUME NEW x \in Nat, NEW y \in Nat \ {0}, ~(x < y)
          PROVE  (IF x = y THEN 0 ELSE x - 1) \in Nat
      BY <3>0
    <3>1. a \in Nat
      BY <1>12, <2>3, <3>0
    <3> USE DEF held
    <3>2. held = [sel EXCEPT !.at = a]
      BY <1>2, <2>3 DEF SelType
    <3> HIDE DEF a, held
    <3>3. held.at = a
      BY <2>1, <3>1, <3>2
    <3>4. /\ held \in SelType /\ held.key = sel.key /\ held.sub = sel.sub
          /\ held.label = sel.label
      BY <2>1, <3>1, <3>2
    <3> QED
      BY <2>3, <3>3, <3>4 DEF a
  <2> QED
    BY <2>2, <2>3
<1> HIDE DEF held
<1>14. SameChoice(held, sel)
  <2>1. held.at # 0 => sel.at # 0
    <3>1. 0 < row.at
      <4>1. \A y \in Nat \ {0} : 0 < y
        OBVIOUS
      <4> QED
        BY <1>12, <4>1
    <3>2. sel.at = 0 => sel.at < row.at
      BY <3>1
    <3> QED
      BY <1>13, <3>2
  <2>2. NeverChose(held) => NeverChose(sel)
    <3>1. sel.at = 0 => held.at = 0
      BY <1>12, <1>13
    <3> QED
      BY <1>12, <1>13 DEF NeverChose
  <2> QED
    BY <1>12, <1>13, <2>1, <2>2 DEF SameChoice
<1> HIDE DEF held, servers
<1>15. Keeps(cards', held)
  <2> SUFFICES ASSUME NEW r \in RowsAt(cards', held) PROVE r.key = sel.key
    BY <1>13 DEF Keeps
  <2>1. r \in Rows(cards') /\ r.sub = sel.sub /\ r.at = held.at /\ held.at # 0
    BY <1>9, <1>13, Places
  <2>2. CASE sel.sub # row.sub
    <3>1. r \in Rows(cards) /\ r.at = sel.at
      BY <1>9, <1>13, <2>1, <2>2
    <3>2. r \in RowsAt(cards, sel)
      BY <2>1, <3>1 DEF RowsAt
    <3> QED
      BY <1>2, <3>2, KeyIsChosen
  <2>3. CASE sel.sub = row.sub
    <3> DEFINE old == RowAt(Card(row.sub), sel.at)
    <3>1. /\ r.at \in 1..(Len(servers) - 1) /\ r.key = kept[r.at].key
      BY <1>10, <2>1, <2>3
    <3>2. sel.at \in DOMAIN servers /\ kept[r.at] = servers[sel.at]
      <4>1. CASE sel.at < row.at
        <5>1. r.at = sel.at /\ sel.at \in 1..Len(servers)
          BY <1>4, <1>13, <2>1, <2>3, <3>1, <4>1
        <5> QED
          BY <1>4, <1>5, <3>1, <4>1, <5>1
      <4>2. CASE ~(sel.at < row.at)
        <5>1. sel.at # row.at /\ r.at = sel.at - 1
          BY <1>12, <1>13, <2>1, <2>3, <4>2
        <5>2. ASSUME NEW n \in Nat, NEW a \in Nat, NEW b \in Nat, NEW c \in 1..(n - 1),
                     ~(a < b), a # b, c = a - 1
              PROVE  ~(c < b) /\ c + 1 = a /\ a \in 1..n
          BY <5>2
        <5>3. ~(r.at < row.at) /\ r.at + 1 = sel.at /\ sel.at \in 1..Len(servers)
          BY <1>4, <1>12, <3>1, <4>2, <5>1, <5>2
        <5> QED
          BY <1>4, <1>5, <3>1, <5>3
      <4> QED
        BY <4>1, <4>2
    <3>3. old \in Rows(cards) /\ old.sub = row.sub /\ old.at = sel.at /\ old.key = servers[sel.at].key
      BY <1>3, <1>11, <3>2 DEF RowAt, servers
    <3>4. old \in RowsAt(cards, sel)
      BY <2>3, <3>3 DEF RowsAt
    <3>5. old.key = sel.key
      BY <1>2, <3>4, KeyIsChosen
    <3> QED
      BY <3>1, <3>2, <3>3, <3>5
  <2> QED
    BY <2>2, <2>3
<1>16. SelOK(cards', sel') /\ Follows(sel, sel', cards')
  BY <1>1, <1>2, <1>9, <1>14, <1>15, Resettled
<1>17. StoreInv'
  BY <1>1, <1>9, <1>16, PersistKeeps
<1> QED
  BY <1>1, <1>16, <1>17 DEF Inv, CallsOK, Keep

-----------------------------------------------------------------------------
(* The answers.                                                             *)

LEMMA CallOfSlot ==
    ASSUME CallsOK, NEW slot \in Slots, calls[slot].kind # "free"
    PROVE  calls[slot] \in CallType
<1>1. Free.kind = "free"
  BY DEF Free, Call
<1>2. calls[slot] \in CallType \cup {Free}
  BY DEF CallsOK
<1> QED
  BY <1>1, <1>2

\* One card's rows are parsed anew, the others stay.
LEMMA Reparsed ==
    ASSUME StoreInv, NEW id, NEW list \in [DOMAIN cards -> CardType],
           \A i \in DOMAIN cards : list[i].id = cards[i].id,
           \A i \in DOMAIN cards : cards[i].id # id => list[i].servers = cards[i].servers,
           Reconcile(list, ParsedAnew(id))
    PROVE  Keep
<1>1. Tidy(list) /\ \A r \in Rows(list) : r.sub # id => r \in Rows(cards)
  BY Revised DEF StoreInv
<1> DEFINE held == ParsedAnew(id)
<1>2. \/ held = sel /\ RowsAt(list, sel) \subseteq Rows(cards)
      \/ held = [sel EXCEPT !.at = 0]
  <2>1. CASE sel.sub = id
    BY <2>1, Zenon DEF ParsedAnew
  <2>2. CASE sel.sub # id
    <3>1. held = sel
      BY <2>2, Zenon DEF ParsedAnew
    <3>2. RowsAt(list, sel) \subseteq Rows(cards)
      BY <1>1, <2>2 DEF RowsAt
    <3> QED
      BY <3>1, <3>2, Zenon
  <2> QED
    BY <2>1, <2>2
<1> HIDE DEF held
<1>3. Reconcile(list, held)
  BY DEF held
<1>4. /\ cards' = list
      /\ SelOK(list, sel') /\ DiskOK(list, sel', disk') /\ Follows(sel, sel', list)
  BY <1>1, <1>2, <1>3, Reconciled DEF StoreInv
<1> QED
  BY <1>1, <1>4, Zenon DEF Keep, StoreInv

LEMMA JsonUpdatedKeeps ==
    ASSUME Inv, NEW slot \in Slots, NEW body \in BodyType, JsonUpdated(slot, body)
    PROVE  Keep /\ CallsOK'
<1>1. calls[slot].kind = "json" /\ calls' = [calls EXCEPT ![slot] = Free]
  BY DEF JsonUpdated
<1>2. CallsOK'
  BY <1>1, CallsStep DEF Inv
<1>3. calls[slot].source \in Sources
  BY <1>1, CallOfSlot DEF Inv, CallType
<1>4. CASE ~body.json \/ body.servers = <<>>
  <2>1. UNCHANGED <<cards, sel, disk>>
    BY <1>4 DEF JsonUpdated
  <2> QED
    BY <1>2, <2>1, Unrowed DEF Inv, StoreInv
<1>5. CASE ~(~body.json \/ body.servers = <<>>)
  <2> DEFINE id == calls[slot].card
             Updated(c) == [c EXCEPT !.servers = body.servers, !.json = TRUE, !.due = FALSE,
                                     !.url = IF Remote(@) THEN @ ELSE calls[slot].source]
             list == [i \in DOMAIN cards |-> IF cards[i].id = id THEN Updated(cards[i]) ELSE cards[i]]
  <2>1. Reconcile(list, ParsedAnew(id))
    BY <1>5 DEF JsonUpdated, Update
  <2>2. ASSUME NEW c \in CardType
        PROVE  Updated(c) \in CardType /\ Updated(c).id = c.id
    BY <1>3, <2>2 DEF CardType, BodyType
  <2> HIDE DEF Updated
  <2>3. \A i \in DOMAIN cards : cards[i] \in CardType
    BY CardsAreTyped DEF Inv, StoreInv
  <2>4. /\ list \in [DOMAIN cards -> CardType]
        /\ \A i \in DOMAIN cards : list[i].id = cards[i].id
        /\ \A i \in DOMAIN cards : cards[i].id # id => list[i].servers = cards[i].servers
    BY <2>2, <2>3
  <2> HIDE DEF list, id
  <2>5. Keep
    BY <2>1, <2>4, Reparsed DEF Inv
  <2> QED
    BY <1>2, <2>5
<1> QED
  BY <1>4, <1>5

LEMMA NewCardIsTyped ==
    ASSUME NEW id \in Nat, NEW source \in Sources, NEW body \in BodyType
    PROVE  NewCard(id, source, body) \in CardType /\ NewCard(id, source, body).id = id
BY DEF NewCard, CardType, BodyType

LEMMA ImportedKeeps ==
    ASSUME Inv, NEW slot \in Slots, NEW body \in BodyType, Imported(slot, body)
    PROVE  Keep /\ CallsOK'
<1>1. calls[slot].kind = "import" /\ calls' = [calls EXCEPT ![slot] = Free]
  BY DEF Imported
<1>2. CallsOK'
  BY <1>1, CallsStep DEF Inv
<1>3. calls[slot].source \in Sources
  BY <1>1, CallOfSlot DEF Inv, CallType
<1>4. CASE body.servers = <<>>
  <2>1. UNCHANGED <<cards, sel, disk>>
    BY <1>4 DEF Imported
  <2> QED
    BY <1>2, <2>1, Unrowed DEF Inv, StoreInv
<1>5. CASE body.servers # <<>>
  <2> DEFINE card == NewCard(NewId, calls[slot].source, body)
             list == Append(cards, card)
             final == IF Remote(calls[slot].source) THEN list ELSE MergeManual(list)
  <2>1. Reconcile(final, sel)
    BY <1>5 DEF Imported
  <2>2. /\ Tidy(cards) /\ SelOK(cards, sel) /\ DiskOK(cards, sel, disk)
        /\ cards \in Seq(CardType) /\ disk.cards \in Seq(CardType)
    BY DEF Inv, StoreInv, DiskOK, Tidy
  <2>3. NewId \in Nat /\ NewId \notin UsedCards
    BY <2>2, IdIsNew DEF Inv
  <2>4. card \in CardType /\ card.id = NewId
    BY <1>3, <2>3, NewCardIsTyped
  <2>5. card.id \notin CardIds(cards) /\ card.id # sel.sub
    BY <2>3, <2>4 DEF UsedCards
  <2> HIDE DEF card
  <2>6. /\ Tidy(list)
        /\ \A r \in Rows(list) : r.sub # card.id => r \in Rows(cards)
        /\ Rows(cards) \subseteq Rows(list)
    BY <2>2, <2>4, <2>5, AppendIsTidy
  <2> HIDE DEF list
  <2>7. Tidy(final) /\ \A r \in Rows(final), o \in Rows(list) : r.sub = o.sub /\ r.at = o.at => r = o
    BY <2>6, MergeIsTidy, RowIsOne
  <2>8. RowsAt(final, sel) \subseteq Rows(cards)
    <3> SUFFICES ASSUME NEW r \in RowsAt(final, sel) PROVE r \in Rows(cards)
      OBVIOUS
    <3> HIDE DEF final
    <3>1. r \in Rows(final) /\ r.sub = sel.sub /\ r.at = sel.at /\ sel.at # 0
      <4>1. final \in Seq(CardType)
        BY <2>7 DEF Tidy
      <4> QED
        BY <4>1, Places
    <3>2. Stands(cards, sel)
      BY <2>2, <3>1, NothingIsTyped DEF SelOK, Waits
    <3>3. PICK o \in RowsAt(cards, sel) : o.key = sel.key
      BY <3>2 DEF Stands
    <3>4. o \in Rows(cards) /\ o \in Rows(list) /\ o.sub = sel.sub /\ o.at = sel.at
      BY <2>6, <3>3 DEF RowsAt
    <3> QED
      BY <2>7, <3>1, <3>4
  <2> HIDE DEF final
  <2>9. /\ cards' = final
        /\ SelOK(final, sel') /\ DiskOK(final, sel', disk') /\ Follows(sel, sel', final)
    BY <2>1, <2>2, <2>7, <2>8, Reconciled
  <2>10. Keep
    BY <2>7, <2>9, Zenon DEF Keep, StoreInv
  <2> QED
    BY <1>2, <2>10
<1> QED
  BY <1>4, <1>5

\* The call goes on to a card that exists, or ends.
LEMMA CallGoesOn ==
    ASSUME CallsOK, cards \in Seq(CardType), NEW call \in CallType, NEW slot, NEW rest \in Seq(Nat),
           \A id \in ToSet(rest) : id \in CardIds(cards),
           calls' = [calls EXCEPT ![slot] =
                        IF rest = <<>> THEN Free
                        ELSE [call EXCEPT !.card = rest[1], !.source = Card(rest[1]).url,
                                          !.rest = Tail(rest)]]
    PROVE  CallsOK'
<1>1. CASE rest = <<>>
  <2>1. calls' = [calls EXCEPT ![slot] = Free]
    BY <1>1
  <2> QED
    BY <2>1, CallsStep
<1>2. CASE rest # <<>>
  <2> DEFINE next == [call EXCEPT !.card = rest[1], !.source = Card(rest[1]).url,
                                  !.rest = Tail(rest)]
  <2>1. 1 \in DOMAIN rest /\ rest[1] \in Nat /\ Tail(rest) \in Seq(Nat)
    <3>1. Len(rest) \in Nat \ {0} /\ DOMAIN rest = 1..Len(rest)
      BY <1>2, EmptySeq, LenProperties
    <3>2. 1 \in 1..Len(rest)
      BY <3>1
    <3> QED
      BY <1>2, <3>1, <3>2, HeadTailProperties, ElementOfSeq
  <2>2. rest[1] \in CardIds(cards)
    BY <2>1 DEF ToSet
  <2>3. Card(rest[1]).url \in Sources
    BY <2>2, CardIsFound DEF CardType
  <2>4. next \in CallType
    BY <2>1, <2>3 DEF CallType
  <2>5. calls' = [calls EXCEPT ![slot] = next]
    BY <1>2
  <2> HIDE DEF next
  <2> QED
    BY <2>4, <2>5, CallsStep
<1> QED
  BY <1>1, <1>2

LEMMA RefreshedKeeps ==
    ASSUME Inv, NEW slot \in Slots, NEW body \in BodyType, Refreshed(slot, body)
    PROVE  Keep /\ CallsOK'
<1> DEFINE call == calls[slot]
           id == call.card
           Noted(c) == [c EXCEPT !.due = FALSE]
           Filled(c) == [c EXCEPT !.servers = body.servers,
                                  !.every = IF body.every = "none" THEN @ ELSE body.every,
                                  !.json = body.json, !.due = FALSE]
           New(c) == IF call.auto /\ body.servers = <<>> THEN Noted(c)
                     ELSE IF body.servers = <<>> THEN c ELSE Filled(c)
           list == [i \in DOMAIN cards |-> IF cards[i].id = id THEN New(cards[i]) ELSE cards[i]]
           I == {i \in DOMAIN call.rest : call.rest[i] \in CardIds(cards)}
           rest == IF auto THEN Selection(call.rest, I) ELSE <<>>
<1>1. /\ call.kind = "refresh"
      /\ calls' = [calls EXCEPT ![slot] =
                      IF rest = <<>> THEN Free
                      ELSE [call EXCEPT !.card = rest[1], !.source = Card(rest[1]).url,
                                        !.rest = Tail(rest)]]
  BY DEF Refreshed
<1>2. IF body.servers = <<>> THEN cards' = list /\ UNCHANGED <<sel, disk>>
      ELSE Reconcile(list, ParsedAnew(id))
  <2>1. CASE call.auto /\ body.servers = <<>>
    <3>1. /\ Update(cards, id, LAMBDA c : [c EXCEPT !.due = FALSE]) = list
      BY <2>1 DEF Update
    <3> QED
      BY <2>1, <3>1 DEF Refreshed
  <2>2. CASE ~(call.auto /\ body.servers = <<>>)
    <3>1. AfterRefresh(id, body) = list
      BY <2>2 DEF AfterRefresh, Update
    <3> QED
      BY <2>2, <3>1 DEF Refreshed
  <2> QED
    BY <2>1, <2>2
<1>3. call \in CallType
  BY <1>1, CallOfSlot DEF Inv
<1>4. /\ cards \in Seq(CardType) /\ Tidy(cards) /\ CallsOK /\ StoreInv
      /\ \A i \in DOMAIN cards : cards[i] \in CardType
  BY CardsAreTyped DEF Inv, StoreInv
<1>5. CallsOK'
  <2>1. call.rest \in Seq(Nat)
    BY <1>3 DEF CallType
  <2>2. I \in SUBSET DOMAIN call.rest
    OBVIOUS
  <2>3. rest \in Seq(Nat) /\ \A x \in ToSet(rest) : x \in CardIds(cards)
    <3>1. /\ Selection(call.rest, I) \in Seq(Nat)
          /\ \A x \in ToSet(Selection(call.rest, I)) : \E i \in I : x = call.rest[i]
      BY <2>1, <2>2, SelectionIsSeq
    <3>2. <<>> \in Seq(Nat) /\ ToSet(<<>>) = {}
      BY EmptySeq DEF ToSet
    <3> QED
      BY <3>1, <3>2
  <2> HIDE DEF rest, call
  <2> QED
    BY <1>1, <1>3, <1>4, <2>3, CallGoesOn
<1>6. ASSUME NEW c \in CardType
      PROVE  New(c) \in CardType /\ New(c).id = c.id
  <2>1. Noted(c) \in CardType /\ Noted(c).id = c.id
    BY DEF CardType
  <2>2. Filled(c) \in CardType /\ Filled(c).id = c.id
    BY DEF CardType, BodyType
  <2> HIDE DEF Noted, Filled
  <2> QED
    BY <2>1, <2>2
<1>7. ASSUME NEW c \in CardType, body.servers = <<>>
      PROVE  New(c).servers = c.servers
  BY <1>7 DEF CardType
<1> HIDE DEF New, rest, call, id
<1>8. /\ list \in [DOMAIN cards -> CardType]
      /\ \A i \in DOMAIN cards : list[i].id = cards[i].id
      /\ \A i \in DOMAIN cards : cards[i].id # id => list[i].servers = cards[i].servers
      /\ body.servers = <<>> => \A i \in DOMAIN cards : list[i].servers = cards[i].servers
  BY <1>4, <1>6, <1>7
<1> HIDE DEF list
<1>9. CASE body.servers = <<>>
  <2>1. cards' = list /\ sel' = sel /\ disk' = disk
    BY <1>2, <1>9
  <2>2. Tidy(list) /\ Rows(list) = Rows(cards)
    BY <1>4, <1>8, <1>9, Revised
  <2> QED
    BY <1>4, <1>5, <2>1, <2>2, Unrowed
<1>10. CASE body.servers # <<>>
  <2>1. Reconcile(list, ParsedAnew(id))
    BY <1>2, <1>10
  <2>2. Keep
    BY <1>4, <1>8, <2>1, Reparsed
  <2> QED
    BY <1>5, <2>2
<1> QED
  BY <1>9, <1>10

LEMMA AnswerKeeps ==
    ASSUME Inv, NEW slot \in Slots, Answer(slot)
    PROVE  Keep /\ CallsOK'
<1>1. calls[slot] \in CallType
  BY DEF Answer, Inv, CallsOK
<1>2. PICK body \in Answers[calls[slot].source] :
        Imported(slot, body) \/ JsonUpdated(slot, body) \/ Refreshed(slot, body)
  BY DEF Answer
<1>3. body \in BodyType
  BY <1>1, AnswerIsTyped DEF CallType
<1> QED
  BY <1>2, <1>3, ImportedKeeps, JsonUpdatedKeeps, RefreshedKeeps

LEMMA TimerFiresKeeps ==
    ASSUME Inv, TimerFires
    PROVE  Keep /\ CallsOK'
<1> DEFINE ready == Ready(cards)
           ids == [i \in DOMAIN ready |-> ready[i].id]
           call == [Call("refresh", ids[1], Card(ids[1]).url) EXCEPT !.auto = TRUE, !.rest = Tail(ids)]
           I == {i \in DOMAIN cards : Polled(cards[i]) /\ cards[i].due}
<1>1. /\ calls' = [calls EXCEPT ![Slot] = call] /\ UNCHANGED <<cards, sel, disk>>
      /\ ready # <<>>
  BY DEF TimerFires, TimerIsDue
<1>2. cards \in Seq(CardType) /\ CallsOK
  BY DEF Inv, StoreInv, Tidy
<1>3. I \in SUBSET DOMAIN cards
  OBVIOUS
<1>4. ready \in Seq(CardType) /\ \A c \in ToSet(ready) : \E i \in I : c = cards[i]
  BY <1>2, <1>3, SelectionIsSeq DEF Ready
<1>5. \A c \in ToSet(ready) : c.id \in CardIds(cards) /\ c.id \in Nat
  <2>1. \A i \in DOMAIN cards : cards[i] \in CardType
    BY <1>2, ElementOfSeq, LenProperties
  <2> QED
    BY <1>4, <2>1 DEF CardIds, ToSet, CardType
<1> HIDE DEF ready
<1>6. /\ Len(ready) \in Nat \ {0} /\ DOMAIN ready = 1..Len(ready)
  BY <1>1, <1>4, EmptySeq, LenProperties
<1>7. ids \in [1..Len(ready) -> Nat]
  BY <1>5, <1>6 DEF ToSet
<1>8. ids \in Seq(Nat)
  <2> HIDE DEF ids
  <2> QED
    BY <1>6, <1>7, FunctionIsSeq
<1>9. ids[1] \in CardIds(cards) /\ ids[1] \in Nat
  <2>1. 1 \in DOMAIN ready
    BY <1>6
  <2> QED
    BY <1>5, <2>1 DEF ToSet
<1>10. Tail(ids) \in Seq(Nat)
  <2>1. DOMAIN ids # DOMAIN <<>>
    <3>1. 1 \in DOMAIN ids
      BY <1>6
    <3> QED
      BY <3>1
  <2> HIDE DEF ids
  <2> QED
    BY <1>8, <2>1, HeadTailProperties
<1> HIDE DEF ids
<1>11. Card(ids[1]).url \in Sources
  BY <1>2, <1>9, CardIsFound DEF CardType
<1>12. call \in CallType
  <2>1. Call("refresh", ids[1], Card(ids[1]).url) \in CallType
    BY <1>9, <1>11, CallIsTyped
  <2> QED
    BY <1>10, <2>1 DEF CallType
<1> HIDE DEF call
<1>13. CallsOK'
  BY <1>1, <1>2, <1>12, CallsStep
<1> QED
  BY <1>1, <1>13, Unrowed DEF Inv, StoreInv

-----------------------------------------------------------------------------
(* The reload.                                                              *)

\* A row under the choice is what is selected.
LEMMA SelectedRow ==
    ASSUME NEW list, Tidy(list), NEW s, NEW r \in RowsAt(list, s)
    PROVE  Selected(list, s) = <<r.sub, r.key, r.label, s.lost>>
<1> DEFINE rows == {o \in Rows(list) : o.sub = s.sub /\ o.at = s.at}
           row == CHOOSE o \in rows : TRUE
<1>1. r \in rows /\ \A o \in rows : o = r
  BY RowIsOne DEF RowsAt
<1>2. Selected(list, s) = IF rows = {} THEN <<s.sub, s.key, s.label, s.lost>>
                          ELSE <<row.sub, row.key, row.label, s.lost>>
  BY DEF Selected
<1> HIDE DEF rows
<1>3. row = r /\ rows # {}
  BY <1>1
<1> QED
  BY <1>2, <1>3

LEMMA ReloadKeeps ==
    ASSUME Inv, Reload
    PROVE  /\ Keep /\ CallsOK'
           /\ ~sel.lost => Selected(cards', sel') = Selected(cards, sel)
<1>1. PICK due \in [DOMAIN disk.cards -> BOOLEAN] :
        LET list == [i \in DOMAIN disk.cards |->
                        [disk.cards[i] EXCEPT !.due = due[i] /\ Polled(disk.cards[i])]]
            known == \E r \in Rows(list) : r.sub = disk.sel.sub /\ r.at = disk.sel.at
            kept == [disk.sel EXCEPT !.at = IF known THEN @ ELSE 0]
        IN  /\ cards' = list
            /\ sel' = ResolveSelection(list, kept)
            /\ disk' = IF Saves(kept, sel') THEN Saved(list, sel') ELSE disk
  BY DEF Reload
<1> DEFINE list == [i \in DOMAIN disk.cards |->
                       [disk.cards[i] EXCEPT !.due = due[i] /\ Polled(disk.cards[i])]]
           known == \E r \in Rows(list) : r.sub = disk.sel.sub /\ r.at = disk.sel.at
           kept == [disk.sel EXCEPT !.at = IF known THEN @ ELSE 0]
<1>2. /\ cards' = list /\ sel' = ResolveSelection(list, kept)
      /\ disk' = IF Saves(kept, sel') THEN Saved(list, sel') ELSE disk
  BY <1>1
<1>3. CallsOK'
  <2>1. calls' \in [Slots -> CallType \cup {Free}]
    BY DEF Reload
  <2>2. CallsOK' <=> calls' \in [Slots -> CallType \cup {Free}]
    BY DEF CallsOK, Slots, CallType, Free, Call, Sources
  <2> QED
    BY <2>1, <2>2
<1>4. /\ Tidy(cards) /\ SelOK(cards, sel) /\ sel \in SelType /\ cards \in Seq(CardType)
      /\ Tidy(disk.cards) /\ disk.sel = [sel EXCEPT !.lost = FALSE]
      /\ sel = Nothing => Rows(disk.cards) = {}
      /\ ~sel.lost => RowsAt(cards, sel) \subseteq Rows(disk.cards)
  BY DEF Inv, StoreInv, DiskOK, SelOK, Tidy
<1>5. Tidy(list) /\ Rows(list) = Rows(disk.cards)
  <2>1. ASSUME NEW c \in CardType, NEW d \in BOOLEAN
        PROVE  /\ [c EXCEPT !.due = d] \in CardType
               /\ [c EXCEPT !.due = d].id = c.id
               /\ [c EXCEPT !.due = d].servers = c.servers
    BY DEF CardType
  <2>2. \A i \in DOMAIN disk.cards : disk.cards[i] \in CardType
    BY <1>4, CardsAreTyped
  <2>3. \A i \in DOMAIN disk.cards : (due[i] /\ Polled(disk.cards[i])) \in BOOLEAN
    BY DEF Polled
  <2>4. /\ list \in [DOMAIN disk.cards -> CardType]
        /\ \A i \in DOMAIN disk.cards :
              list[i].id = disk.cards[i].id /\ list[i].servers = disk.cards[i].servers
    BY <2>1, <2>2, <2>3
  <2> HIDE DEF list
  <2> QED
    BY <1>4, <2>4, Revised
<1> HIDE DEF list
<1>6. /\ disk.sel \in SelType /\ ~disk.sel.lost
      /\ disk.sel.at = sel.at /\ disk.sel.sub = sel.sub /\ disk.sel.key = sel.key
      /\ disk.sel.label = sel.label
  BY <1>4 DEF SelType
<1>7. list \in Seq(CardType)
  BY <1>5 DEF Tidy
<1>8. sel.lost => sel.at = 0
  BY <1>4, NothingIsTyped DEF SelOK, Waits, Stands
<1>9. ~sel.lost /\ sel # Nothing => \E r \in RowsAt(cards, sel) : r.key = sel.key
  BY <1>4 DEF SelOK, Waits, Stands
\* What was stored is what is found in it.
<1>10. kept = disk.sel
  <2>1. [disk.sel EXCEPT !.at = disk.sel.at] = disk.sel
    BY <1>6 DEF SelType
  <2>2. CASE sel.at = 0
    <3>1. [disk.sel EXCEPT !.at = 0] = disk.sel
      BY <1>6, <2>1, <2>2
    <3> QED
      BY <1>6, <2>1, <2>2, <3>1, Zenon
  <2>3. CASE sel.at # 0
    <3>1. PICK r \in RowsAt(cards, sel) : r.key = sel.key
      BY <1>8, <1>9, <2>3, NothingIsTyped
    <3>2. known
      BY <1>4, <1>5, <1>6, <1>8, <2>3, <3>1 DEF RowsAt
    <3> HIDE DEF known
    <3> QED
      BY <2>1, <3>2, Zenon
  <2> QED
    BY <2>2, <2>3
<1> HIDE DEF kept, known
<1>11. RowsAt(list, kept) = RowsAt(disk.cards, sel)
  BY <1>5, <1>6, <1>10 DEF RowsAt
\* The row that is stored where the choice stands is the row that was shown there.
<1>12. ASSUME NEW r \in RowsAt(list, kept) PROVE ~sel.lost /\ r \in RowsAt(cards, sel)
  <2>1. r.sub = sel.sub /\ r.at = sel.at /\ sel.at # 0 /\ r \in Rows(disk.cards)
    BY <1>5, <1>6, <1>7, <1>10, Places
  <2>2. PICK o \in RowsAt(cards, sel) : o.key = sel.key
    BY <1>8, <1>9, <2>1, NothingIsTyped
  <2>3. ~sel.lost /\ o \in Rows(disk.cards) /\ o.sub = sel.sub /\ o.at = sel.at
    BY <1>4, <1>8, <2>1, <2>2 DEF RowsAt
  <2>4. o = r
    BY <1>4, <2>1, <2>3, RowIsOne
  <2> QED
    BY <2>2, <2>3, <2>4
<1>13. Keeps(list, kept)
  BY <1>4, <1>6, <1>10, <1>12, KeyIsChosen DEF Keeps
<1>14. SameChoice(kept, sel)
  <2>1. SameChoice(sel, sel)
    BY <1>4, ChoiceIsSame
  <2> QED
    BY <1>6, <1>10, <2>1 DEF SameChoice, NeverChose
<1>15. SelOK(list, sel') /\ Follows(sel, sel', list)
  BY <1>2, <1>4, <1>7, <1>13, <1>14, Resettled
<1>16. DiskOK(list, sel', disk')
  <2>1. CASE Saves(kept, sel')
    BY <1>2, <1>5, <1>15, <2>1, Stored
  <2>2. CASE ~Saves(kept, sel')
    <3>1. disk' = disk /\ ~sel'.lost /\ [sel' EXCEPT !.lost = FALSE] = [kept EXCEPT !.lost = FALSE]
      BY <1>2, <2>2, Zenon DEF Saves
    <3>2. [kept EXCEPT !.lost = FALSE] = disk.sel
      BY <1>6, <1>10 DEF SelType
    <3>3. disk'.sel = [sel' EXCEPT !.lost = FALSE]
      BY <3>1, <3>2, Zenon
    <3>4. RowsAt(list, sel') \subseteq Rows(disk.cards)
      BY <1>5 DEF RowsAt
    <3>5. sel' = Nothing => Rows(disk.cards) = {}
      BY <1>5, <1>7, <1>15, NothingToFind, NothingIsTyped
    <3> QED
      BY <1>4, <3>1, <3>3, <3>4, <3>5, Zenon DEF DiskOK
  <2> QED
    BY <2>1, <2>2
<1>17. Keep
  BY <1>2, <1>5, <1>15, <1>16, Zenon DEF Keep, StoreInv
<1>18. ASSUME ~sel.lost PROVE Selected(cards', sel') = Selected(cards, sel)
  <2>1. \/ Rows(list) = {} /\ sel' = Nothing
        \/ Rows(list) # {} /\ (Found(list, kept, sel') \/ Adopted(list, kept, sel')
                               \/ Missed(list, kept, sel'))
    BY <1>2, <1>6, <1>7, <1>10, ResolveCases
  <2>2. CASE sel = Nothing
    <3>1. Rows(list) = {} /\ sel' = Nothing
      BY <1>4, <1>5, <2>1, <2>2
    <3>2. Rows(cards) = {}
      BY <1>4, <2>2, NothingToFind, NothingIsTyped
    <3> QED
      BY <1>2, <2>2, <3>1, <3>2 DEF Selected
  <2>3. CASE sel # Nothing
    <3>1. PICK r \in RowsAt(cards, sel) : r.key = sel.key
      BY <1>9, <1>18, <2>3
    <3>2. r \in RowsAt(list, kept) /\ r \in Rows(list)
      BY <1>4, <1>5, <1>11, <1>18, <3>1 DEF RowsAt
    <3>3. PICK row \in Pool(list, kept) : sel' = Chosen(row) /\ row \in RowsAt(list, kept)
      BY <2>1, <3>2 DEF Found, Adopted, Missed
    <3>4. row = r
      BY <1>5, <3>2, <3>3, RowIsOne DEF RowsAt
    <3>5. sel' = Chosen(r) /\ r \in RowsAt(list, sel') /\ ~sel'.lost
      BY <3>2, <3>3, <3>4 DEF Chosen, RowsAt
    <3>6. Selected(list, sel') = <<r.sub, r.key, r.label, sel'.lost>>
      BY <1>5, <3>5, SelectedRow
    <3>7. Selected(cards, sel) = <<r.sub, r.key, r.label, sel.lost>>
      BY <1>4, <3>1, SelectedRow
    <3>8. sel'.lost = FALSE /\ sel.lost = FALSE
      BY <1>4, <1>18, <3>3 DEF Chosen, SelType
    <3> QED
      BY <1>2, <3>6, <3>7, <3>8
  <2> QED
    BY <2>2, <2>3
<1> QED
  BY <1>3, <1>17, <1>18

-----------------------------------------------------------------------------
(* The theorems.                                                            *)

LEMMA InitIsSettled == Init => Inv
<1> SUFFICES ASSUME Init PROVE Inv
  OBVIOUS
<1>1. /\ cards = <<>> /\ sel = Nothing /\ disk = Saved(<<>>, Nothing)
      /\ calls = [s \in Slots |-> Free]
  BY DEF Init
<1>2. Tidy(<<>>)
  BY EmptySeq DEF Tidy
<1>3. Rows(<<>>) = {}
  BY DEF Rows, ToSet
<1>4. SelOK(<<>>, Nothing)
  BY <1>3, NothingIsTyped DEF SelOK
<1>5. DiskOK(<<>>, Nothing, disk)
  BY <1>1, <1>2, <1>4, Stored
<1>6. CallsOK
  BY <1>1 DEF CallsOK
<1> QED
  BY <1>1, <1>2, <1>4, <1>5, <1>6 DEF Inv, StoreInv

\* A step keeps the invariant and, unless the user chooses, the choice.
LEMMA StepIsSettled ==
    ASSUME Inv, Next
    PROVE  Inv' /\ (UserChooses \/ Follows(sel, sel', cards'))
<1> USE DEF Inv
<1>1. ASSUME NEW source \in DOMAIN Provider \cup DOMAIN Pasted, ImportFromUrl(source)
      PROVE  Keep /\ CallsOK'
  BY <1>1, ImportFromUrlKeeps DEF Sources
<1>2. ASSUME NEW id \in CardIds(cards),
             \/ Refresh(id) \/ RemoveCard(id) \/ TimePasses(id)
             \/ \E text \in DOMAIN Pasted : UpdateJson(id, text)
      PROVE  Keep /\ CallsOK'
  BY <1>2, RefreshKeeps, RemoveCardKeeps, TimePassesKeeps, UpdateJsonKeeps
<1>3. ASSUME NEW row \in Rows(cards), SelectServer(row)
      PROVE  StoreInv' /\ CallsOK' /\ UserChooses
  BY <1>3, SelectServerKeeps DEF UserChooses
<1>4. ASSUME NEW row \in Rows(cards), DeleteLocation(row)
      PROVE  Keep /\ CallsOK'
  BY <1>4, DeleteLocationKeeps
<1>5. ASSUME NEW row \in Rows(cards), NEW location \in Drafts, SaveServerDraft(row, location)
      PROVE  StoreInv' /\ CallsOK' /\ UserChooses
  BY <1>5, SaveServerDraftKeeps DEF UserChooses
<1>6. ASSUME Save \/ ToggleAuto \/ TimerFires \/ Reload
      PROVE  Keep /\ CallsOK'
  BY <1>6, SaveKeeps, ToggleAutoKeeps, TimerFiresKeeps, ReloadKeeps
<1>7. ASSUME NEW slot \in Slots, Answer(slot)
      PROVE  Keep /\ CallsOK'
  BY <1>7, AnswerKeeps
<1> QED
  BY <1>1, <1>2, <1>3, <1>4, <1>5, <1>6, <1>7 DEF Next, Keep

LEMMA StutterIsSettled ==
    ASSUME Inv, UNCHANGED vars
    PROVE  Inv'
BY DEF Inv, StoreInv, CallsOK, vars

\* The cards, the calls and the choice are settled in every state, and the stored
\* choice is the one shown.
THEOREM StoreIsSettled == Spec => []Inv
<1>1. Inv /\ [Next]_vars => Inv'
  BY StepIsSettled, StutterIsSettled
<1> QED
  BY <1>1, InitIsSettled, PTL DEF Spec

\* Nobody but the user moves the selection to another location, at any number of
\* cards, rows and fetches in flight (reconcileSelection, resolveSelection).
THEOREM ChoiceStays == Spec => SelectionStays
<1>1. Inv /\ [Next]_vars => [~UserChooses => Follows(sel, sel', cards')]_vars
  BY StepIsSettled
<1> QED
  BY <1>1, StoreIsSettled, PTL DEF Spec, SelectionStays

\* A reload shows what was shown before it, although not every change is written
\* (reconcileSelection's persist).
THEOREM ReloadShowsTheSame == Spec => SelectionSurvivesReload
<1>1. Inv /\ [Next]_vars =>
        [Reload /\ ~sel.lost => Selected(cards', sel') = Selected(cards, sel)]_vars
  BY ReloadKeeps
<1> QED
  BY <1>1, StoreIsSettled, PTL DEF Spec, SelectionSurvivesReload
=============================================================================
