--------------------------- MODULE PanelTabsProofs ---------------------------
(* The safety properties of PanelTabs, for any groups and panels.          *)
EXTENDS PanelTabs, SequenceTheorems, WellFoundedInduction, TLAPS

-----------------------------------------------------------------------------
(* Induction over the natural numbers, with a set in the place of the      *)
(* predicate.                                                              *)

LessThan == {q \in Nat \X Nat : q[1] < q[2]}

LEMMA LessThanIsWellFounded == IsWellFoundedOn(LessThan, Nat)
  BY NatLessThanWellFounded DEF OpToRel, LessThan

LEMMA NatInduct ==
    ASSUME NEW S, 0 \in S, \A n \in Nat : n \in S => n + 1 \in S
    PROVE  \A n \in Nat : n \in S
  <1>1. SUFFICES ASSUME Nat \ S # {}
                 PROVE  FALSE
    OBVIOUS
  <1>2. PICK n \in Nat \ S : \A m \in Nat \ S : ~ (<<m, n>> \in LessThan)
    BY <1>1, LessThanIsWellFounded, WFMin, Zenon
  <1>3. n # 0 /\ n - 1 \in Nat
    BY <1>2
  <1>4. <<n - 1, n>> \in LessThan
    BY <1>2, <1>3 DEF LessThan
  <1>5. n - 1 \in S
    BY <1>2, <1>3, <1>4
  <1>6. QED
    BY <1>2, <1>3, <1>5

-----------------------------------------------------------------------------
(* Inserting into a sequence and removing from it.                         *)

LEMMA RemoveAtFact ==
    ASSUME NEW S, NEW s \in Seq(S), NEW i \in 1 .. Len(s)
    PROVE  /\ RemoveAt(s, i) \in Seq(S)
           /\ Len(RemoveAt(s, i)) = Len(s) - 1
           /\ \A j \in 1 .. Len(s) - 1 :
                  RemoveAt(s, i)[j] = IF j < i THEN s[j] ELSE s[j + 1]
  <1>1. /\ SubSeq(s, 1, i - 1) \in Seq(S) /\ Len(SubSeq(s, 1, i - 1)) = i - 1
        /\ \A j \in 1 .. i - 1 : SubSeq(s, 1, i - 1)[j] = s[j]
    BY SubSeqProperties
  <1>2. /\ SubSeq(s, i + 1, Len(s)) \in Seq(S)
        /\ Len(SubSeq(s, i + 1, Len(s))) = Len(s) - i
        /\ \A j \in 1 .. Len(s) - i : SubSeq(s, i + 1, Len(s))[j] = s[i + j]
    BY SubSeqProperties
  <1> DEFINE head == SubSeq(s, 1, i - 1)
             tail == SubSeq(s, i + 1, Len(s))
  <1>a. /\ head \in Seq(S) /\ Len(head) = i - 1 /\ \A j \in 1 .. i - 1 : head[j] = s[j]
        /\ tail \in Seq(S) /\ Len(tail) = Len(s) - i
        /\ \A j \in 1 .. Len(s) - i : tail[j] = s[i + j]
    BY <1>1, <1>2
  <1> HIDE DEF head, tail
  <1>3. /\ head \o tail \in Seq(S) /\ Len(head \o tail) = Len(s) - 1
        /\ \A j \in 1 .. Len(s) - 1 :
               (head \o tail)[j] = IF j <= i - 1 THEN head[j] ELSE tail[j - (i - 1)]
    <2>1. /\ head \o tail \in Seq(S) /\ Len(head \o tail) = Len(head) + Len(tail)
          /\ \A j \in 1 .. Len(head) + Len(tail) :
                 (head \o tail)[j] =
                     IF j <= Len(head) THEN head[j] ELSE tail[j - Len(head)]
      BY <1>a, ConcatProperties
    <2>2. Len(head) + Len(tail) = Len(s) - 1 /\ Len(head) = i - 1
      BY <1>a
    <2>3. QED
      BY <2>1, <2>2, Zenon
  <1>4. RemoveAt(s, i) = head \o tail
    BY DEF RemoveAt, head, tail
  <1>5. ASSUME NEW j \in 1 .. Len(s) - 1
        PROVE  RemoveAt(s, i)[j] = IF j < i THEN s[j] ELSE s[j + 1]
    <2>1. CASE j < i
      BY <1>a, <1>3, <1>4, <2>1
    <2>2. CASE j >= i
      <3>1. j - (i - 1) \in 1 .. Len(s) - i /\ i + (j - (i - 1)) = j + 1
        BY <2>2
      <3>2. tail[j - (i - 1)] = s[j + 1]
        BY <1>a, <3>1
      <3>3. (head \o tail)[j] = tail[j - (i - 1)]
        <4>1. ~ (j <= i - 1)
          BY <2>2
        <4>2. QED
          BY <1>3, <4>1, Zenon
      <3>4. RemoveAt(s, i)[j] = s[j + 1]
        BY <1>4, <3>2, <3>3, Zenon
      <3>5. ~ (j < i)
        BY <2>2
      <3>6. QED
        BY <3>4, <3>5, Zenon
    <2>3. QED
      BY <2>1, <2>2
  <1>6. QED
    <2>1. RemoveAt(s, i) \in Seq(S) /\ Len(RemoveAt(s, i)) = Len(s) - 1
      BY <1>3, <1>4, Zenon
    <2>2. QED
      BY <1>5, <2>1, Zenon

Inserted(s, i, e, r) ==
    /\ Len(r) = Len(s) + 1
    /\ \A j \in 1 .. Len(s) + 1 :
           r[j] = IF j < i THEN s[j] ELSE IF j = i THEN e ELSE s[j - 1]

LEMMA InsertAtFact ==
    ASSUME NEW S, NEW s \in Seq(S), NEW i \in 1 .. Len(s) + 1, NEW e \in S
    PROVE  InsertAt(s, i, e) \in Seq(S) /\ Inserted(s, i, e, InsertAt(s, i, e))
  <1>1. /\ SubSeq(s, 1, i - 1) \in Seq(S) /\ Len(SubSeq(s, 1, i - 1)) = i - 1
        /\ \A j \in 1 .. i - 1 : SubSeq(s, 1, i - 1)[j] = s[j]
    BY SubSeqProperties
  <1>2. /\ SubSeq(s, i, Len(s)) \in Seq(S)
        /\ Len(SubSeq(s, i, Len(s))) = Len(s) - i + 1
        /\ \A j \in 1 .. Len(s) - i + 1 : SubSeq(s, i, Len(s))[j] = s[i + j - 1]
    BY SubSeqProperties
  <1> DEFINE head == SubSeq(s, 1, i - 1) \o <<e>>
  <1>3. /\ head \in Seq(S) /\ Len(head) = i
        /\ \A j \in 1 .. i : head[j] = IF j < i THEN s[j] ELSE e
    BY <1>1, ConcatProperties
  <1> HIDE DEF head
  <1>4. /\ head \o SubSeq(s, i, Len(s)) \in Seq(S)
        /\ Len(head \o SubSeq(s, i, Len(s))) = Len(s) + 1
        /\ \A j \in 1 .. Len(s) + 1 :
               (head \o SubSeq(s, i, Len(s)))[j] =
                   IF j <= i THEN head[j] ELSE SubSeq(s, i, Len(s))[j - i]
    BY <1>2, <1>3, ConcatProperties
  <1>5. InsertAt(s, i, e) = head \o SubSeq(s, i, Len(s))
    BY DEF InsertAt, head
  <1>6. InsertAt(s, i, e) \in Seq(S) /\ Len(InsertAt(s, i, e)) = Len(s) + 1
    BY <1>4, <1>5, Zenon
  <1>7. ASSUME NEW j \in 1 .. Len(s) + 1
        PROVE  InsertAt(s, i, e)[j] = IF j < i THEN s[j]
                                      ELSE IF j = i THEN e ELSE s[j - 1]
    <2>1. InsertAt(s, i, e)[j] =
              IF j <= i THEN head[j] ELSE SubSeq(s, i, Len(s))[j - i]
      BY <1>4, <1>5, Zenon
    <2>2. CASE j <= i
      <3>1. InsertAt(s, i, e)[j] = head[j]
        BY <2>1, <2>2, Zenon
      <3>2. head[j] = IF j < i THEN s[j] ELSE e
        BY <1>3, <2>2
      <3>3. QED
        BY <2>2, <3>1, <3>2
    <2>3. CASE j > i
      <3>1. j - i \in 1 .. Len(s) - i + 1 /\ i + (j - i) - 1 = j - 1 /\ ~ (j <= i)
            /\ ~ (j < i) /\ j # i
        BY <2>3
      <3>2. InsertAt(s, i, e)[j] = SubSeq(s, i, Len(s))[j - i]
        BY <2>1, <3>1, Zenon
      <3>3. SubSeq(s, i, Len(s))[j - i] = s[j - 1]
        BY <1>2, <3>1
      <3>4. QED
        BY <3>1, <3>2, <3>3, Zenon
    <2>4. QED
      BY <2>2, <2>3
  <1>8. QED
    BY <1>6, <1>7, Zenon DEF Inserted

LEMMA InsertPanels ==
    ASSUME NEW s \in Seq(Panels), NEW i \in 1 .. Len(s) + 1, NEW e \in Panels
    PROVE  InsertAt(s, i, e) \in Seq(Panels) /\ Inserted(s, i, e, InsertAt(s, i, e))
  BY InsertAtFact

Distinct(s) == \A i, j \in 1 .. Len(s) : s[i] = s[j] => i = j

Within(s, e) == \E i \in 1 .. Len(s) : s[i] = e

LEMMA InsertDistinct ==
    ASSUME NEW S, NEW s \in Seq(S), NEW i \in 1 .. Len(s) + 1, NEW e \in S,
           Distinct(s), ~Within(s, e)
    PROVE  /\ Distinct(InsertAt(s, i, e))
           /\ \A q : Within(InsertAt(s, i, e), q) <=> Within(s, q) \/ q = e
  <1>1. PICK n, r : n = Len(s) /\ r = InsertAt(s, i, e)
    OBVIOUS
  <1>2. n \in Nat /\ i \in 1 .. n + 1
    BY <1>1
  <1>3. /\ Len(r) = n + 1
        /\ \A j \in 1 .. n + 1 :
               r[j] = IF j < i THEN s[j] ELSE IF j = i THEN e ELSE s[j - 1]
    <2>1. Inserted(s, i, e, r)
      BY <1>1, InsertAtFact
    <2>2. QED
      BY <1>1, <2>1 DEF Inserted
  <1>4. \A j \in 1 .. n + 1 : j < i => j \in 1 .. n /\ r[j] = s[j]
    BY <1>2, <1>3
  <1>5. \A j \in 1 .. n + 1 : j > i => j - 1 \in 1 .. n /\ r[j] = s[j - 1]
    BY <1>2, <1>3
  <1>6. r[i] = e
    BY <1>2, <1>3
  <1>7. \A j \in 1 .. n : s[j] # e
    BY <1>1 DEF Within
  <1>8. \A j, k \in 1 .. n : s[j] = s[k] => j = k
    BY <1>1 DEF Distinct
  <1>9. ASSUME NEW j \in 1 .. n + 1, NEW k \in 1 .. n + 1, r[j] = r[k]
        PROVE  j = k
    <2>1. j = i <=> k = i
      BY <1>2, <1>4, <1>5, <1>6, <1>7, <1>9
    <2>2. CASE j < i /\ k < i
      BY <1>4, <1>8, <1>9, <2>2
    <2>3. CASE j > i /\ k > i
      <3>1. j - 1 = k - 1
        BY <1>5, <1>8, <1>9, <2>3
      <3>2. QED
        BY <3>1
    <2>4. CASE j < i /\ k > i
      BY <1>2, <1>4, <1>5, <1>8, <1>9, <2>4
    <2>5. CASE j > i /\ k < i
      BY <1>2, <1>4, <1>5, <1>8, <1>9, <2>5
    <2>6. QED
      BY <1>2, <2>1, <2>2, <2>3, <2>4, <2>5
  <1>10. ASSUME NEW j \in 1 .. n
         PROVE  \E k \in 1 .. n + 1 : r[k] = s[j]
    <2>1. CASE j < i
      BY <1>2, <1>4, <2>1
    <2>2. CASE j >= i
      <3>1. j + 1 \in 1 .. n + 1 /\ j + 1 > i /\ (j + 1) - 1 = j
        BY <1>2, <2>2
      <3>2. QED
        BY <1>5, <3>1
    <2>3. QED
      BY <1>2, <2>1, <2>2
  <1>11. ASSUME NEW j \in 1 .. n + 1, r[j] # e
         PROVE  \E k \in 1 .. n : s[k] = r[j]
    BY <1>2, <1>4, <1>5, <1>6, <1>11
  <1>12. ASSUME NEW q
         PROVE  Within(r, q) <=> Within(s, q) \/ q = e
    BY <1>1, <1>2, <1>3, <1>6, <1>10, <1>11 DEF Within
  <1>13. QED
    BY <1>1, <1>3, <1>9, <1>12 DEF Distinct

LEMMA RemoveDistinct ==
    ASSUME NEW S, NEW s \in Seq(S), NEW i \in 1 .. Len(s), Distinct(s)
    PROVE  /\ Distinct(RemoveAt(s, i))
           /\ \A q : Within(RemoveAt(s, i), q) <=> Within(s, q) /\ q # s[i]
  <1>1. PICK n, r : n = Len(s) /\ r = RemoveAt(s, i)
    OBVIOUS
  <1>2. n \in Nat /\ i \in 1 .. n
    BY <1>1
  <1>3. /\ Len(r) = n - 1
        /\ \A j \in 1 .. n - 1 : r[j] = IF j < i THEN s[j] ELSE s[j + 1]
    BY <1>1, RemoveAtFact
  <1>4. \A j \in 1 .. n - 1 : j < i => j \in 1 .. n /\ r[j] = s[j]
    BY <1>2, <1>3
  <1>5. \A j \in 1 .. n - 1 : j >= i => j + 1 \in 1 .. n /\ r[j] = s[j + 1]
    BY <1>2, <1>3
  <1>6. \A j, k \in 1 .. n : s[j] = s[k] => j = k
    BY <1>1 DEF Distinct
  <1>7. ASSUME NEW j \in 1 .. n - 1, NEW k \in 1 .. n - 1, r[j] = r[k]
        PROVE  j = k
    <2>1. CASE j < i /\ k < i
      BY <1>4, <1>6, <1>7, <2>1
    <2>2. CASE j >= i /\ k >= i
      <3>1. j + 1 = k + 1
        BY <1>5, <1>6, <1>7, <2>2
      <3>2. QED
        BY <3>1
    <2>3. CASE j < i /\ k >= i
      BY <1>2, <1>4, <1>5, <1>6, <1>7, <2>3
    <2>4. CASE j >= i /\ k < i
      BY <1>2, <1>4, <1>5, <1>6, <1>7, <2>4
    <2>5. QED
      BY <1>2, <2>1, <2>2, <2>3, <2>4
  <1>8. ASSUME NEW j \in 1 .. n - 1
        PROVE  \E k \in 1 .. n : k # i /\ s[k] = r[j]
    <2>1. CASE j < i
      BY <1>2, <1>4, <2>1
    <2>2. CASE j >= i
      BY <1>2, <1>5, <2>2
    <2>3. QED
      BY <1>2, <2>1, <2>2
  <1>9. ASSUME NEW k \in 1 .. n, k # i
        PROVE  \E j \in 1 .. n - 1 : r[j] = s[k]
    <2>1. CASE k < i
      BY <1>2, <1>4, <2>1
    <2>2. CASE k > i
      <3>1. k - 1 \in 1 .. n - 1 /\ k - 1 >= i /\ (k - 1) + 1 = k
        BY <1>2, <2>2
      <3>2. QED
        BY <1>5, <3>1
    <2>3. QED
      BY <1>2, <1>9, <2>1, <2>2
  <1>10. ASSUME NEW q
         PROVE  Within(r, q) <=> Within(s, q) /\ q # s[i]
    <2>1. ASSUME Within(r, q)
          PROVE  Within(s, q) /\ q # s[i]
      <3>1. PICK j \in 1 .. n - 1 : r[j] = q
        BY <1>3, <2>1 DEF Within
      <3>2. PICK k \in 1 .. n : k # i /\ s[k] = q
        BY <1>8, <3>1
      <3>3. QED
        BY <1>1, <1>2, <1>6, <3>2 DEF Within
    <2>2. ASSUME Within(s, q), q # s[i]
          PROVE  Within(r, q)
      <3>1. PICK k \in 1 .. n : s[k] = q /\ k # i
        BY <1>1, <2>2 DEF Within
      <3>2. QED
        BY <1>3, <1>9, <3>1 DEF Within
    <2>3. QED
      BY <2>1, <2>2
  <1>11. QED
    BY <1>1, <1>3, <1>7, <1>10 DEF Distinct

-----------------------------------------------------------------------------
(* One tab view.                                                           *)

TabViews == [tabs : Seq(Panels), cards : Seq(Panels),
             front : Panels \cup {NoPanel}, visible : Panels \cup {NoPanel}]

(* The lists agree, though the view may not show any of its panels yet.    *)
Matched(t) == t \in TabViews /\ t.cards = t.tabs /\ Distinct(t.tabs)

Shows(t) ==
    /\ t.visible = t.front
    /\ t.front = NoPanel <=> t.tabs = <<>>
    /\ t.front # NoPanel => Holds(t, t.front)

Sound(t) == Matched(t) /\ Shows(t)

LEMMA MatchedFact ==
    ASSUME NEW t, Matched(t)
    PROVE  /\ t.tabs \in Seq(Panels) /\ t.cards = t.tabs /\ Distinct(t.tabs)
           /\ t.front \in Panels \cup {NoPanel}
           /\ t.visible \in Panels \cup {NoPanel}
           /\ t = [tabs |-> t.tabs, cards |-> t.cards, front |-> t.front,
                   visible |-> t.visible]
  BY DEF Matched, TabViews

(* A panel is at the position it is found at.                              *)
LEMMA PosFact ==
    ASSUME NEW t, NEW p, Holds(t, p)
    PROVE  /\ PosOf(t.tabs, p) \in 1 .. Len(t.tabs)
           /\ t.tabs[PosOf(t.tabs, p)] = p
  BY DEF PosOf, Holds

LEMMA HeldFact ==
    ASSUME NEW t, Matched(t), NEW p, Holds(t, p)
    PROVE  p \in Panels /\ p # NoPanel /\ t.tabs # <<>>
  <1>1. PICK i \in 1 .. Len(t.tabs) : t.tabs[i] = p
    BY DEF Holds
  <1>2. p \in Panels
    BY <1>1, MatchedFact
  <1>3. t.tabs # <<>>
    BY <1>1
  <1>4. QED
    BY <1>2, <1>3, PanelTabsAssumption DEF Panels

(* Selecting a tab brings it to the front and shows its card.              *)
LEMMA SelectFact ==
    ASSUME NEW t, Matched(t), NEW p, Holds(t, p)
    PROVE  /\ Sound(Select(t, p))
           /\ Select(t, p).tabs = t.tabs
           /\ Select(t, p).front = p
           /\ \A q : Holds(Select(t, p), q) <=> Holds(t, q)
  <1>1. PICK u : u = Select(t, p)
    OBVIOUS
  <1>2. t.cards[PosOf(t.tabs, p)] = p
    BY PosFact, MatchedFact
  <1>3. u = [tabs |-> t.tabs, cards |-> t.cards, front |-> p, visible |-> p]
    BY <1>1, <1>2 DEF Select, Matched, TabViews
  <1>4. u.tabs = t.tabs /\ u.cards = t.tabs /\ u.front = p /\ u.visible = p
    BY <1>3, MatchedFact
  <1>5. Matched(u)
    BY <1>3, <1>4, MatchedFact, HeldFact DEF Matched, TabViews
  <1>6. \A q : Holds(u, q) <=> Holds(t, q)
    BY <1>4 DEF Holds
  <1>7. Shows(u)
    BY <1>4, <1>6, HeldFact DEF Shows
  <1>8. QED
    BY <1>1, <1>4, <1>5, <1>6, <1>7 DEF Sound

LEMMA EmptyViewFact == Sound(EmptyView) /\ \A p : ~Holds(EmptyView, p)
  <1>1. /\ EmptyView.tabs = <<>> /\ EmptyView.cards = <<>>
        /\ EmptyView.front = NoPanel /\ EmptyView.visible = NoPanel
    BY DEF EmptyView
  <1>2. EmptyView \in TabViews
    BY DEF EmptyView, TabViews
  <1>3. \A i : i \notin 1 .. Len(<<>>)
    OBVIOUS
  <1>4. Matched(EmptyView)
    BY <1>1, <1>2, <1>3 DEF Matched, Distinct
  <1>5. \A p : ~Holds(EmptyView, p)
    BY <1>1, <1>3 DEF Holds
  <1>6. QED
    BY <1>1, <1>4, <1>5 DEF Sound, Shows

(* AddTab keeps tabs and cards matched, and the panels that were there at  *)
(* their places if the new one comes last.                                 *)
LEMMA AddTabFact ==
    ASSUME NEW t, Sound(t), NEW p \in Panels, ~Holds(t, p), NEW index \in Nat
    PROVE  /\ Sound(AddTab(t, p, p, index))
           /\ \A q : Holds(AddTab(t, p, p, index), q) <=> Holds(t, q) \/ q = p
           /\ index = 0 \/ index > Len(t.tabs) =>
                  \A i \in 1 .. Len(t.tabs) :
                      /\ i \in 1 .. Len(AddTab(t, p, p, index).tabs)
                      /\ AddTab(t, p, p, index).tabs[i] = t.tabs[i]
  <1>1. PICK n : n = Len(t.tabs)
    OBVIOUS
  <1>2. Matched(t) /\ Shows(t) /\ t.tabs \in Seq(Panels) /\ n \in Nat /\ t \in TabViews
    BY <1>1, MatchedFact DEF Sound, Matched
  <1>3. PICK at : at = IF index = 0 \/ index > n + 1 THEN n + 1 ELSE index
    OBVIOUS
  <1>a. at \in 1 .. n + 1 /\ at \in Int
    BY <1>2, <1>3
  <1>b. PICK s : s = InsertAt(t.tabs, at, p)
    OBVIOUS
  <1>4. PICK t1 : t1 = [t EXCEPT !.cards = s, !.tabs = s]
    OBVIOUS
  <1>5. AddTab(t, p, p, index) = IF n = 0 THEN Select(t1, p) ELSE t1
    <2>1. t.cards = t.tabs
      BY <1>2, MatchedFact
    <2>2. t1 = [t EXCEPT !.cards = InsertAt(@, at, p), !.tabs = InsertAt(@, at, p)]
      BY <1>b, <1>4, <2>1
    <2>3. QED
      BY <1>1, <1>3, <2>2, Zenon DEF AddTab
  <1>6. /\ t1 = [tabs |-> s, cards |-> s, front |-> t.front, visible |-> t.visible]
        /\ t1.tabs = s /\ t1.cards = s
        /\ t1.front = t.front /\ t1.visible = t.visible
    BY <1>2, <1>4 DEF TabViews
  <1>7. at \in 1 .. Len(t.tabs) + 1 /\ Distinct(t.tabs) /\ ~Within(t.tabs, p)
    BY <1>1, <1>2, <1>a, MatchedFact DEF Within, Holds
  <1>8. /\ s \in Seq(Panels) /\ Len(s) = n + 1
        /\ \A j \in 1 .. n + 1 :
               s[j] = IF j < at THEN t.tabs[j] ELSE IF j = at THEN p ELSE t.tabs[j - 1]
    <2>1. PICK r : r = t.tabs
      OBVIOUS
    <2>2. r \in Seq(Panels) /\ at \in 1 .. Len(r) + 1 /\ p \in Panels
      BY <1>2, <1>7, <2>1
    <2>3. InsertAt(r, at, p) \in Seq(Panels) /\ Inserted(r, at, p, InsertAt(r, at, p))
      BY <2>2, InsertPanels, Zenon
    <2>a. InsertAt(r, at, p) = s /\ Len(r) = n
      BY <1>1, <1>b, <2>1, Zenon
    <2>b. s \in Seq(Panels) /\ Inserted(r, at, p, s)
      BY <2>3, <2>a, Zenon
    <2>4. QED
      BY <2>1, <2>a, <2>b, Zenon DEF Inserted
  <1>9. Distinct(s) /\ \A q : Within(s, q) <=> Within(t.tabs, q) \/ q = p
    BY <1>2, <1>7, <1>b, InsertDistinct
  <1>10. Matched(t1)
    BY <1>2, <1>6, <1>8, <1>9, MatchedFact DEF Matched, TabViews
  <1>11. \A q : Holds(t1, q) <=> Holds(t, q) \/ q = p
    BY <1>6, <1>9 DEF Holds, Within
  <1>12. Sound(AddTab(t, p, p, index))
    <2>1. CASE n = 0
      BY <1>5, <1>10, <1>11, <2>1, SelectFact
    <2>2. CASE n # 0
      <3>1. t.tabs # <<>> /\ s # <<>>
        BY <1>1, <1>2, <1>8, <2>2
      <3>2. Shows(t1)
        BY <1>1, <1>2, <1>6, <1>11, <3>1 DEF Shows
      <3>3. QED
        BY <1>5, <1>10, <2>2, <3>2 DEF Sound
    <2>3. QED
      BY <2>1, <2>2
  <1>13. /\ AddTab(t, p, p, index).tabs = s
         /\ \A q : Holds(AddTab(t, p, p, index), q) <=> Holds(t, q) \/ q = p
    BY <1>5, <1>6, <1>10, <1>11, SelectFact
  <1>14. ASSUME index = 0 \/ index > n, NEW i \in 1 .. n
         PROVE  i \in 1 .. Len(s) /\ s[i] = t.tabs[i]
    <2>1. at = n + 1
      BY <1>1, <1>2, <1>3, <1>14
    <2>2. QED
      BY <1>1, <1>2, <1>8, <2>1
  <1>15. QED
    BY <1>1, <1>12, <1>13, <1>14

(* Taking the panel p out of a view, card and tab, leaves the others.      *)
LEMMA TakeFact ==
    ASSUME NEW t, Sound(t), NEW p, Holds(t, p)
    PROVE  LET M == RemoveTab(RemoveCard(t, PosOf(t.tabs, p)), p)
           IN  /\ Sound(M)
               /\ \A q : Holds(M, q) <=> Holds(t, q) /\ q # p
  <1>1. PICK at : at = PosOf(t.tabs, p)
    OBVIOUS
  <1>2. PICK rest : rest = RemoveAt(t.tabs, at)
    OBVIOUS
  <1>3. PICK r : r = t.tabs
    OBVIOUS
  <1>4. /\ Matched(t) /\ Shows(t) /\ t \in TabViews
        /\ r \in Seq(Panels) /\ t.cards = r /\ Distinct(r)
    BY <1>3, MatchedFact DEF Sound, Matched
  <1>5. at \in 1 .. Len(r) /\ r[at] = p
    BY <1>1, <1>3, PosFact
  <1>6. /\ rest \in Seq(Panels) /\ Len(rest) = Len(r) - 1
        /\ Distinct(rest) /\ \A q : Within(rest, q) <=> Within(r, q) /\ q # p
    <2>1. rest = RemoveAt(r, at)
      BY <1>2, <1>3
    <2>2. rest \in Seq(Panels) /\ Len(rest) = Len(r) - 1
      BY <1>4, <1>5, <2>1, RemoveAtFact
    <2>3. Distinct(rest) /\ \A q : Within(rest, q) <=> Within(r, q) /\ q # p
      BY <1>4, <1>5, <2>1, RemoveDistinct
    <2>4. QED
      BY <2>2, <2>3
  <1>7. PICK card : card = IF t.visible = p THEN NoPanel ELSE t.visible
    OBVIOUS
  <1>8. PICK t0 : t0 = RemoveCard(t, at)
    OBVIOUS
  <1>9. t0 = [tabs |-> r, cards |-> rest, front |-> t.front, visible |-> card]
    <2>1. t0 = [t EXCEPT !.cards = rest, !.visible = card]
      BY <1>2, <1>3, <1>4, <1>5, <1>7, <1>8 DEF RemoveCard
    <2>2. t = [tabs |-> r, cards |-> r, front |-> t.front, visible |-> t.visible]
      BY <1>3, <1>4, MatchedFact
    <2>3. PICK f, c : f = t.front /\ c = t.visible
      OBVIOUS
    <2>4. t = [tabs |-> r, cards |-> r, front |-> f, visible |-> c]
      BY <2>2, <2>3
    <2>5. t0 = [tabs |-> r, cards |-> rest, front |-> f, visible |-> card]
      BY <2>1, <2>4
    <2>6. QED
      BY <2>3, <2>5
  <1>10. /\ t0.tabs = r /\ t0.cards = rest /\ t0.front = t.front
         /\ t0.visible = card
    BY <1>9
  <1>11. PICK t1 : t1 = [t0 EXCEPT !.tabs = rest]
    OBVIOUS
  <1>12. /\ t1 = [tabs |-> rest, cards |-> rest, front |-> t.front, visible |-> card]
         /\ t1.tabs = rest /\ t1.cards = rest /\ t1.front = t.front
         /\ t1.visible = card
    BY <1>9, <1>11
  <1>13. card \in Panels \cup {NoPanel} /\ t.front \in Panels \cup {NoPanel}
    BY <1>4, <1>7, MatchedFact
  <1>14. Matched(t1)
    BY <1>6, <1>12, <1>13 DEF Matched, TabViews
  <1>15. \A q : Holds(t1, q) <=> Holds(t, q) /\ q # p
    BY <1>3, <1>6, <1>12 DEF Holds, Within
  <1>16. PICK next : next = rest[IF at > Len(rest) THEN Len(rest) ELSE at]
    OBVIOUS
  <1>17. RemoveTab(t0, p) =
            IF t.front # p THEN t1
            ELSE IF rest = <<>> THEN [t1 EXCEPT !.front = NoPanel]
            ELSE Select(t1, next)
    <2>1. PosOf(t0.tabs, p) = at
      BY <1>1, <1>3, <1>10
    <2>2. RemoveAt(t0.tabs, at) = rest
      BY <1>2, <1>3, <1>10
    <2>3. QED
      BY <1>10, <1>11, <1>16, <2>1, <2>2, Zenon DEF RemoveTab
  <1>18. Sound(RemoveTab(t0, p)) /\ \A q : Holds(RemoveTab(t0, p), q) <=> Holds(t1, q)
    <2>1. CASE t.front # p
      <3>1. RemoveTab(t0, p) = t1
        BY <1>17, <2>1
      <3>2. card = t.front
        BY <1>4, <1>7, <2>1 DEF Shows
      <3>3. rest = <<>> => t.front = NoPanel
        <4>1. ASSUME t.front # NoPanel
              PROVE  Within(rest, t.front)
          BY <1>3, <1>4, <1>6, <2>1, <4>1 DEF Shows, Holds, Within
        <4>2. rest = <<>> => ~Within(rest, t.front)
          BY DEF Within
        <4>3. QED
          BY <4>1, <4>2
      <3>4. t.front = NoPanel => rest = <<>>
        <4>1. t.front = NoPanel => r = <<>>
          BY <1>3, <1>4 DEF Shows
        <4>2. r # <<>>
          BY <1>4, <1>5
        <4>3. QED
          BY <4>1, <4>2
      <3>5. t.front # NoPanel => Holds(t1, t.front)
        BY <1>4, <1>15, <2>1 DEF Shows
      <3>6. Shows(t1)
        BY <1>12, <3>2, <3>3, <3>4, <3>5 DEF Shows
      <3>7. QED
        BY <1>14, <3>1, <3>6 DEF Sound
    <2>2. CASE t.front = p /\ rest = <<>>
      <3>1. PICK u : u = [t1 EXCEPT !.front = NoPanel]
        OBVIOUS
      <3>2. /\ u = [tabs |-> rest, cards |-> rest, front |-> NoPanel, visible |-> card]
            /\ u.tabs = rest /\ u.cards = rest /\ u.front = NoPanel
            /\ u.visible = card
        BY <1>12, <3>1
      <3>3. card = NoPanel
        BY <1>4, <1>7, <2>2 DEF Shows
      <3>4. Matched(u)
        BY <1>6, <1>13, <3>2 DEF Matched, TabViews
      <3>5. Shows(u)
        BY <2>2, <3>2, <3>3 DEF Shows
      <3>6. \A q : Holds(u, q) <=> Holds(t1, q)
        BY <1>12, <3>2 DEF Holds
      <3>7. RemoveTab(t0, p) = u
        BY <1>17, <2>2, <3>1
      <3>8. QED
        BY <3>4, <3>5, <3>6, <3>7 DEF Sound
    <2>3. CASE t.front = p /\ rest # <<>>
      <3>1. RemoveTab(t0, p) = Select(t1, next)
        BY <1>17, <2>3
      <3>2. Len(rest) \in Nat \ {0}
        BY <1>6, <2>3, EmptySeq
      <3>3. (IF at > Len(rest) THEN Len(rest) ELSE at) \in 1 .. Len(rest)
        BY <1>5, <3>2
      <3>4. Holds(t1, next)
        BY <1>12, <1>16, <3>3 DEF Holds
      <3>5. QED
        BY <1>14, <3>1, <3>4, SelectFact
    <2>4. QED
      BY <2>1, <2>2, <2>3
  <1>19. QED
    BY <1>1, <1>8, <1>15, <1>18

-----------------------------------------------------------------------------
(* A layout.                                                               *)

(* Every view is sound and no panel is in two of them.                     *)
Apart(L) ==
    /\ L \in [Views -> TabViews]
    /\ \A v \in Views : Sound(L[v])
    /\ \A p : \A v, w \in Views : HasTab(L, v, p) /\ HasTab(L, w, p) => v = w

(* ... and every panel is in one.                                          *)
Everyone(L) == \A p \in Panels : \E v \in Views : HasTab(L, v, p)

(* The tabs of the view w keep their positions.                            *)
KeepPlaces(L, M, w) ==
    \A i \in 1 .. Len(L[w].tabs) :
        i \in 1 .. Len(M[w].tabs) /\ M[w].tabs[i] = L[w].tabs[i]

LEMMA HolderFact ==
    ASSUME NEW L, Apart(L), NEW v \in Views, NEW p, HasTab(L, v, p)
    PROVE  HolderOf(L, p) = v
  <1>1. HolderOf(L, p) \in Views /\ HasTab(L, HolderOf(L, p), p)
    BY DEF HolderOf
  <1>2. QED
    BY <1>1 DEF Apart

LEMMA HolderHas ==
    ASSUME NEW L, Everyone(L), NEW p \in Panels
    PROVE  HolderOf(L, p) \in Views /\ HasTab(L, HolderOf(L, p), p)
  BY DEF HolderOf, Everyone

(* The view t has no panel that is in a view of the layout besides v.      *)
FitsAt(L, v, t) == \A q : Holds(t, q) => \A w \in Views \ {v} : ~HasTab(L, w, q)

(* Changing one view of a layout.                                          *)
LEMMA OneViewFact ==
    ASSUME NEW L, Apart(L), NEW v \in Views, NEW t, Sound(t), FitsAt(L, v, t)
    PROVE  Apart([L EXCEPT ![v] = t])
  <1>1. PICK M : M = [L EXCEPT ![v] = t]
    OBVIOUS
  <1>2. L \in [Views -> TabViews] /\ t \in TabViews
    BY DEF Apart, Sound, Matched
  <1>3. M[v] = t /\ \A w \in Views \ {v} : M[w] = L[w]
    BY <1>1, <1>2
  <1>4. M \in [Views -> TabViews]
    BY <1>1, <1>2
  <1>5. \A w \in Views : Sound(M[w])
    BY <1>3 DEF Apart
  <1>6. ASSUME NEW p, NEW u \in Views, NEW w \in Views, HasTab(M, u, p), HasTab(M, w, p)
        PROVE  u = w
    BY <1>3, <1>6 DEF Apart, HasTab, FitsAt
  <1>7. QED
    BY <1>1, <1>4, <1>5, <1>6 DEF Apart

(* Selecting a panel in the view that has it.                              *)
LEMMA SelectInFact ==
    ASSUME NEW L, Apart(L), NEW v \in Views, NEW p, HasTab(L, v, p)
    PROVE  LET M == [L EXCEPT ![v] = Select(@, p)]
           IN  /\ Apart(M)
               /\ M[v].front = p
               /\ \A w \in Views : \A q : HasTab(M, w, q) <=> HasTab(L, w, q)
               /\ \A w \in Views : M[w].tabs = L[w].tabs
  <1>1. PICK t : t = Select(L[v], p)
    OBVIOUS
  <1>2. /\ Sound(t) /\ t.tabs = L[v].tabs /\ t.front = p
        /\ \A q : Holds(t, q) <=> HasTab(L, v, q)
    BY <1>1, SelectFact DEF HasTab, Apart, Sound
  <1>3. FitsAt(L, v, t)
    BY <1>2 DEF Apart, FitsAt
  <1>4. PICK M : M = [L EXCEPT ![v] = t]
    OBVIOUS
  <1>5. Apart(M) /\ M[v] = t /\ \A w \in Views \ {v} : M[w] = L[w]
    <2>1. Sound(t)
      BY <1>2
    <2>2. Apart(M)
      BY <1>3, <1>4, <2>1, OneViewFact
    <2>3. L \in [Views -> TabViews]
      BY DEF Apart
    <2>4. QED
      BY <1>4, <2>2, <2>3
  <1>6. \A w \in Views : M[w].tabs = L[w].tabs
    BY <1>2, <1>5
  <1>7. \A w \in Views : \A q : HasTab(M, w, q) <=> HasTab(L, w, q)
    BY <1>6 DEF HasTab, Holds
  <1>8. QED
    BY <1>1, <1>2, <1>4, <1>5, <1>6, <1>7

(* A given panel is in front of the view it is given to; no other changes  *)
(* its view, and if it comes last none changes its place but where it left.*)
LEMMA GiveFact ==
    ASSUME NEW L, Apart(L), NEW from \in Views, NEW to \in Views,
           NEW p, HasTab(L, from, p), NEW toIndex \in Nat
    PROVE  LET M == Give(L, from, to, p, toIndex)
           IN  /\ Apart(M)
               /\ M[to].front = p
               /\ \A w \in Views : \A q :
                      HasTab(M, w, q) <=> IF q = p THEN w = to ELSE HasTab(L, w, q)
               /\ toIndex > Len(L[to].tabs) =>
                      \A w \in Views \ {from} : KeepPlaces(L, M, w)
  <1>1. PICK at : at = PosOf(L[from].tabs, p)
    OBVIOUS
  <1>2. /\ Sound(L[from]) /\ Holds(L[from], p) /\ p \in Panels
        /\ L[from].cards[at] = p
    <2>1. Sound(L[from]) /\ Holds(L[from], p)
      BY DEF Apart, HasTab
    <2>2. L[from].tabs[at] = p
      BY <1>1, <2>1, PosFact
    <2>3. QED
      BY <2>1, <2>2, HeldFact, MatchedFact DEF Sound
  <1>3. PICK t : t = RemoveTab(RemoveCard(L[from], at), p)
    OBVIOUS
  <1>4. Sound(t) /\ \A q : Holds(t, q) <=> HasTab(L, from, q) /\ q # p
    BY <1>1, <1>2, <1>3, TakeFact DEF HasTab
  <1>5. PICK L1 : L1 = [L EXCEPT ![from] = t]
    OBVIOUS
  <1>6. Apart(L1) /\ L1[from] = t /\ \A w \in Views \ {from} : L1[w] = L[w]
    <2>1. FitsAt(L, from, t)
      BY <1>4 DEF Apart, FitsAt
    <2>2. Apart(L1)
      BY <1>4, <1>5, <2>1, OneViewFact
    <2>3. L \in [Views -> TabViews]
      BY DEF Apart
    <2>4. QED
      BY <1>5, <2>2, <2>3
  <1>7. \A w \in Views : \A q : HasTab(L1, w, q) <=> HasTab(L, w, q) /\ q # p
    <2>1. \A w \in Views \ {from} : ~HasTab(L, w, p)
      BY DEF Apart
    <2>2. QED
      BY <1>4, <1>6, <2>1 DEF HasTab
  <1>8. PICK u : u = AddTab(L1[to], p, p, toIndex)
    OBVIOUS
  <1>9. Sound(L1[to]) /\ ~Holds(L1[to], p)
    BY <1>6, <1>7 DEF Apart, HasTab
  <1>10. /\ Sound(u)
         /\ \A q : Holds(u, q) <=> Holds(L1[to], q) \/ q = p
         /\ toIndex > Len(L1[to].tabs) =>
                \A i \in 1 .. Len(L1[to].tabs) :
                    i \in 1 .. Len(u.tabs) /\ u.tabs[i] = L1[to].tabs[i]
    BY <1>2, <1>8, <1>9, AddTabFact
  <1>11. PICK s : s = Select(u, p)
    OBVIOUS
  <1>12. /\ Sound(s) /\ s.tabs = u.tabs /\ s.front = p
         /\ \A q : Holds(s, q) <=> HasTab(L1, to, q) \/ q = p
    BY <1>10, <1>11, SelectFact DEF HasTab, Sound
  <1>13. PICK M : M = [L1 EXCEPT ![to] = s]
    OBVIOUS
  <1>14. Apart(M) /\ M[to] = s /\ \A w \in Views \ {to} : M[w] = L1[w]
    <2>1. FitsAt(L1, to, s)
      BY <1>6, <1>7, <1>12 DEF Apart, FitsAt
    <2>2. Apart(M)
      BY <1>6, <1>12, <1>13, <2>1, OneViewFact
    <2>3. L1 \in [Views -> TabViews]
      BY <1>6 DEF Apart
    <2>4. QED
      BY <1>13, <2>2, <2>3
  <1>15. Give(L, from, to, p, toIndex) = M
    BY <1>1, <1>2, <1>3, <1>5, <1>8, <1>11, <1>13, Zenon DEF Give
  <1>16. ASSUME NEW w \in Views, NEW q
         PROVE  HasTab(M, w, q) <=> IF q = p THEN w = to ELSE HasTab(L, w, q)
    <2>1. CASE w = to
      BY <1>7, <1>12, <1>14, <2>1 DEF HasTab
    <2>2. CASE w # to
      <3>1. HasTab(M, w, q) <=> HasTab(L1, w, q)
        BY <1>14, <2>2 DEF HasTab
      <3>2. QED
        BY <1>7, <2>2, <3>1
    <2>3. QED
      BY <2>1, <2>2
  <1>17. ASSUME toIndex > Len(L[to].tabs), NEW w \in Views \ {from}
         PROVE  KeepPlaces(L, M, w)
    <2>1. CASE w = to
      BY <1>6, <1>10, <1>12, <1>14, <1>17, <2>1 DEF KeepPlaces
    <2>2. CASE w # to
      BY <1>6, <1>14, <2>2 DEF KeepPlaces
    <2>3. QED
      BY <2>1, <2>2
  <1>18. QED
    BY <1>12, <1>14, <1>15, <1>16, <1>17

LEMMA MoveFact ==
    ASSUME NEW L, Apart(L), NEW from \in Views, NEW to \in Views,
           NEW p, HasTab(L, from, p),
           NEW toTab, toTab = NoPanel \/ HasTab(L, to, toTab)
    PROVE  LET M == MoveTabs(L, from, to, p, toTab)
           IN  /\ Apart(M)
               /\ M[to].front = p
               /\ \A w \in Views : \A q :
                      HasTab(M, w, q) <=> IF q = p THEN w = to ELSE HasTab(L, w, q)
               /\ toTab = NoPanel /\ from # to =>
                      \A w \in Views \ {from} : KeepPlaces(L, M, w)
  <1>1. PICK n : n = Len(L[to].tabs)
    OBVIOUS
  <1>2. n \in Nat
    <2>1. L[to].tabs \in Seq(Panels)
      BY MatchedFact DEF Apart, Sound
    <2>2. QED
      BY <1>1, <2>1, LenProperties
  <1>3. PICK index : index = IF toTab # NoPanel THEN PosOf(L[to].tabs, toTab)
                             ELSE IF from = to THEN n ELSE n + 1
    OBVIOUS
  <1>4. MoveTabs(L, from, to, p, toTab) = Give(L, from, to, p, index)
    BY <1>1, <1>3, Zenon DEF MoveTabs
  <1>5. index \in Nat
    <2>1. CASE toTab # NoPanel
      <3>1. PosOf(L[to].tabs, toTab) \in 1 .. n
        BY <1>1, <2>1, PosFact DEF HasTab
      <3>2. QED
        BY <1>2, <1>3, <2>1, <3>1
    <2>2. CASE toTab = NoPanel
      BY <1>2, <1>3, <2>2
    <2>3. QED
      BY <2>1, <2>2
  <1>6. toTab = NoPanel /\ from # to => index > n
    BY <1>2, <1>3
  <1>7. QED
    BY <1>1, <1>4, <1>5, <1>6, GiveFact

-----------------------------------------------------------------------------
(* Loading the settings.                                                   *)

LEMMA PanelsFact ==
    /\ Len(AddOrder) \in Nat
    /\ \A i \in 1 .. Len(AddOrder) : AddOrder[i] \in Panels
    /\ \A q \in Panels : \E i \in 1 .. Len(AddOrder) : AddOrder[i] = q
    /\ \A i, j \in 1 .. Len(AddOrder) : AddOrder[i] = AddOrder[j] => i = j
    /\ \A q \in Panels : DefaultGroup[q] \in Groups
  <1>1. PICK n : n = Len(AddOrder)
    OBVIOUS
  <1>2. n \in Nat /\ DOMAIN AddOrder = 1 .. n
    BY <1>1, PanelTabsAssumption, LenProperties
  <1>3. Panels = {AddOrder[i] : i \in 1 .. n}
    BY <1>2 DEF Panels, ToSet
  <1>4. \A i, j \in 1 .. n : AddOrder[i] = AddOrder[j] => i = j
    BY <1>2, PanelTabsAssumption DEF IsInjective
  <1>5. \A q \in Panels : DefaultGroup[q] \in Groups
    BY PanelTabsAssumption DEF Panels
  <1>6. QED
    BY <1>1, <1>2, <1>3, <1>4, <1>5

(* The recursion that loads the panels has a value at every step.          *)
LEMMA LoadSteps ==
    ASSUME NEW saved
    PROVE  \E f : /\ f[0] = NoTabs
                  /\ \A n \in 1 .. Len(AddOrder) :
                         f[n] = AddPanelByConfig(saved, f[n - 1], AddOrder[n])
                  /\ InitTabViews(saved) = f[Len(AddOrder)]
  <1>1. PICK N : N = Len(AddOrder)
    OBVIOUS
  <1>2. N \in Nat
    BY <1>1, PanelsFact
  <1> DEFINE One(L, n) == AddPanelByConfig(saved, L, AddOrder[n])
             Body(k, f) == [n \in 0 .. k |-> IF n = 0 THEN NoTabs ELSE One(f[n - 1], n)]
             S == {k \in Nat : \E f : f = Body(k, f)}
  <1>3. InitTabViews(saved) = (CHOOSE f : f = Body(N, f))[N]
    BY <1>1 DEF InitTabViews
  <1> HIDE DEF One
  <1>4. 0 \in S
    <2>1. PICK f : f = [n \in 0 .. 0 |-> NoTabs]
      OBVIOUS
    <2>2. f = Body(0, f)
      BY <2>1
    <2>3. QED
      BY <2>2
  <1>5. ASSUME NEW k \in Nat, k \in S
        PROVE  k + 1 \in S
    <2>1. PICK f : f = Body(k, f)
      BY <1>5
    <2>2. PICK last : last = One(f[k], k + 1)
      OBVIOUS
    <2>3. PICK g : g = [n \in 0 .. k + 1 |-> IF n = k + 1 THEN last ELSE f[n]]
      OBVIOUS
    <2>4. ASSUME NEW n \in 0 .. k + 1
          PROVE  g[n] = IF n = 0 THEN NoTabs ELSE One(g[n - 1], n)
      <3>1. CASE n = k + 1
        <4>1. n # 0 /\ n - 1 = k /\ k \in 0 .. k + 1 /\ k # k + 1
          BY <3>1
        <4>2. g[n] = last /\ g[n - 1] = f[k]
          BY <2>3, <3>1, <4>1
        <4>3. QED
          BY <2>2, <3>1, <4>1, <4>2
      <3>2. CASE n # k + 1 /\ n # 0
        <4>1. n \in 0 .. k /\ n - 1 \in 0 .. k + 1 /\ n - 1 # k + 1
          BY <3>2
        <4>2. g[n] = f[n] /\ g[n - 1] = f[n - 1]
          BY <2>3, <3>2, <4>1
        <4>3. f[n] = One(f[n - 1], n)
          BY <2>1, <3>2, <4>1
        <4>4. QED
          BY <3>2, <4>2, <4>3
      <3>3. CASE n # k + 1 /\ n = 0
        <4>1. f[0] = NoTabs
          BY <2>1
        <4>2. QED
          BY <2>3, <3>3, <4>1
      <3>4. QED
        BY <3>1, <3>2, <3>3
    <2>5. g = Body(k + 1, g)
      BY <2>3, <2>4
    <2>6. QED
      BY <2>5
  <1>6. N \in S
    <2> HIDE DEF S
    <2>1. \A k \in Nat : k \in S
      BY <1>4, <1>5, NatInduct
    <2>2. QED
      BY <1>2, <2>1
  <1>7. PICK f : f = Body(N, f) /\ InitTabViews(saved) = f[N]
    BY <1>3, <1>6
  <1>8. f[0] = NoTabs
    BY <1>2, <1>7
  <1>9. \A n \in 1 .. N : f[n] = One(f[n - 1], n)
    BY <1>2, <1>7
  <1>10. QED
    BY <1>1, <1>7, <1>8, <1>9 DEF One

(* Where the settings put a panel.                                         *)
Home(saved, q) ==
    IF \A w \in Views : ~HasTab(saved, w, q) THEN DefaultGroup[q]
    ELSE HolderOf(saved, q)

LEMMA HomeFact ==
    ASSUME NEW saved, NEW q \in Panels
    PROVE  Home(saved, q) \in Views
  BY PanelsFact DEF Home, HolderOf, Views

LEMMA NoTabsFact ==
    Apart(NoTabs) /\ \A v \in Views : \A q : ~HasTab(NoTabs, v, q)
  <1>1. \A v \in Views : NoTabs[v] = EmptyView
    BY DEF NoTabs
  <1>2. EmptyView \in TabViews
    BY EmptyViewFact DEF Sound, Matched
  <1>3. NoTabs \in [Views -> TabViews]
    BY <1>2 DEF NoTabs
  <1>4. QED
    BY <1>1, <1>3, EmptyViewFact DEF Apart, HasTab

(* Loading one panel adds it to the view the settings put it in.           *)
LEMMA AddPanelFact ==
    ASSUME NEW saved, Apart(saved), NEW L, Apart(L),
           NEW p \in Panels, \A v \in Views : ~HasTab(L, v, p)
    PROVE  LET M == AddPanelByConfig(saved, L, p)
           IN  /\ Apart(M)
               /\ \A v \in Views : \A q :
                      HasTab(M, v, q) <=>
                          HasTab(L, v, q) \/ (q = p /\ v = Home(saved, p))
  <1>1. PICK v : v = Home(saved, p)
    OBVIOUS
  <1>2. v \in Views
    BY <1>1, HomeFact
  <1>3. Sound(L[v]) /\ ~Holds(L[v], p)
    BY <1>2 DEF Apart, HasTab
  <1>4. SUFFICES ASSUME NEW u, Sound(u),
                        \A q : Holds(u, q) <=> Holds(L[v], q) \/ q = p,
                        AddPanelByConfig(saved, L, p) = [L EXCEPT ![v] = u]
                 PROVE  LET M == AddPanelByConfig(saved, L, p)
                        IN  /\ Apart(M)
                            /\ \A w \in Views : \A q :
                                   HasTab(M, w, q) <=>
                                       HasTab(L, w, q) \/ (q = p /\ w = v)
    <2>1. CASE \A w \in Views : ~HasTab(saved, w, p)
      <3>1. PICK u : u = AddTab(L[v], p, p, 0)
        OBVIOUS
      <3>2. v = DefaultGroup[p]
        BY <1>1, <2>1 DEF Home
      <3>3. AddPanelByConfig(saved, L, p) = [L EXCEPT ![v] = u]
        BY <2>1, <3>1, <3>2 DEF AddPanelByConfig, AddPanelByDefault
      <3>4. Sound(u) /\ \A q : Holds(u, q) <=> Holds(L[v], q) \/ q = p
        BY <1>3, <3>1, AddTabFact
      <3>5. QED
        BY <1>1, <1>4, <3>3, <3>4
    <2>2. CASE ~\A w \in Views : ~HasTab(saved, w, p)
      <3>1. v = HolderOf(saved, p)
        BY <1>1, <2>2 DEF Home
      <3>2. HasTab(saved, v, p)
        BY <2>2, <3>1 DEF HolderOf
      <3>3. PosOf(saved[v].tabs, p) \in Nat
        <4>1. saved[v].tabs \in Seq(Panels)
          BY <1>2, MatchedFact DEF Apart, Sound
        <4>2. PosOf(saved[v].tabs, p) \in 1 .. Len(saved[v].tabs)
          BY <3>2, PosFact DEF HasTab
        <4>3. QED
          BY <4>1, <4>2, LenProperties
      <3>4. PICK t : t = AddTab(L[v], p, p, PosOf(saved[v].tabs, p))
        OBVIOUS
      <3>5. Sound(t) /\ \A q : Holds(t, q) <=> Holds(L[v], q) \/ q = p
        BY <1>3, <3>3, <3>4, AddTabFact
      <3>6. PICK u : u = IF saved[v].front = p THEN Select(t, p) ELSE t
        OBVIOUS
      <3>7. Sound(u) /\ \A q : Holds(u, q) <=> Holds(L[v], q) \/ q = p
        <4>1. CASE saved[v].front = p
          <5>1. u = Select(t, p) /\ Holds(t, p) /\ Matched(t)
            BY <3>5, <3>6, <4>1 DEF Sound
          <5>2. QED
            BY <3>5, <5>1, SelectFact
        <4>2. CASE saved[v].front # p
          BY <3>5, <3>6, <4>2
        <4>3. QED
          BY <4>1, <4>2
      <3>8. AddPanelByConfig(saved, L, p) = [L EXCEPT ![v] = u]
        BY <2>2, <3>1, <3>4, <3>6, Zenon DEF AddPanelByConfig
      <3>9. QED
        BY <1>1, <1>4, <3>7, <3>8
    <2>3. QED
      BY <2>1, <2>2
  <1>5. PICK M : M = [L EXCEPT ![v] = u]
    OBVIOUS
  <1>6. L \in [Views -> TabViews]
    BY DEF Apart
  <1>7. M[v] = u /\ \A w \in Views \ {v} : M[w] = L[w]
    BY <1>2, <1>5, <1>6
  <1>8. FitsAt(L, v, u)
    BY <1>2, <1>4 DEF FitsAt, HasTab, Apart
  <1>9. Apart(M)
    BY <1>2, <1>4, <1>5, <1>8, OneViewFact
  <1>10. ASSUME NEW w \in Views, NEW q
         PROVE  HasTab(M, w, q) <=> HasTab(L, w, q) \/ (q = p /\ w = v)
    <2>1. CASE w = v
      BY <1>4, <1>7, <2>1 DEF HasTab
    <2>2. CASE w # v
      BY <1>7, <2>2 DEF HasTab
    <2>3. QED
      BY <2>1, <2>2
  <1>11. QED
    BY <1>4, <1>5, <1>9, <1>10

(* Loading puts every panel where the settings put it.                     *)
LEMMA LoadFact ==
    ASSUME NEW saved, Apart(saved)
    PROVE  LET M == InitTabViews(saved)
           IN  /\ Apart(M)
               /\ Everyone(M)
               /\ \A v \in Views : \A q \in Panels :
                      HasTab(M, v, q) <=> v = Home(saved, q)
  <1>1. PICK N : N = Len(AddOrder)
    OBVIOUS
  <1>2. N \in Nat
    BY <1>1, PanelsFact
  <1>3. PICK f : /\ f[0] = NoTabs
                 /\ \A n \in 1 .. N :
                        f[n] = AddPanelByConfig(saved, f[n - 1], AddOrder[n])
                 /\ InitTabViews(saved) = f[N]
    BY <1>1, LoadSteps
  <1> DEFINE Good(n) ==
                 /\ Apart(f[n])
                 /\ \A v \in Views : \A q :
                        HasTab(f[n], v, q) <=>
                            /\ \E k \in 1 .. n : AddOrder[k] = q
                            /\ v = Home(saved, q)
             S == {n \in Nat : n <= N => Good(n)}
  <1>4. 0 \in S
    <2>1. \A k : k \notin 1 .. 0
      OBVIOUS
    <2>2. QED
      BY <1>3, <2>1, NoTabsFact
  <1>5. ASSUME NEW n \in Nat, n \in S
        PROVE  n + 1 \in S
    <2>1. SUFFICES ASSUME n + 1 <= N
                   PROVE  Good(n + 1)
      OBVIOUS
    <2>2. Good(n)
      BY <1>2, <1>5, <2>1
    <2>3. PICK p : p = AddOrder[n + 1]
      OBVIOUS
    <2>4. n + 1 \in 1 .. N /\ (n + 1) - 1 = n
      BY <1>2, <2>1
    <2>5. p \in Panels /\ \A k \in 1 .. n : AddOrder[k] # p
      BY <1>1, <2>3, <2>4, PanelsFact
    <2>6. f[n + 1] = AddPanelByConfig(saved, f[n], p)
      BY <1>3, <2>3, <2>4
    <2>7. \A v \in Views : ~HasTab(f[n], v, p)
      BY <2>2, <2>5
    <2>8. /\ Apart(f[n + 1])
          /\ \A v \in Views : \A q :
                 HasTab(f[n + 1], v, q) <=>
                     HasTab(f[n], v, q) \/ (q = p /\ v = Home(saved, p))
      BY <2>2, <2>5, <2>6, <2>7, AddPanelFact
    <2>9. \A q : (\E k \in 1 .. n + 1 : AddOrder[k] = q) <=>
                     (\E k \in 1 .. n : AddOrder[k] = q) \/ q = p
      BY <2>3
    <2>10. QED
      BY <2>2, <2>8, <2>9
  <1>6. Good(N)
    <2>1. \A n \in Nat : n \in S
      <3> HIDE DEF S
      <3>1. QED
        BY <1>4, <1>5, NatInduct
    <2>2. QED
      BY <1>2, <2>1
  <1>7. PICK M : M = InitTabViews(saved)
    OBVIOUS
  <1>8. \A v \in Views : \A q \in Panels : HasTab(M, v, q) <=> v = Home(saved, q)
    BY <1>1, <1>3, <1>6, <1>7, PanelsFact
  <1>9. Everyone(M)
    BY <1>8, HomeFact DEF Everyone
  <1>10. Apart(M)
    BY <1>3, <1>6, <1>7
  <1>11. QED
    BY <1>7, <1>8, <1>9, <1>10

(* A restart leaves every panel in its view.                               *)
LEMMA ReloadFact ==
    ASSUME NEW saved, Apart(saved), Everyone(saved)
    PROVE  LET M == InitTabViews(saved)
           IN  /\ Apart(M)
               /\ Everyone(M)
               /\ \A v \in Views : \A q \in Panels :
                      HasTab(M, v, q) <=> HasTab(saved, v, q)
  <1>1. \A q \in Panels : Home(saved, q) = HolderOf(saved, q)
    BY DEF Everyone, Home
  <1>2. \A q \in Panels : HasTab(saved, HolderOf(saved, q), q)
                          /\ HolderOf(saved, q) \in Views
    BY HolderHas
  <1>3. \A v \in Views : \A q \in Panels :
            v = Home(saved, q) <=> HasTab(saved, v, q)
    BY <1>1, <1>2 DEF Apart
  <1>4. QED
    BY <1>3, LoadFact

-----------------------------------------------------------------------------
(* The inductive invariant.                                                *)

Items == [view : Views, about : Panels, index : Nat, selected : BOOLEAN]

Messages == [kind : {"Show", "Close"}, view : Views, about : Panels, index : Nat,
             selected : BOOLEAN, fresh : BOOLEAN]

Typed ==
    /\ Apart(layout)
    /\ Everyone(layout)
    /\ shown \in SUBSET Views
    /\ owner \in [Panels -> Groups \cup {NoView}]
    /\ menu \in SUBSET Items
    /\ queue \in Seq(Messages)
    /\ Len(queue) <= MaxQueue
    /\ crashed \in BOOLEAN

(* The tab of x, a menu item or a close, is where the index of x says.     *)
InPlace(L, x) ==
    /\ x.index \in 1 .. Len(L[x.view].tabs)
    /\ L[x.view].tabs[x.index] = x.about

(* A close goes to a group, to the tab it was meant for; a show of a tab   *)
(* that was in front goes to the closed panels' view.                      *)
MessageFits(L, m) ==
    /\ m.kind = "Close" => m.view \in Groups /\ InPlace(L, m)
    /\ m.kind = "Show" /\ m.selected => m.view = Hidden

(* One close at a time waits, and none while the menu is open.             *)
OneClose ==
    /\ menu # {} => \A i \in 1 .. Len(queue) : queue[i].kind # "Close"
    /\ \A i, j \in 1 .. Len(queue) :
           queue[i].kind = "Close" /\ queue[j].kind = "Close" => i = j

IndexesHold ==
    /\ \A x \in menu : x.view \in Groups => InPlace(layout, x)
    /\ \A i \in 1 .. Len(queue) : MessageFits(layout, queue[i])

(* What a fresh message waits behind is about other panels.                *)
FreshAlone ==
    \A i \in 1 .. Len(queue) : \A j \in 1 .. i - 1 :
        queue[i].fresh => queue[j].about # queue[i].about

(* A fresh message to the closed panels' view finds its panel there, and   *)
(* the others do not.                                                      *)
FreshFits ==
    Hidden \notin shown =>
        \A i \in 1 .. Len(queue) :
            queue[i].fresh =>
                (HasTab(layout, Hidden, queue[i].about) <=> queue[i].view = Hidden)

IInv ==
    /\ Typed
    /\ ClosedCanReturn
    /\ OneClose
    /\ IndexesHold
    /\ FreshAlone
    /\ FreshFits

LEMMA TypedFact ==
    ASSUME Typed
    PROVE  /\ Apart(layout) /\ Everyone(layout)
           /\ layout \in [Views -> TabViews]
           /\ \A v \in Views : layout[v].tabs \in Seq(Panels)
           /\ Len(queue) \in Nat
           /\ \A i \in 1 .. Len(queue) : queue[i] \in Messages
  <1>1. Apart(layout) /\ Everyone(layout) /\ queue \in Seq(Messages)
    BY DEF Typed
  <1>2. \A v \in Views : layout[v].tabs \in Seq(Panels)
    BY <1>1, MatchedFact DEF Apart, Sound
  <1>3. \A i \in 1 .. Len(queue) : queue[i] \in Messages
    BY <1>1
  <1>4. QED
    BY <1>1, <1>2, <1>3, LenProperties DEF Apart

(* The rest of the queue, when its first message has been taken.           *)
LEMMA TailFact ==
    ASSUME NEW S, NEW s \in Seq(S), s # <<>>
    PROVE  /\ Tail(s) \in Seq(S)
           /\ Len(s) \in Nat \ {0}
           /\ Len(Tail(s)) = Len(s) - 1
           /\ Head(s) = s[1]
           /\ \A i \in 1 .. Len(s) - 1 :
                  i + 1 \in 2 .. Len(s) /\ Tail(s)[i] = s[i + 1]
  <1>1. /\ Len(s) \in Nat /\ Len(s) >= 1 /\ Tail(s) \in Seq(S)
        /\ Len(Tail(s)) = Len(s) - 1
    BY HeadTailProperties, LenProperties, EmptySeq
  <1>2. \A i \in 1 .. Len(s) - 1 : Tail(s)[i] = s[i + 1]
    BY <1>1, HeadTailProperties
  <1>3. Head(s) = s[1]
    BY HeadTailProperties
  <1>4. QED
    BY <1>1, <1>2, <1>3

LEMMA KeptInPlace ==
    ASSUME NEW L, NEW M, NEW x, KeepPlaces(L, M, x.view), InPlace(L, x)
    PROVE  InPlace(M, x)
  BY DEF KeepPlaces, InPlace

(* A message is sent.                                                      *)
LEMMA SendFact ==
    ASSUME IInv, NEW m \in Messages,
           m.fresh = Fresh(m.view, m.about),
           MessageFits(layout, m),
           m.kind = "Close" => menu' = {} /\ \A i \in 1 .. Len(queue) :
                                                queue[i].kind # "Close",
           Len(queue) < MaxQueue,
           queue' = Append(queue, m),
           menu' \in SUBSET menu,
           shown' \in SUBSET Views, shown \subseteq shown',
           Hidden \in shown' => Hidden \in shown,
           UNCHANGED <<layout, owner, crashed>>
    PROVE  IInv'
  <1>1. PICK n : n = Len(queue)
    OBVIOUS
  <1>2. /\ n \in Nat /\ queue \in Seq(Messages)
        /\ Apart(layout) /\ MaxQueue \in Nat
    BY <1>1, TypedFact, PanelTabsAssumption DEF IInv, Typed
  <1>3. /\ queue' \in Seq(Messages) /\ Len(queue') = n + 1 /\ queue'[n + 1] = m
        /\ \A i \in 1 .. n : queue'[i] = queue[i]
    BY <1>1, <1>2, AppendProperties
  <1>4. Typed'
    BY <1>1, <1>2, <1>3 DEF IInv, Typed
  <1>5. ClosedCanReturn'
    BY DEF IInv, ClosedCanReturn
  <1>6. OneClose'
    <2>1. menu' # {} => \A i \in 1 .. n : queue[i].kind # "Close"
      BY <1>1 DEF IInv, OneClose
    <2>2. menu' # {} => \A i \in 1 .. n + 1 : queue'[i].kind # "Close"
      BY <1>2, <1>3, <2>1
    <2>3. \A i, j \in 1 .. n :
              queue[i].kind = "Close" /\ queue[j].kind = "Close" => i = j
      BY <1>1 DEF IInv, OneClose
    <2>4. \A i, j \in 1 .. n + 1 :
              queue'[i].kind = "Close" /\ queue'[j].kind = "Close" => i = j
      BY <1>1, <1>2, <1>3, <2>3
    <2>5. QED
      BY <1>3, <2>2, <2>4 DEF OneClose
  <1>7. IndexesHold'
    <2>1. \A x \in menu : x.view \in Groups => InPlace(layout, x)
      BY DEF IInv, IndexesHold
    <2>2. \A i \in 1 .. n : MessageFits(layout, queue[i])
      BY <1>1 DEF IInv, IndexesHold
    <2>3. \A i \in 1 .. n + 1 : MessageFits(layout, queue'[i])
      BY <1>2, <1>3, <2>2
    <2>4. QED
      BY <1>3, <2>1, <2>3 DEF IndexesHold
  <1>8. m.fresh => \A i \in 1 .. n : queue[i].about # m.about
    BY <1>1 DEF Fresh
  <1>9. FreshAlone'
    <2>1. \A i \in 1 .. n : \A j \in 1 .. i - 1 :
              queue[i].fresh => queue[j].about # queue[i].about
      BY <1>1 DEF IInv, FreshAlone
    <2>2. ASSUME NEW i \in 1 .. n + 1, NEW j \in 1 .. i - 1, queue'[i].fresh
          PROVE  queue'[j].about # queue'[i].about
      <3>1. j \in 1 .. n
        BY <1>2
      <3>2. CASE i = n + 1
        BY <1>3, <1>8, <2>2, <3>1, <3>2
      <3>3. CASE i # n + 1
        BY <1>2, <1>3, <2>1, <2>2, <3>1, <3>3
      <3>4. QED
        BY <3>2, <3>3
    <2>3. QED
      BY <1>3, <2>2 DEF FreshAlone
  <1>10. FreshFits'
    <2>1. m.fresh => (HasTab(layout, Hidden, m.about) <=> m.view = Hidden)
      <3>1. m.fresh => HasTab(layout, m.view, m.about)
        BY DEF Fresh
      <3>2. m.view \in Views /\ Hidden \in Views
        BY DEF Messages, Views
      <3>3. QED
        BY <1>2, <3>1, <3>2 DEF Apart
    <2>2. Hidden \notin shown =>
              \A i \in 1 .. n :
                  queue[i].fresh =>
                      (HasTab(layout, Hidden, queue[i].about) <=> queue[i].view = Hidden)
      BY <1>1 DEF IInv, FreshFits
    <2>3. QED
      BY <1>2, <1>3, <2>1, <2>2 DEF FreshFits
  <1>11. QED
    BY <1>4, <1>5, <1>6, <1>7, <1>9, <1>10 DEF IInv

(* A message is taken from the queue.                                      *)
LEMMA ReceiveFact ==
    ASSUME IInv, queue # <<>>, queue' = Tail(queue), menu' = menu,
           Apart(layout'), Everyone(layout'),
           shown' \in SUBSET Views,
           owner' \in [Panels -> Groups \cup {NoView}],
           crashed' \in BOOLEAN,
           ClosedCanReturn',
           Head(queue).kind # "Close" =>
               \A w \in Groups : KeepPlaces(layout, layout', w),
           Hidden \notin shown' =>
               /\ Hidden \notin shown
               /\ \A q \in Panels : q # Head(queue).about =>
                      (HasTab(layout', Hidden, q) <=> HasTab(layout, Hidden, q))
    PROVE  IInv'
  <1>1. PICK n, m : n = Len(queue) /\ m = Head(queue)
    OBVIOUS
  <1>2. /\ queue' \in Seq(Messages) /\ n \in Nat \ {0} /\ Len(queue') = n - 1
        /\ m = queue[1]
        /\ \A i \in 1 .. n - 1 : i + 1 \in 2 .. n /\ queue'[i] = queue[i + 1]
    <2>1. queue \in Seq(Messages)
      BY DEF IInv, Typed
    <2>2. QED
      BY <1>1, <2>1, TailFact
  <1>3. /\ n <= MaxQueue /\ MaxQueue \in Nat
        /\ \A i \in 1 .. n : queue[i] \in Messages
    BY <1>1, TypedFact, PanelTabsAssumption DEF IInv, Typed
  <1>4. Typed'
    BY <1>2, <1>3 DEF IInv, Typed
  <1>5. OneClose'
    <2>1. /\ menu # {} => \A i \in 1 .. n : queue[i].kind # "Close"
          /\ \A i, j \in 1 .. n :
                 queue[i].kind = "Close" /\ queue[j].kind = "Close" => i = j
      BY <1>1 DEF IInv, OneClose
    <2>2. menu' # {} => \A i \in 1 .. n - 1 : queue'[i].kind # "Close"
      BY <1>2, <2>1
    <2>3. ASSUME NEW i \in 1 .. n - 1, NEW j \in 1 .. n - 1,
                 queue'[i].kind = "Close", queue'[j].kind = "Close"
          PROVE  i = j
      <3>1. i + 1 = j + 1
        BY <1>2, <2>1, <2>3
      <3>2. QED
        BY <3>1
    <2>4. QED
      BY <1>2, <2>2, <2>3 DEF OneClose
  <1>6. IndexesHold'
    <2>1. /\ \A x \in menu : x.view \in Groups => InPlace(layout, x)
          /\ \A i \in 1 .. n : MessageFits(layout, queue[i])
      BY <1>1 DEF IInv, IndexesHold
    <2>2. CASE m.kind = "Close"
      <3>1. menu = {}
        BY <1>1, <1>2, <2>2 DEF IInv, OneClose
      <3>2. \A i \in 2 .. n : queue[i].kind # "Close"
        BY <1>1, <1>2, <2>2 DEF IInv, OneClose
      <3>3. \A i \in 1 .. n - 1 : MessageFits(layout', queue'[i])
        <4>1. \A i \in 1 .. n - 1 : MessageFits(layout, queue'[i])
                                    /\ queue'[i].kind # "Close"
          BY <1>2, <2>1, <3>2
        <4>2. QED
          BY <4>1 DEF MessageFits
      <3>4. QED
        BY <1>2, <3>1, <3>3 DEF IndexesHold
    <2>3. CASE m.kind # "Close"
      <3>1. \A w \in Groups : KeepPlaces(layout, layout', w)
        BY <1>1, <2>3
      <3>2. \A x \in menu' : x.view \in Groups => InPlace(layout', x)
        BY <2>1, <3>1, KeptInPlace
      <3>3. ASSUME NEW i \in 1 .. n - 1
            PROVE  MessageFits(layout', queue'[i])
        <4>1. MessageFits(layout, queue'[i])
          BY <1>2, <2>1
        <4>2. QED
          BY <3>1, <4>1, KeptInPlace DEF MessageFits
      <3>4. QED
        BY <1>2, <3>2, <3>3 DEF IndexesHold
    <2>4. QED
      BY <2>2, <2>3
  <1>7. \A i \in 1 .. n : \A j \in 1 .. i - 1 :
            queue[i].fresh => queue[j].about # queue[i].about
    BY <1>1 DEF IInv, FreshAlone
  <1>8. FreshAlone'
    <2>1. ASSUME NEW i \in 1 .. n - 1, NEW j \in 1 .. i - 1, queue'[i].fresh
          PROVE  queue'[j].about # queue'[i].about
      <3>1. /\ i + 1 \in 1 .. n /\ j + 1 \in 1 .. (i + 1) - 1 /\ j \in 1 .. n - 1
            /\ queue'[i] = queue[i + 1] /\ queue'[j] = queue[j + 1]
        BY <1>2
      <3>2. QED
        BY <1>7, <2>1, <3>1
    <2>2. QED
      BY <1>2, <2>1 DEF FreshAlone
  <1>9. FreshFits'
    <2>1. ASSUME Hidden \notin shown', NEW i \in 1 .. n - 1, queue'[i].fresh
          PROVE  HasTab(layout', Hidden, queue'[i].about) <=> queue'[i].view = Hidden
      <3>1. /\ i + 1 \in 1 .. n /\ 1 \in 1 .. (i + 1) - 1
            /\ queue'[i] = queue[i + 1]
        BY <1>2
      <3>2. queue'[i].about # m.about
        BY <1>2, <1>7, <2>1, <3>1
      <3>3. queue'[i].about \in Panels
        BY <1>3, <3>1 DEF Messages
      <3>4. HasTab(layout', Hidden, queue'[i].about) <=>
                HasTab(layout, Hidden, queue'[i].about)
        BY <1>1, <2>1, <3>2, <3>3
      <3>5. HasTab(layout, Hidden, queue'[i].about) <=> queue'[i].view = Hidden
        BY <1>1, <2>1, <3>1 DEF IInv, FreshFits
      <3>6. QED
        BY <3>4, <3>5
    <2>2. QED
      BY <1>2, <2>1 DEF FreshFits
  <1>10. QED
    BY <1>4, <1>5, <1>6, <1>8, <1>9 DEF IInv

(* The user moves tabs, with no menu open and no close on its way: the     *)
(* panels among the closed ones change only when these are shown.          *)
LEMMA GestureFact ==
    ASSUME IInv, UserIsFree, Apart(layout'), Everyone(layout'),
           Hidden \notin shown => \A q \in Panels :
               HasTab(layout', Hidden, q) <=> HasTab(layout, Hidden, q),
           UNCHANGED <<shown, owner, menu, queue, crashed>>
    PROVE  IInv'
  <1>1. PICK n : n = Len(queue)
    OBVIOUS
  <1>2. \A i \in 1 .. n : queue[i] \in Messages /\ queue[i].kind # "Close"
    BY <1>1, TypedFact DEF IInv, UserIsFree
  <1>3. Typed'
    BY DEF IInv, Typed
  <1>4. ClosedCanReturn'
    BY DEF IInv, ClosedCanReturn
  <1>5. OneClose' /\ FreshAlone'
    BY DEF IInv, OneClose, FreshAlone
  <1>6. IndexesHold'
    <2>1. \A i \in 1 .. n : MessageFits(layout', queue[i])
      BY <1>1, <1>2 DEF IInv, IndexesHold, MessageFits
    <2>2. QED
      BY <1>1, <2>1 DEF UserIsFree, IndexesHold
  <1>7. FreshFits'
    <2>1. \A i \in 1 .. n : queue[i].about \in Panels
      BY <1>2 DEF Messages
    <2>2. QED
      BY <1>1, <2>1 DEF IInv, FreshFits
  <1>8. QED
    BY <1>3, <1>4, <1>5, <1>6, <1>7 DEF IInv

-----------------------------------------------------------------------------
(* The steps.                                                              *)

LEMMA InitOK == Init => IInv
  <1>1. SUFFICES ASSUME Init
                 PROVE  IInv
    OBVIOUS
  <1>2. layout = InitTabViews(NoTabs) /\ queue = <<>> /\ menu = {}
    BY <1>1 DEF Init
  <1>3. \A q \in Panels : Home(NoTabs, q) \in Groups
    BY NoTabsFact, PanelsFact DEF Home
  <1>4. /\ Apart(layout) /\ Everyone(layout)
        /\ \A v \in Views : \A q \in Panels :
               HasTab(layout, v, q) <=> v = Home(NoTabs, q)
    BY <1>2, NoTabsFact, LoadFact
  <1>5. \A q \in Panels : ~HasTab(layout, Hidden, q)
    BY <1>3, <1>4, PanelTabsAssumption DEF Views
  <1>6. /\ queue \in Seq(Messages) /\ Len(queue) = 0
        /\ \A i : i \notin 1 .. Len(queue)
    BY <1>2
  <1>7. Typed
    <2>1. shown \in SUBSET Views /\ crashed \in BOOLEAN /\ menu \in SUBSET Items
      BY <1>1 DEF Init, Views
    <2>2. owner \in [Panels -> Groups \cup {NoView}]
      BY <1>1 DEF Init
    <2>3. QED
      BY <1>4, <1>6, <2>1, <2>2, PanelTabsAssumption DEF Typed
  <1>8. ClosedCanReturn
    BY <1>5 DEF ClosedCanReturn
  <1>9. OneClose /\ IndexesHold /\ FreshAlone /\ FreshFits
    BY <1>2, <1>6 DEF OneClose, IndexesHold, FreshAlone, FreshFits
  <1>10. QED
    BY <1>7, <1>8, <1>9 DEF IInv

LEMMA MenusBeginningOK ==
    ASSUME IInv, MenusBeginning
    PROVE  IInv'
  <1>1. /\ menu' = MenuItems /\ UserIsFree
        /\ UNCHANGED <<layout, shown, owner, queue, crashed>>
    BY DEF MenusBeginning
  <1>2. ASSUME NEW x \in MenuItems
        PROVE  x \in Items /\ InPlace(layout, x)
    <2>1. PICK v \in Views : \E i \in 1 .. Len(layout[v].tabs) :
              x = [view |-> v, about |-> layout[v].tabs[i], index |-> i,
                   selected |-> layout[v].front = layout[v].tabs[i]]
      BY <1>2 DEF MenuItems
    <2>2. PICK i \in 1 .. Len(layout[v].tabs) :
              x = [view |-> v, about |-> layout[v].tabs[i], index |-> i,
                   selected |-> layout[v].front = layout[v].tabs[i]]
      BY <2>1
    <2>3. PICK r, q, b : /\ r = layout[v].tabs /\ q = r[i]
                         /\ b = (layout[v].front = layout[v].tabs[i])
      OBVIOUS
    <2>4. r \in Seq(Panels) /\ b \in BOOLEAN
      BY <2>3, TypedFact DEF IInv
    <2>5. i \in 1 .. Len(r) /\ i \in Nat /\ q \in Panels
      BY <2>2, <2>3, <2>4
    <2>6. x = [view |-> v, about |-> q, index |-> i, selected |-> b]
      BY <2>2, <2>3
    <2>7. x \in Items
      BY <2>4, <2>5, <2>6 DEF Items
    <2>8. InPlace(layout, x)
      BY <2>3, <2>5, <2>6 DEF InPlace
    <2>9. QED
      BY <2>7, <2>8
  <1>3. Typed'
    BY <1>1, <1>2 DEF IInv, Typed
  <1>4. ClosedCanReturn' /\ FreshAlone' /\ FreshFits'
    BY <1>1 DEF IInv, ClosedCanReturn, FreshAlone, FreshFits
  <1>5. OneClose'
    BY <1>1 DEF IInv, OneClose, UserIsFree
  <1>6. IndexesHold'
    BY <1>1, <1>2 DEF IInv, IndexesHold
  <1>7. QED
    BY <1>3, <1>4, <1>5, <1>6 DEF IInv

LEMMA MenusEndedOK ==
    ASSUME IInv, MenusEnded
    PROVE  IInv'
  <1>1. menu' = {} /\ UNCHANGED <<layout, shown, owner, queue, crashed>>
    BY DEF MenusEnded
  <1>2. Typed'
    BY <1>1 DEF IInv, Typed
  <1>3. ClosedCanReturn' /\ FreshAlone' /\ FreshFits'
    BY <1>1 DEF IInv, ClosedCanReturn, FreshAlone, FreshFits
  <1>4. OneClose' /\ IndexesHold'
    BY <1>1 DEF IInv, OneClose, IndexesHold
  <1>5. QED
    BY <1>2, <1>3, <1>4 DEF IInv

LEMMA ChooseOK ==
    ASSUME IInv, NEW item \in menu, Choose(item)
    PROVE  IInv'
  <1>1. /\ Len(queue) < MaxQueue /\ menu' = {}
        /\ UNCHANGED <<layout, shown, owner, crashed>>
    BY DEF Choose
  <1>2. item \in Items
    BY DEF IInv, Typed
  <1>3. \A i \in 1 .. Len(queue) : queue[i].kind # "Close"
    BY DEF IInv, OneClose
  <1>4. shown \in SUBSET Views
    BY DEF IInv, Typed
  <1>5. \A v, p : Fresh(v, p) \in BOOLEAN
    BY DEF Fresh
  <1>6. CASE item.view = Hidden
    <2>1. PICK m : m = ShowMessage(Hidden, item.about, item.selected)
      OBVIOUS
    <2>2. /\ m.kind = "Show" /\ m.view = Hidden
          /\ m.fresh = Fresh(m.view, m.about)
      BY <2>1 DEF ShowMessage
    <2>3. m \in Messages
      BY <1>2, <1>5, <2>1 DEF ShowMessage, Messages, Items, Views
    <2>4. MessageFits(layout, m)
      BY <2>2 DEF MessageFits
    <2>5. queue' = Append(queue, m)
      BY <1>6, <2>1 DEF Choose
    <2>6. QED
      BY <1>1, <1>4, <2>2, <2>3, <2>4, <2>5, SendFact
  <1>7. CASE item.view # Hidden
    <2>1. PICK m : m = CloseMessage(item.view, item.about, item.index)
      OBVIOUS
    <2>2. /\ m.kind = "Close" /\ m.view = item.view /\ m.about = item.about
          /\ m.index = item.index /\ m.fresh = Fresh(m.view, m.about)
      BY <2>1 DEF CloseMessage
    <2>3. m \in Messages
      BY <1>2, <1>5, <2>1 DEF CloseMessage, Messages, Items
    <2>4. item.view \in Groups
      BY <1>2, <1>7 DEF Items, Views
    <2>5. MessageFits(layout, m)
      <3>1. InPlace(layout, item)
        BY <2>4 DEF IInv, IndexesHold
      <3>2. QED
        BY <2>2, <2>4, <3>1 DEF MessageFits, InPlace
    <2>6. queue' = Append(queue, m)
      BY <1>7, <2>1 DEF Choose
    <2>7. QED
      BY <1>1, <1>3, <1>4, <2>2, <2>3, <2>5, <2>6, SendFact
  <1>8. QED
    BY <1>6, <1>7

LEMMA ShowTabOK ==
    ASSUME IInv, NEW p \in Panels, NEW g \in {{}, {Bottom}}, ShowTab(p, g)
    PROVE  IInv'
  <1>1. PICK v : v = HolderOf(layout, p)
    OBVIOUS
  <1>2. v \in Views
    BY <1>1, HolderHas DEF IInv, Typed
  <1>3. PICK m : m = ShowMessage(v, p, FALSE)
    OBVIOUS
  <1>4. /\ m.kind = "Show" /\ m.selected = FALSE
        /\ m.fresh = Fresh(m.view, m.about)
    BY <1>3 DEF ShowMessage
  <1>5. m \in Messages
    <2>1. Fresh(v, p) \in BOOLEAN
      BY DEF Fresh
    <2>2. QED
      BY <1>2, <1>3, <2>1 DEF ShowMessage, Messages
  <1>6. MessageFits(layout, m)
    BY <1>4 DEF MessageFits
  <1>7. /\ Len(queue) < MaxQueue /\ queue' = Append(queue, m)
        /\ shown' = shown \cup (g \ {Hidden})
        /\ UNCHANGED <<layout, owner, menu, crashed>>
    BY <1>1, <1>3 DEF ShowTab
  <1>8. /\ shown' \in SUBSET Views /\ shown \subseteq shown'
        /\ Hidden \in shown' => Hidden \in shown
    BY <1>7, PanelTabsAssumption DEF IInv, Typed, Views
  <1>9. QED
    BY <1>4, <1>5, <1>6, <1>7, <1>8, SendFact

LEMMA ClickTabOK ==
    ASSUME IInv, NEW v \in Views, NEW p \in Panels, ClickTab(v, p)
    PROVE  IInv'
  <1>1. /\ UserIsFree /\ HasTab(layout, v, p)
        /\ layout' = [layout EXCEPT ![v] = Select(@, p)]
        /\ UNCHANGED <<shown, owner, menu, queue, crashed>>
    BY DEF ClickTab
  <1>2. Apart(layout) /\ Everyone(layout)
    BY DEF IInv, Typed
  <1>3. /\ Apart(layout')
        /\ \A w \in Views : \A q : HasTab(layout', w, q) <=> HasTab(layout, w, q)
    BY <1>1, <1>2, SelectInFact
  <1>4. Everyone(layout')
    BY <1>2, <1>3 DEF Everyone
  <1>5. QED
    BY <1>1, <1>3, <1>4, GestureFact DEF Views

LEMMA DropTabOK ==
    ASSUME IInv, NEW from \in Views, NEW to \in Views, NEW p \in Panels,
           NEW toTab \in Panels \cup {NoPanel}, DropTab(from, to, p, toTab)
    PROVE  IInv'
  <1>1. /\ UserIsFree /\ HasTab(layout, from, p) /\ from \in shown /\ to \in shown
        /\ toTab = NoPanel \/ HasTab(layout, to, toTab)
        /\ layout' = MoveTabs(layout, from, to, p, toTab)
        /\ UNCHANGED <<shown, owner, menu, queue, crashed>>
    BY DEF DropTab
  <1>2. Apart(layout) /\ Everyone(layout)
    BY DEF IInv, Typed
  <1>3. /\ Apart(layout')
        /\ \A w \in Views : \A q :
               HasTab(layout', w, q) <=> IF q = p THEN w = to ELSE HasTab(layout, w, q)
    BY <1>1, <1>2, MoveFact
  <1>4. Everyone(layout')
    BY <1>2, <1>3 DEF Everyone
  <1>5. Hidden \notin shown => \A q \in Panels :
            HasTab(layout', Hidden, q) <=> HasTab(layout, Hidden, q)
    <2>1. SUFFICES ASSUME Hidden \notin shown
                   PROVE  \A q \in Panels :
                              HasTab(layout', Hidden, q) <=> HasTab(layout, Hidden, q)
      OBVIOUS
    <2>2. Hidden # from /\ Hidden # to /\ Hidden \in Views
      BY <1>1, <2>1 DEF Views
    <2>3. ~HasTab(layout, Hidden, p)
      BY <1>1, <1>2, <2>2 DEF Apart
    <2>4. QED
      BY <1>3, <2>2, <2>3
  <1>6. QED
    BY <1>1, <1>3, <1>4, <1>5, GestureFact

LEMMA SetShownOK ==
    ASSUME IInv, NEW g \in Groups, NEW show \in BOOLEAN, SetShown(g, show)
    PROVE  IInv'
  <1>1. /\ shown' = IF show THEN shown \cup {g} ELSE shown \ {g}
        /\ UNCHANGED <<layout, owner, menu, queue, crashed>>
    BY DEF SetShown
  <1>2. shown' \in SUBSET Views /\ (Hidden \in shown' <=> Hidden \in shown)
    BY <1>1, PanelTabsAssumption DEF IInv, Typed, Views
  <1>3. Typed'
    BY <1>1, <1>2 DEF IInv, Typed
  <1>4. ClosedCanReturn' /\ FreshFits'
    BY <1>1, <1>2 DEF IInv, ClosedCanReturn, FreshFits
  <1>5. OneClose' /\ IndexesHold' /\ FreshAlone'
    BY <1>1 DEF IInv, OneClose, IndexesHold, FreshAlone
  <1>6. QED
    BY <1>3, <1>4, <1>5 DEF IInv

LEMMA RestartOK ==
    ASSUME IInv, Restart
    PROVE  IInv'
  <1>1. /\ UserIsFree
        /\ layout' = InitTabViews(layout)
        /\ owner' = [p \in Panels |->
                       IF HasTab(layout, Hidden, p) /\ owner[p] = NoView
                       THEN Bottom ELSE owner[p]]
        /\ shown' = shown \ {Hidden}
        /\ queue' = <<>>
        /\ UNCHANGED <<menu, crashed>>
    BY DEF Restart
  <1>2. menu' = {}
    BY <1>1 DEF UserIsFree
  <1>3. /\ Apart(layout') /\ Everyone(layout')
        /\ \A v \in Views : \A q \in Panels :
               HasTab(layout', v, q) <=> HasTab(layout, v, q)
    BY <1>1, ReloadFact DEF IInv, Typed
  <1>4. owner \in [Panels -> Groups \cup {NoView}]
    BY DEF IInv, Typed
  <1>5. owner' \in [Panels -> Groups \cup {NoView}]
    BY <1>1, <1>4, PanelTabsAssumption
  <1>6. /\ queue' \in Seq(Messages) /\ Len(queue') = 0
        /\ \A i : i \notin 1 .. Len(queue')
    BY <1>1
  <1>7. Typed'
    BY <1>1, <1>2, <1>3, <1>5, <1>6, PanelTabsAssumption DEF IInv, Typed
  <1>8. ClosedCanReturn'
    <2>1. ASSUME NEW p \in Panels, HasTab(layout', Hidden, p)
          PROVE  owner'[p] \in Groups
      <3>1. HasTab(layout, Hidden, p)
        BY <1>3, <2>1 DEF Views
      <3>2. QED
        BY <1>1, <1>4, <3>1, PanelTabsAssumption
    <2>2. QED
      BY <2>1 DEF ClosedCanReturn
  <1>9. OneClose' /\ IndexesHold' /\ FreshAlone' /\ FreshFits'
    BY <1>2, <1>6 DEF OneClose, IndexesHold, FreshAlone, FreshFits
  <1>10. QED
    BY <1>7, <1>8, <1>9 DEF IInv

(* A close closes the tab it was meant for: the panel it is about.         *)
LEMMA CloseOK ==
    ASSUME IInv, ~crashed, queue # <<>>, Head(queue).kind = "Close",
           HandleClose(Head(queue))
    PROVE  /\ IInv'
           /\ HolderOf(layout', Head(queue).about) = Hidden
           /\ UNCHANGED <<shown, crashed>>
  <1>1. PICK m : m = Head(queue)
    OBVIOUS
  <1>2. m \in Messages /\ MessageFits(layout, m)
    <2>1. m = queue[1] /\ 1 \in 1 .. Len(queue)
      BY <1>1, TailFact DEF IInv, Typed
    <2>2. QED
      BY <2>1, TypedFact DEF IInv, IndexesHold
  <1>3. /\ m.view \in Groups /\ m.about \in Panels
        /\ m.index \in 1 .. Len(layout[m.view].tabs)
        /\ layout[m.view].tabs[m.index] = m.about
    BY <1>1, <1>2 DEF Messages, MessageFits, InPlace
  <1>4. m.view \in Views /\ Hidden \in Views /\ m.view # Hidden
    BY <1>3, PanelTabsAssumption DEF Views
  <1>5. m.index <= Len(layout[m.view].tabs)
    <2>1. layout[m.view].tabs \in Seq(Panels)
      BY <1>4, TypedFact DEF IInv
    <2>2. QED
      BY <1>3, <2>1
  <1>6. /\ queue' = Tail(queue)
        /\ owner' = [owner EXCEPT ![m.about] = m.view]
        /\ layout' = MoveTabs(layout, m.view, Hidden, m.about, NoPanel)
        /\ UNCHANGED <<shown, menu, crashed>>
    BY <1>1, <1>3, <1>5 DEF HandleClose
  <1>7. Apart(layout) /\ Everyone(layout) /\ HasTab(layout, m.view, m.about)
    BY <1>3 DEF IInv, Typed, HasTab, Holds
  <1>8. /\ Apart(layout')
        /\ \A w \in Views : \A q :
               HasTab(layout', w, q) <=>
                   IF q = m.about THEN w = Hidden ELSE HasTab(layout, w, q)
    BY <1>4, <1>6, <1>7, MoveFact
  <1>9. Everyone(layout')
    BY <1>4, <1>7, <1>8 DEF Everyone
  <1>10. owner \in [Panels -> Groups \cup {NoView}]
    BY DEF IInv, Typed
  <1>11. owner' \in [Panels -> Groups \cup {NoView}]
    BY <1>3, <1>6, <1>10
  <1>12. shown' \in SUBSET Views /\ crashed' \in BOOLEAN
    BY <1>6 DEF IInv, Typed
  <1>13. ClosedCanReturn'
    <2>1. ASSUME Hidden \notin shown, NEW q \in Panels, HasTab(layout', Hidden, q)
          PROVE  owner'[q] \in Groups
      <3>1. CASE q = m.about
        BY <1>3, <1>6, <1>10, <3>1
      <3>2. CASE q # m.about
        <4>1. HasTab(layout, Hidden, q)
          BY <1>4, <1>8, <2>1, <3>2
        <4>2. owner[q] \in Groups
          BY <2>1, <4>1 DEF IInv, ClosedCanReturn
        <4>3. QED
          BY <1>6, <1>10, <3>2, <4>2
      <3>3. QED
        BY <3>1, <3>2
    <2>2. QED
      BY <1>6, <2>1 DEF ClosedCanReturn
  <1>14. Hidden \notin shown' =>
             /\ Hidden \notin shown
             /\ \A q \in Panels : q # Head(queue).about =>
                    (HasTab(layout', Hidden, q) <=> HasTab(layout, Hidden, q))
    BY <1>1, <1>4, <1>6, <1>8
  <1>15. IInv'
    BY <1>6, <1>8, <1>9, <1>11, <1>12, <1>13, <1>14, ReceiveFact
  <1>16. HolderOf(layout', m.about) = Hidden
    BY <1>4, <1>8, HolderFact
  <1>17. QED
    BY <1>1, <1>6, <1>15, <1>16

(* ShowPanelByTab, on a layout in which each group of the old one keeps    *)
(* its places.                                                             *)
LEMMA ShowPanelFact ==
    ASSUME NEW L, Apart(L), Everyone(L), NEW p \in Panels,
           \A w \in Groups : KeepPlaces(layout, L, w),
           ShowPanelByTab(L, p)
    PROVE  /\ Apart(layout') /\ Everyone(layout')
           /\ \A w \in Views : \A q : HasTab(layout', w, q) <=> HasTab(L, w, q)
           /\ \A w \in Groups : KeepPlaces(layout, layout', w)
           /\ HolderOf(L, p) \in Views
           /\ HolderOf(layout', p) = HolderOf(L, p)
           /\ layout'[HolderOf(layout', p)].front = p
           /\ shown' = shown \cup {HolderOf(L, p)}
  <1>1. PICK v : v = HolderOf(L, p)
    OBVIOUS
  <1>2. v \in Views /\ HasTab(L, v, p)
    BY <1>1, HolderHas
  <1>3. /\ layout' = [L EXCEPT ![v] = Select(@, p)]
        /\ shown' = shown \cup {v}
    BY <1>1 DEF ShowPanelByTab
  <1>4. /\ Apart(layout') /\ layout'[v].front = p
        /\ \A w \in Views : \A q : HasTab(layout', w, q) <=> HasTab(L, w, q)
        /\ \A w \in Views : layout'[w].tabs = L[w].tabs
    <2>1. /\ Apart(layout')
          /\ \A w \in Views : \A q : HasTab(layout', w, q) <=> HasTab(L, w, q)
      BY <1>2, <1>3, SelectInFact
    <2>2. PICK t : t = Select(L[v], p)
      OBVIOUS
    <2>3. t.front = p /\ t.tabs = L[v].tabs
      BY <1>2, <2>2, SelectFact DEF HasTab, Apart, Sound
    <2>4. layout'[v] = t /\ \A w \in Views \ {v} : layout'[w] = L[w]
      BY <1>2, <1>3, <2>2 DEF Apart
    <2>5. QED
      BY <2>1, <2>3, <2>4
  <1>5. Everyone(layout')
    BY <1>4 DEF Everyone
  <1>6. \A w \in Groups : KeepPlaces(layout, layout', w)
    BY <1>4 DEF KeepPlaces, Views
  <1>7. HolderOf(layout', p) = v
    BY <1>2, <1>4, HolderFact
  <1>8. QED
    BY <1>1, <1>2, <1>3, <1>4, <1>5, <1>6, <1>7

(* A show that is fresh puts its panel in front of a group that is shown.  *)
LEMMA ShowOK ==
    ASSUME IInv, ~crashed, queue # <<>>, Head(queue).kind = "Show",
           HandleShow(Head(queue))
    PROVE  /\ IInv'
           /\ Head(queue).fresh /\ Hidden \notin shown =>
                  /\ ~crashed' /\ Hidden \notin shown'
                  /\ HolderOf(layout', Head(queue).about) \in Groups \cap shown'
                  /\ layout'[HolderOf(layout', Head(queue).about)].front =
                         Head(queue).about
  <1>1. PICK m, p : m = Head(queue) /\ p = m.about
    OBVIOUS
  <1>2. m \in Messages /\ MessageFits(layout, m) /\ m = queue[1] /\ 1 \in 1 .. Len(queue)
    <2>1. m = queue[1] /\ 1 \in 1 .. Len(queue)
      BY <1>1, TailFact DEF IInv, Typed
    <2>2. QED
      BY <2>1, TypedFact DEF IInv, IndexesHold
  <1>3. p \in Panels /\ m.kind # "Close" /\ (m.selected => m.view = Hidden)
    BY <1>1, <1>2 DEF Messages, MessageFits
  <1>4. Apart(layout) /\ Everyone(layout)
    BY DEF IInv, Typed
  <1>5. owner \in [Panels -> Groups \cup {NoView}]
    BY DEF IInv, Typed
  <1>6. shown \in SUBSET Views /\ Hidden \in Views /\ Hidden \notin Groups
    BY PanelTabsAssumption DEF IInv, Typed, Views
  <1>7. Hidden \notin shown =>
            \A q \in Panels : HasTab(layout, Hidden, q) => owner[q] \in Groups
    BY DEF IInv, ClosedCanReturn
  <1>8. m.fresh /\ Hidden \notin shown =>
            (HasTab(layout, Hidden, p) <=> m.view = Hidden)
    BY <1>1, <1>2 DEF IInv, FreshFits
  <1>9. \A w : KeepPlaces(layout, layout, w)
    BY DEF KeepPlaces
  <1> DEFINE ignored == \/ m.view \in shown /\ m.selected
                        \/ /\ m.view = Hidden
                           /\ HasTab(layout, Hidden, p)
                           /\ owner[p] = NoView
             Asked == m.fresh /\ Hidden \notin shown =>
                          /\ ~crashed' /\ Hidden \notin shown'
                          /\ HolderOf(layout', p) \in Groups \cap shown'
                          /\ layout'[HolderOf(layout', p)].front = p
  <1>10. /\ queue' = Tail(queue) /\ menu' = menu
         /\ \/ /\ ignored
               /\ UNCHANGED <<layout, shown, owner, crashed>>
            \/ /\ ~ignored
               /\ m.view # Hidden
               /\ ShowPanelByTab(layout, p)
               /\ UNCHANGED <<owner, crashed>>
            \/ /\ ~ignored
               /\ m.view = Hidden
               /\ ~HasTab(layout, Hidden, p)
               /\ crashed' = TRUE
               /\ UNCHANGED <<layout, shown, owner>>
            \/ /\ ~ignored
               /\ m.view = Hidden
               /\ HasTab(layout, Hidden, p)
               /\ owner' = [owner EXCEPT ![p] = NoView]
               /\ ShowPanelByTab(MoveTabs(layout, Hidden, owner[p], p, NoPanel), p)
               /\ UNCHANGED crashed
    BY <1>1 DEF HandleShow
  <1>11. SUFFICES IInv' /\ Asked
    BY <1>1
  <1>12. ASSUME UNCHANGED <<layout, shown, owner>>, crashed' \in BOOLEAN
         PROVE  IInv'
    <2>1. ClosedCanReturn'
      BY <1>12 DEF IInv, ClosedCanReturn
    <2>2. QED
      BY <1>4, <1>5, <1>6, <1>9, <1>10, <1>12, <2>1, ReceiveFact
  <1>13. CASE ignored /\ UNCHANGED <<layout, shown, owner, crashed>>
    <2>1. ~ (m.fresh /\ Hidden \notin shown)
      BY <1>3, <1>7, <1>13, PanelTabsAssumption
    <2>2. crashed' \in BOOLEAN
      BY <1>13 DEF IInv, Typed
    <2>3. QED
      BY <1>12, <1>13, <2>1, <2>2
  <1>14. CASE /\ m.view # Hidden
              /\ ShowPanelByTab(layout, p)
              /\ UNCHANGED <<owner, crashed>>
    <2>1. /\ Apart(layout') /\ Everyone(layout')
          /\ \A w \in Views : \A q : HasTab(layout', w, q) <=> HasTab(layout, w, q)
          /\ \A w \in Groups : KeepPlaces(layout, layout', w)
          /\ HolderOf(layout, p) \in Views
          /\ HolderOf(layout', p) = HolderOf(layout, p)
          /\ layout'[HolderOf(layout', p)].front = p
          /\ shown' = shown \cup {HolderOf(layout, p)}
      BY <1>3, <1>4, <1>9, <1>14, ShowPanelFact
    <2>2. shown' \in SUBSET Views /\ crashed' \in BOOLEAN
      BY <1>6, <1>14, <2>1 DEF IInv, Typed
    <2>3. owner' \in [Panels -> Groups \cup {NoView}]
      BY <1>5, <1>14
    <2>4. ClosedCanReturn'
      <3>1. \A q \in Panels : HasTab(layout', Hidden, q) <=> HasTab(layout, Hidden, q)
        BY <1>6, <2>1
      <3>2. Hidden \notin shown' => Hidden \notin shown
        BY <2>1
      <3>3. QED
        BY <1>7, <1>14, <3>1, <3>2 DEF ClosedCanReturn
    <2>5. IInv'
      BY <1>6, <1>10, <2>1, <2>2, <2>3, <2>4, ReceiveFact
    <2>6. Asked
      <3>1. SUFFICES ASSUME m.fresh, Hidden \notin shown
                     PROVE  HolderOf(layout, p) \in Groups
        BY <1>14, <1>6, <2>1
      <3>2. ~HasTab(layout, Hidden, p)
        BY <1>8, <1>14, <3>1
      <3>3. HasTab(layout, HolderOf(layout, p), p)
        BY <1>3, <1>4, HolderHas
      <3>4. QED
        BY <2>1, <3>2, <3>3 DEF Views
    <2>7. QED
      BY <2>5, <2>6
  <1>15. CASE /\ m.view = Hidden
              /\ ~HasTab(layout, Hidden, p)
              /\ crashed' = TRUE
              /\ UNCHANGED <<layout, shown, owner>>
    BY <1>8, <1>12, <1>15
  <1>16. CASE /\ ~ignored
              /\ m.view = Hidden
              /\ HasTab(layout, Hidden, p)
              /\ owner' = [owner EXCEPT ![p] = NoView]
              /\ ShowPanelByTab(MoveTabs(layout, Hidden, owner[p], p, NoPanel), p)
              /\ UNCHANGED crashed
    <2>1. PICK g, L : g = owner[p] /\ L = MoveTabs(layout, Hidden, g, p, NoPanel)
      OBVIOUS
    <2>2. g \in Groups /\ g \in Views /\ g # Hidden
      BY <1>3, <1>5, <1>6, <1>16, <2>1 DEF Views
    <2>3. /\ Apart(L)
          /\ \A w \in Views : \A q :
                 HasTab(L, w, q) <=> IF q = p THEN w = g ELSE HasTab(layout, w, q)
          /\ \A w \in Views \ {Hidden} : KeepPlaces(layout, L, w)
      BY <1>4, <1>6, <1>16, <2>1, <2>2, MoveFact
    <2>4. Everyone(L)
      BY <1>4, <2>2, <2>3 DEF Everyone
    <2>5. HolderOf(L, p) = g
      BY <2>2, <2>3, HolderFact
    <2>6. /\ Apart(layout') /\ Everyone(layout')
          /\ \A w \in Views : \A q : HasTab(layout', w, q) <=> HasTab(L, w, q)
          /\ \A w \in Groups : KeepPlaces(layout, layout', w)
          /\ HolderOf(layout', p) = g
          /\ layout'[g].front = p
          /\ shown' = shown \cup {g}
      <3>1. \A w \in Groups : KeepPlaces(layout, L, w)
        BY <1>6, <2>3 DEF Views
      <3>2. ShowPanelByTab(L, p)
        BY <1>16, <2>1
      <3>3. QED
        BY <1>3, <2>3, <2>4, <2>5, <3>1, <3>2, ShowPanelFact
    <2>7. \A q \in Panels : HasTab(layout', Hidden, q) <=>
                                HasTab(layout, Hidden, q) /\ q # p
      BY <1>6, <2>2, <2>3, <2>6
    <2>8. shown' \in SUBSET Views /\ crashed' \in BOOLEAN
      BY <1>6, <1>16, <2>2, <2>6 DEF IInv, Typed
    <2>9. owner' \in [Panels -> Groups \cup {NoView}]
      BY <1>5, <1>16
    <2>10. Hidden \in shown' <=> Hidden \in shown
      BY <2>2, <2>6
    <2>11. ClosedCanReturn'
      <3>1. ASSUME Hidden \notin shown, NEW q \in Panels, HasTab(layout', Hidden, q)
            PROVE  owner'[q] \in Groups
        <4>1. q # p /\ owner[q] \in Groups
          BY <1>7, <2>7, <3>1
        <4>2. QED
          BY <1>5, <1>16, <4>1
      <3>2. QED
        BY <2>10, <3>1 DEF ClosedCanReturn
    <2>12. IInv'
      <3>1. \A q \in Panels : q # Head(queue).about =>
                (HasTab(layout', Hidden, q) <=> HasTab(layout, Hidden, q))
        BY <1>1, <2>7
      <3>2. QED
        BY <1>10, <2>6, <2>8, <2>9, <2>10, <2>11, <3>1, ReceiveFact
    <2>13. Asked
      BY <1>16, <2>2, <2>6, <2>10
    <2>14. QED
      BY <2>12, <2>13
  <1>17. QED
    BY <1>10, <1>13, <1>14, <1>15, <1>16

LEMMA NextOK == IInv /\ [Next]_vars => IInv'
  <1>1. SUFFICES ASSUME IInv, [Next]_vars
                 PROVE  IInv'
    OBVIOUS
  <1>2. CASE Use
    <2>1. CASE MenusBeginning
      BY <1>1, <2>1, MenusBeginningOK
    <2>2. CASE \E item \in menu : Choose(item)
      BY <1>1, <2>2, ChooseOK
    <2>3. CASE \E p \in Panels, g \in {{}, {Bottom}} : ShowTab(p, g)
      BY <1>1, <2>3, ShowTabOK
    <2>4. CASE \E v \in Views, p \in Panels : ClickTab(v, p)
      BY <1>1, <2>4, ClickTabOK
    <2>5. CASE \E from, to \in Views, p \in Panels, toTab \in Panels \cup {NoPanel} :
                   DropTab(from, to, p, toTab)
      BY <1>1, <2>5, DropTabOK
    <2>6. CASE \E g \in Groups, show \in BOOLEAN : SetShown(g, show)
      BY <1>1, <2>6, SetShownOK
    <2>7. QED
      BY <1>2, <2>1, <2>2, <2>3, <2>4, <2>5, <2>6 DEF Use
  <1>3. CASE Receive
    <2>1. CASE Head(queue).kind = "Close" /\ HandleClose(Head(queue))
      BY <1>1, <1>3, <2>1, CloseOK DEF Receive
    <2>2. CASE Head(queue).kind = "Show" /\ HandleShow(Head(queue))
      BY <1>1, <1>3, <2>2, ShowOK DEF Receive
    <2>3. QED
      BY <1>3, <2>1, <2>2 DEF Receive
  <1>4. CASE UNCHANGED vars
    BY <1>1, <1>4 DEF vars, IInv, Typed, ClosedCanReturn, OneClose, IndexesHold,
       FreshAlone, FreshFits
  <1>5. QED
    BY <1>1, <1>2, <1>3, <1>4, MenusEndedOK, RestartOK DEF Next

-----------------------------------------------------------------------------

LEMMA Inductive == Spec => []IInv
  BY InitOK, NextOK, PTL DEF Spec

(* Tabs and cards hold the same panels in the same order, and the card a   *)
(* view shows is that of its front tab: AddTab, RemoveTab, RemoveCard and  *)
(* MoveTabs keep the two lists matched.                                    *)
THEOREM TabsAndCards == Spec => []CardsFollowTabs
  <1>1. IInv => CardsFollowTabs
    BY DEF IInv, Typed, Apart, Sound, Matched, Shows, CardsFollowTabs
  <1>2. QED
    BY <1>1, Inductive, PTL

(* Every panel has one tab, in one view, through every move and restart.   *)
THEOREM TypeCorrect == Spec => []TypeOK
  <1>1. ASSUME IInv
        PROVE  TypeOK
    <2>1. /\ Apart(layout) /\ Everyone(layout)
          /\ \A v \in Views : layout[v].tabs \in Seq(Panels)
      BY <1>1, TypedFact DEF IInv
    <2>2. ASSUME NEW v \in Views
          PROVE  /\ \A i \in 1 .. Len(layout[v].tabs) : layout[v].tabs[i] \in Panels
                 /\ layout[v].front \in Panels \cup {NoPanel}
                 /\ layout[v].visible \in Panels \cup {NoPanel}
                 /\ Distinct(layout[v].tabs)
      <3>1. Matched(layout[v])
        BY <2>1 DEF Apart, Sound
      <3>2. QED
        BY <3>1, MatchedFact
    <2>3. ASSUME NEW p \in Panels
          PROVE  \E v \in Views : \E i \in 1 .. Len(layout[v].tabs) :
                     /\ layout[v].tabs[i] = p
                     /\ \A w \in Views : \A j \in 1 .. Len(layout[w].tabs) :
                            layout[w].tabs[j] = p => w = v /\ j = i
      <3>1. PICK v \in Views : HasTab(layout, v, p)
        BY <2>1 DEF Everyone
      <3>2. PICK i \in 1 .. Len(layout[v].tabs) : layout[v].tabs[i] = p
        BY <3>1 DEF HasTab, Holds
      <3>3. ASSUME NEW w \in Views, NEW j \in 1 .. Len(layout[w].tabs),
                   layout[w].tabs[j] = p
            PROVE  w = v /\ j = i
        <4>1. w = v
          BY <2>1, <3>1, <3>3 DEF Apart, HasTab, Holds
        <4>2. QED
          BY <2>2, <3>2, <3>3, <4>1 DEF Distinct
      <3>4. QED
        BY <3>2, <3>3
    <2>4. /\ shown \subseteq Views
          /\ owner \in [Panels -> Groups \cup {NoView}]
          /\ Len(queue) <= MaxQueue
          /\ crashed \in BOOLEAN
      BY <1>1 DEF IInv, Typed
    <2>5. QED
      BY <2>2, <2>3, <2>4 DEF TypeOK
  <1>2. QED
    BY <1>1, Inductive, PTL

(* While the closed panels' view is hidden, each closed panel remembers a  *)
(* group to return to.                                                     *)
THEOREM ClosedComesBack == Spec => []ClosedCanReturn
  <1>1. IInv => ClosedCanReturn
    BY DEF IInv
  <1>2. QED
    BY <1>1, Inductive, PTL

(* What a fresh message asks is what its handling does, however many other *)
(* panels moved while it waited.                                           *)
THEOREM AskedIsWhatHappens == Spec => AskedIsDone
  <1> DEFINE Step ==
          Receive /\ Head(queue).fresh /\ Hidden \notin shown =>
              LET m == Head(queue)
                  v == HolderOf(layout', m.about)
              IN  /\ ~crashed'
                  /\ Hidden \notin shown'
                  /\ m.kind = "Close" => v = Hidden
                  /\ m.kind = "Show" => /\ v \in Groups \cap shown'
                                        /\ layout'[v].front = m.about
  <1>1. ASSUME IInv
        PROVE  Step
    <2>1. SUFFICES ASSUME Receive, Head(queue).fresh, Hidden \notin shown
                   PROVE  LET m == Head(queue)
                              v == HolderOf(layout', m.about)
                          IN  /\ ~crashed'
                              /\ Hidden \notin shown'
                              /\ m.kind = "Close" => v = Hidden
                              /\ m.kind = "Show" => /\ v \in Groups \cap shown'
                                                    /\ layout'[v].front = m.about
      OBVIOUS
    <2>2. CASE Head(queue).kind = "Close" /\ HandleClose(Head(queue))
      BY <1>1, <2>1, <2>2, CloseOK DEF Receive
    <2>3. CASE Head(queue).kind = "Show" /\ HandleShow(Head(queue))
      BY <1>1, <2>1, <2>3, ShowOK DEF Receive
    <2>4. QED
      BY <2>1, <2>2, <2>3 DEF Receive
  <1>2. IInv /\ [Next]_vars => [Step]_vars
    BY <1>1
  <1>3. Spec => [][Step]_vars
    BY <1>2, Inductive, PTL DEF Spec
  <1>4. QED
    BY <1>3 DEF AskedIsDone
=============================================================================
