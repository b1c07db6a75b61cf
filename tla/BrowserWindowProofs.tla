-------------------------- MODULE BrowserWindowProofs --------------------------
(***************************************************************************)
(* That the window shows the active tab and that the session is kept, for  *)
(* any number of tabs, any routes, saved sessions and faults.              *)
(*                                                                         *)
(* Between two handlers the window is Stable: controllers and model have   *)
(* the same tabs, agree on the life of each, and the tab that is shown is  *)
(* the active one, which has been started.  In the middle of a handler it  *)
(* is only Well: the tab that is shown may not be the active one yet, and  *)
(* a tab whose address has just changed may still own the page of the      *)
(* former one.  Each operation is shown to lead from a Well window to      *)
(* another, the commands and events from a Stable one to a Stable one.     *)
(* Why an error signal of a former page never reaches a tab that moved on  *)
(* is part of it: a page's signals count only for the navigation that      *)
(* connected them, and only a web address has such a page.                 *)
(***************************************************************************)
EXTENDS BrowserWindow, SequenceTheorems, FiniteSetTheorems,
        NaturalsInduction, WellFoundedInduction, TLAPS

-----------------------------------------------------------------------------
\* The tab strip.

\* A snapshot's kind is what its address resolves to, unless it is an error
\* or its address resolves to nothing any more.
Snaps ==
    {s \in Snapshots : s.kind = "error" \/ KindOf[s.address] \in {s.kind, "none"}}
Lives == {"Dormant", "Loading", "TrustedError", "Active", "Background"}
Tabs == [id : TabIds, snap : Snaps, life : Lives, loading : BOOLEAN]

\* No id is there twice.
Unique(s) == \A i, j \in DOMAIN s : s[i].id = s[j].id => i = j
\* The tab strip: every id is older than the next one.
IsStrip(m) ==
    /\ DOMAIN m = {"tabs", "active", "closed", "nextId"}
    /\ m.tabs \in Seq(Tabs) /\ Unique(m.tabs) /\ Len(m.tabs) <= MaxOpenTabs
    /\ m.active \in DOMAIN m.tabs \cup {0}
    /\ m.closed \in Seq(Snaps)
    /\ m.nextId \in Nat /\ \A i \in DOMAIN m.tabs : m.tabs[i].id < m.nextId

\* The tab of an id.
TabOf(m, t) == m.tabs[indexOfId(m, t)]

\* Where the first of a sequence with a property is.
LEMMA FirstIndex ==
    ASSUME NEW m, IsStrip(m), NEW i \in DOMAIN m.tabs
    PROVE  indexOfId(m, m.tabs[i].id) = i
<1> DEFINE I == {j \in 1 .. Len(m.tabs) : m.tabs[j].id = m.tabs[i].id}
<1>1. DOMAIN m.tabs = 1 .. Len(m.tabs) /\ Len(m.tabs) \in Nat /\ i \in Nat
  BY LenProperties DEF IsStrip
<1>2. I = {i}
  BY <1>1 DEF IsStrip, Unique
<1>3. indexOfId(m, m.tabs[i].id) = IF I # {} THEN Min(I) ELSE 0
  BY DEF indexOfId, SelectInSeq
<1> HIDE DEF I
<1>4. Min({i}) = i
  BY <1>1 DEF Min
<1> QED
  BY <1>2, <1>3, <1>4

\* A tab that is at no place of the strip has no index.
LEMMA NoIndex ==
    ASSUME NEW m, IsStrip(m), NEW t, \A i \in DOMAIN m.tabs : m.tabs[i].id # t
    PROVE  indexOfId(m, t) = 0
<1>1. DOMAIN m.tabs = 1 .. Len(m.tabs)
  BY LenProperties DEF IsStrip
<1> QED
  BY <1>1 DEF indexOfId, SelectInSeq

\* A tab is in the strip when some place of it has its id, and only one has.
LEMMA StripIndex ==
    ASSUME NEW m, IsStrip(m)
    PROVE  /\ \A i \in DOMAIN m.tabs : /\ indexOfId(m, m.tabs[i].id) = i
                                       /\ contains(m, m.tabs[i].id)
           /\ \A t : contains(m, t) =>
                /\ indexOfId(m, t) \in DOMAIN m.tabs
                /\ TabOf(m, t) \in Tabs /\ TabOf(m, t).id = t
                /\ t \in TabIds
<1>1. /\ DOMAIN m.tabs = 1 .. Len(m.tabs) /\ Len(m.tabs) \in Nat
      /\ \A i \in DOMAIN m.tabs : m.tabs[i] \in Tabs
  BY LenProperties, ElementOfSeq DEF IsStrip
<1>2. ASSUME NEW i \in DOMAIN m.tabs
      PROVE  indexOfId(m, m.tabs[i].id) = i /\ contains(m, m.tabs[i].id)
  <2>1. indexOfId(m, m.tabs[i].id) = i
    BY FirstIndex
  <2> QED
    BY <1>1, <2>1 DEF contains
<1>3. ASSUME NEW t, contains(m, t)
      PROVE  /\ indexOfId(m, t) \in DOMAIN m.tabs
             /\ TabOf(m, t) \in Tabs /\ TabOf(m, t).id = t /\ t \in TabIds
  <2>1. PICK i \in DOMAIN m.tabs : m.tabs[i].id = t
    BY <1>3, NoIndex DEF contains
  <2>2. indexOfId(m, t) = i
    BY <2>1, FirstIndex
  <2>3. m.tabs[i] \in Tabs
    BY <1>1
  <2> QED
    BY <2>1, <2>2, <2>3 DEF TabOf, Tabs
<1> QED
  BY <1>2, <1>3

\* Which tabs there are, and which is the active one.
SameIds(m, n) ==
    /\ \A u : contains(n, u) <=> contains(m, u)
    /\ activeId(n) = activeId(m)
\* All tabs but one stay as they are.
Others(m, n, t) == \A u : u # t /\ contains(m, u) => TabOf(n, u) = TabOf(m, u)

\* A tab is changed in its place.
LEMMA TabSet ==
    ASSUME NEW m, IsStrip(m), NEW t, contains(m, t),
           NEW b \in Tabs, b.id = t,
           NEW n, n = [m EXCEPT !.tabs[indexOfId(m, t)] = b]
    PROVE  /\ IsStrip(n) /\ SameIds(m, n)
           /\ TabOf(n, t) = b /\ Others(m, n, t)
           /\ n.active = m.active /\ n.nextId = m.nextId
           /\ n.closed = m.closed /\ DOMAIN n.tabs = DOMAIN m.tabs
           /\ b.snap = TabOf(m, t).snap =>
                sessionSnapshot(n) = sessionSnapshot(m)
<1> DEFINE i == indexOfId(m, t)
<1>1. i \in DOMAIN m.tabs /\ m.tabs[i].id = t
  BY StripIndex DEF TabOf
<1>2. /\ DOMAIN n = DOMAIN m /\ n.tabs = [m.tabs EXCEPT ![i] = b]
      /\ n.active = m.active /\ n.nextId = m.nextId /\ n.closed = m.closed
  BY DEF IsStrip
<1>3. /\ n.tabs \in Seq(Tabs) /\ DOMAIN n.tabs = DOMAIN m.tabs
      /\ \A j \in DOMAIN m.tabs : n.tabs[j] = IF j = i THEN b ELSE m.tabs[j]
  BY <1>1, <1>2, ExceptSeq, LenProperties DEF IsStrip
<1>4. \A j \in DOMAIN m.tabs : n.tabs[j].id = m.tabs[j].id
  BY <1>1, <1>3
<1>5. IsStrip(n)
  BY <1>2, <1>3, <1>4 DEF IsStrip, Unique
<1>6. ASSUME NEW u PROVE indexOfId(n, u) = indexOfId(m, u)
  <2>1. CASE \E j \in DOMAIN m.tabs : m.tabs[j].id = u
    BY <1>3, <1>4, <1>5, <2>1, FirstIndex
  <2>2. CASE ~\E j \in DOMAIN m.tabs : m.tabs[j].id = u
    <3>1. /\ \A j \in DOMAIN m.tabs : m.tabs[j].id # u
          /\ \A j \in DOMAIN n.tabs : n.tabs[j].id # u
      BY <1>3, <1>4, <2>2
    <3> QED
      BY <1>5, <3>1, NoIndex
  <2> QED
    BY <2>1, <2>2
<1>7. \A u : contains(n, u) <=> contains(m, u)
  BY <1>6 DEF contains
<1>8. activeId(n) = activeId(m)
  BY <1>2, <1>4 DEF activeId, IsStrip
<1>9. TabOf(n, t) = b
  BY <1>1, <1>3, <1>6 DEF TabOf
<1>10. ASSUME NEW u, u # t, contains(m, u) PROVE TabOf(n, u) = TabOf(m, u)
  <2> DEFINE j == indexOfId(m, u)
  <2>1. j \in DOMAIN m.tabs /\ m.tabs[j].id = u
    BY <1>10, StripIndex DEF TabOf
  <2>2. indexOfId(n, u) = j
    BY <1>6
  <2> HIDE DEF j, i
  <2>3. n.tabs[j] = m.tabs[j]
    BY <1>1, <1>3, <1>10, <2>1
  <2> QED
    BY <2>2, <2>3 DEF TabOf, j
<1>11. ASSUME b.snap = TabOf(m, t).snap
       PROVE  sessionSnapshot(n) = sessionSnapshot(m)
  <2>1. \A j \in DOMAIN m.tabs : n.tabs[j].snap = m.tabs[j].snap
    BY <1>1, <1>3, <1>11 DEF TabOf
  <2> QED
    BY <1>3, <1>4, <1>8, <2>1 DEF sessionSnapshot
<1> QED
  BY <1>2, <1>3, <1>5, <1>7, <1>8, <1>9, <1>10, <1>11 DEF SameIds, Others

\* A tab is added at the end and becomes the active one.
LEMMA TabInserted ==
    ASSUME NEW m, IsStrip(m), ~full(m), m.nextId \in TabIds,
           NEW snap \in Snaps,
           NEW n, n = insert(m, snap)
    PROVE  /\ IsStrip(n) /\ n.nextId = m.nextId + 1
           /\ n.active \in DOMAIN n.tabs /\ activeId(n) = m.nextId
           /\ \A u : contains(n, u) <=> contains(m, u) \/ u = m.nextId
           /\ TabOf(n, m.nextId) = dormantState(m.nextId, snap)
           /\ \A u : contains(m, u) => TabOf(n, u) = TabOf(m, u)
           /\ Len(n.tabs) # Len(m.tabs)
<1> DEFINE b == dormantState(m.nextId, snap)
           k == Len(m.tabs)
<1>1. b \in Tabs /\ b.id = m.nextId
  BY DEF dormantState, Tabs, Lives
<1> HIDE DEF b
<1>2. /\ n.tabs = Append(m.tabs, b) /\ DOMAIN n = DOMAIN m
      /\ n.active = k + 1 /\ n.nextId = m.nextId + 1 /\ n.closed = m.closed
  BY DEF insert, IsStrip, b
<1>3. k \in Nat /\ DOMAIN m.tabs = 1 .. k /\ m.tabs \in Seq(Tabs)
  BY LenProperties DEF IsStrip
<1>4. /\ n.tabs \in Seq(Tabs) /\ DOMAIN n.tabs = 1 .. k + 1
      /\ Len(n.tabs) = k + 1
      /\ \A i \in 1 .. k : n.tabs[i] = m.tabs[i]
      /\ n.tabs[k + 1] = b
  BY <1>1, <1>2, <1>3, AppendProperties, LenProperties
<1>5. \A i \in DOMAIN n.tabs : i = k + 1 \/ i \in DOMAIN m.tabs
  BY <1>3, <1>4
<1>6. \A i \in DOMAIN m.tabs : m.tabs[i].id < m.nextId /\ m.tabs[i].id # m.nextId
                               /\ m.tabs[i].id \in Nat
  <2>1. TabIds \subseteq Nat
    BY TabsAssumption, FS_CardinalityType
  <2>2. TAKE i \in DOMAIN m.tabs
  <2>3. m.tabs[i] \in Tabs
    BY <1>3, <2>2, ElementOfSeq
  <2>4. m.tabs[i].id \in Nat /\ m.tabs[i].id < m.nextId /\ m.nextId \in Nat
    BY <2>1, <2>2, <2>3 DEF IsStrip, Tabs
  <2> QED
    BY <2>4
<1>7. Unique(n.tabs)
  <2>1. \A i \in DOMAIN m.tabs : n.tabs[i].id = m.tabs[i].id
    BY <1>3, <1>4
  <2>2. n.tabs[k + 1].id = m.nextId
    BY <1>1, <1>4
  <2>3. \A i, j \in DOMAIN m.tabs : n.tabs[i].id = n.tabs[j].id => i = j
    BY <2>1 DEF Unique, IsStrip
  <2>4. \A i \in DOMAIN m.tabs : n.tabs[i].id # n.tabs[k + 1].id
    BY <1>6, <2>1, <2>2
  <2> QED
    BY <1>5, <2>3, <2>4 DEF Unique
<1>8. \A i \in DOMAIN n.tabs : n.tabs[i].id < n.nextId
  <2>1. TAKE i \in DOMAIN n.tabs
  <2>2. CASE i = k + 1
    BY <1>1, <1>2, <1>4, <2>2 DEF IsStrip
  <2>3. CASE i \in DOMAIN m.tabs
    BY <1>2, <1>3, <1>4, <1>6, <2>3 DEF IsStrip
  <2> QED
    BY <1>5, <2>1, <2>2, <2>3
<1>9. IsStrip(n)
  <2>1. Len(n.tabs) <= MaxOpenTabs
    BY <1>3, <1>4, TabsAssumption DEF full
  <2> QED
    BY <1>2, <1>3, <1>4, <1>7, <1>8, <2>1 DEF IsStrip
<1>10. n.active \in DOMAIN n.tabs /\ activeId(n) = m.nextId
  BY <1>1, <1>2, <1>3, <1>4 DEF activeId
<1>11. indexOfId(n, m.nextId) = k + 1
  BY <1>1, <1>3, <1>4, <1>9, FirstIndex
<1>12. TabOf(n, m.nextId) = b
  BY <1>4, <1>11 DEF TabOf
<1>13. ASSUME NEW u, contains(m, u)
       PROVE  contains(n, u) /\ TabOf(n, u) = TabOf(m, u)
  <2>1. /\ indexOfId(m, u) \in DOMAIN m.tabs
        /\ m.tabs[indexOfId(m, u)].id = u
    BY <1>13, StripIndex DEF TabOf
  <2>2. indexOfId(n, u) = indexOfId(m, u)
    BY <1>3, <1>4, <1>9, <2>1, FirstIndex
  <2> QED
    BY <1>3, <1>4, <1>13, <2>1, <2>2 DEF contains, TabOf
<1>14. ASSUME NEW u, contains(n, u)
       PROVE  contains(m, u) \/ u = m.nextId
  <2>1. /\ indexOfId(n, u) \in DOMAIN n.tabs
        /\ n.tabs[indexOfId(n, u)].id = u
    BY <1>9, <1>14, StripIndex DEF TabOf
  <2> QED
    BY <1>1, <1>3, <1>4, <1>5, <2>1, StripIndex
<1>15. contains(n, m.nextId)
  BY <1>3, <1>11 DEF contains
<1> QED
  BY <1>2, <1>3, <1>4, <1>9, <1>10, <1>12, <1>13, <1>14, <1>15 DEF b

\* What RemoveAt and InsertAt make of a sequence.
LEMMA Removed ==
    ASSUME NEW S, NEW s \in Seq(S), NEW i \in 1 .. Len(s)
    PROVE  /\ RemoveAt(s, i) \in Seq(S)
           /\ Len(RemoveAt(s, i)) = Len(s) - 1
           /\ \A j \in 1 .. Len(s) - 1 :
                RemoveAt(s, i)[j] = s[IF j < i THEN j ELSE j + 1]
<1> DEFINE a == SubSeq(s, 1, i - 1)
           b == SubSeq(s, i + 1, Len(s))
<1>1. Len(s) \in Nat /\ \A j \in 1 .. Len(s) : s[j] \in S
  BY LenProperties, ElementOfSeq
<1>2. /\ a \in Seq(S) /\ Len(a) = i - 1
      /\ \A j \in 1 .. i - 1 : a[j] = s[j]
  <2>1. /\ a \in Seq(S) /\ Len(a) = IF 1 <= i - 1 THEN i - 1 - 1 + 1 ELSE 0
        /\ \A j \in 1 .. i - 1 - 1 + 1 : a[j] = s[1 + j - 1]
    BY <1>1, SubSeqProperties
  <2> QED
    BY <1>1, <2>1
<1>3. /\ b \in Seq(S) /\ Len(b) = Len(s) - i
      /\ \A j \in 1 .. Len(s) - i : b[j] = s[i + j]
  <2>1. /\ b \in Seq(S)
        /\ Len(b) = IF i + 1 <= Len(s) THEN Len(s) - (i + 1) + 1 ELSE 0
        /\ \A j \in 1 .. Len(s) - (i + 1) + 1 : b[j] = s[i + 1 + j - 1]
    BY <1>1, SubSeqProperties
  <2> QED
    BY <1>1, <2>1
<1> HIDE DEF a, b
<1>4. /\ a \o b \in Seq(S) /\ Len(a \o b) = Len(a) + Len(b)
      /\ \A j \in 1 .. Len(a) + Len(b) :
           (a \o b)[j] = IF j <= Len(a) THEN a[j] ELSE b[j - Len(a)]
  BY <1>2, <1>3, ConcatProperties
<1>5. ASSUME NEW j \in 1 .. Len(s) - 1
      PROVE  (a \o b)[j] = s[IF j < i THEN j ELSE j + 1]
  <2>1. CASE j < i
    BY <1>1, <1>2, <1>3, <1>4, <2>1
  <2>2. CASE ~(j < i)
    <3>1. (a \o b)[j] = b[j - (i - 1)]
      BY <1>1, <1>2, <1>3, <1>4, <2>2
    <3>2. b[j - (i - 1)] = s[i + (j - (i - 1))] /\ i + (j - (i - 1)) = j + 1
      BY <1>1, <1>3, <2>2
    <3> QED
      BY <2>2, <3>1, <3>2
  <2> QED
    BY <2>1, <2>2
<1>6. Len(a \o b) = Len(s) - 1
  BY <1>1, <1>2, <1>3, <1>4
<1>7. RemoveAt(s, i) = a \o b
  BY DEF RemoveAt, a, b
<1> QED
  BY <1>4, <1>5, <1>6, <1>7

\* An element put into a sequence: what is in front of it stays.
LEMMA Inserted ==
    ASSUME NEW S, NEW s \in Seq(S), NEW i \in 1 .. Len(s) + 1, NEW e \in S
    PROVE  /\ InsertAt(s, i, e) \in Seq(S)
           /\ Len(InsertAt(s, i, e)) = Len(s) + 1
           /\ InsertAt(s, i, e)[i] = e
           /\ \A j \in 1 .. i - 1 : InsertAt(s, i, e)[j] = s[j]
           /\ \A j \in i + 1 .. Len(s) + 1 : InsertAt(s, i, e)[j] = s[j - 1]
<1> DEFINE a == SubSeq(s, 1, i - 1)
           b == SubSeq(s, i, Len(s))
           c == a \o <<e>>
<1>1. Len(s) \in Nat /\ \A j \in 1 .. Len(s) : s[j] \in S
  BY LenProperties, ElementOfSeq
<1>2. /\ a \in Seq(S) /\ Len(a) = i - 1
      /\ \A j \in 1 .. i - 1 : a[j] = s[j]
  <2>1. /\ a \in Seq(S) /\ Len(a) = IF 1 <= i - 1 THEN i - 1 - 1 + 1 ELSE 0
        /\ \A j \in 1 .. i - 1 - 1 + 1 : a[j] = s[1 + j - 1]
    BY <1>1, SubSeqProperties
  <2> QED
    BY <1>1, <2>1
<1>3. /\ b \in Seq(S) /\ Len(b) = Len(s) - i + 1
      /\ \A j \in 1 .. Len(s) - i + 1 : b[j] = s[i + j - 1]
  <2>1. /\ b \in Seq(S)
        /\ Len(b) = IF i <= Len(s) THEN Len(s) - i + 1 ELSE 0
        /\ \A j \in 1 .. Len(s) - i + 1 : b[j] = s[i + j - 1]
    BY <1>1, SubSeqProperties
  <2> QED
    BY <1>1, <2>1
<1>4. <<e>> \in Seq(S) /\ Len(<<e>>) = 1 /\ <<e>>[1] = e
  OBVIOUS
<1> HIDE DEF a, b
<1>5. /\ c \in Seq(S) /\ Len(c) = Len(a) + 1
      /\ \A j \in 1 .. Len(a) + 1 :
           c[j] = IF j <= Len(a) THEN a[j] ELSE <<e>>[j - Len(a)]
  BY <1>2, <1>4, ConcatProperties
<1>6. c[i] = e /\ Len(c) = i /\ \A j \in 1 .. i - 1 : c[j] = s[j]
  BY <1>1, <1>2, <1>4, <1>5
<1> HIDE DEF c
<1>7. /\ c \o b \in Seq(S) /\ Len(c \o b) = Len(c) + Len(b)
      /\ \A j \in 1 .. Len(c) + Len(b) :
           (c \o b)[j] = IF j <= Len(c) THEN c[j] ELSE b[j - Len(c)]
  BY <1>3, <1>5, ConcatProperties
<1>8. Len(c \o b) = Len(s) + 1
  BY <1>1, <1>3, <1>6, <1>7
<1>9. ASSUME NEW j \in i + 1 .. Len(s) + 1 PROVE (c \o b)[j] = s[j - 1]
  <2>1. (c \o b)[j] = b[j - i]
    BY <1>1, <1>3, <1>6, <1>7
  <2>2. b[j - i] = s[i + (j - i) - 1] /\ i + (j - i) - 1 = j - 1
    BY <1>1, <1>3
  <2> QED
    BY <2>1, <2>2
<1>10. (c \o b)[i] = e /\ \A j \in 1 .. i - 1 : (c \o b)[j] = s[j]
  BY <1>1, <1>3, <1>6, <1>7
<1>11. InsertAt(s, i, e) = c \o b
  BY DEF InsertAt, a, b, c
<1> QED
  BY <1>7, <1>8, <1>9, <1>10, <1>11

\* Behind place i everything has moved one up.
ShiftsUp(s, i, q) == \A j \in i + 1 .. Len(s) + 1 : q[j] = s[j - 1]

\* An element put into a sequence: what is behind it moves up.
LEMMA InsertedAfter ==
    ASSUME NEW S, NEW s \in Seq(S), NEW i \in 1 .. Len(s) + 1, NEW e \in S
    PROVE  ShiftsUp(s, i, InsertAt(s, i, e))
<1> DEFINE q == InsertAt(s, i, e)
<1>1. \A j \in i + 1 .. Len(s) + 1 : q[j] = s[j - 1]
  BY Inserted
<1> HIDE DEF q
<1>2. ShiftsUp(s, i, q)
  BY <1>1 DEF ShiftsUp
<1> QED
  BY <1>2 DEF q

\* Two strips of which the one has only tabs of the other.
LEMMA FewerTabs ==
    ASSUME NEW m, IsStrip(m), NEW n, IsStrip(n),
           \A i \in DOMAIN n.tabs : \E j \in DOMAIN m.tabs : n.tabs[i] = m.tabs[j]
    PROVE  \A u : contains(n, u) => contains(m, u) /\ TabOf(n, u) = TabOf(m, u)
<1>1. SUFFICES ASSUME NEW u, contains(n, u)
               PROVE  contains(m, u) /\ TabOf(n, u) = TabOf(m, u)
  OBVIOUS
<1>2. indexOfId(n, u) \in DOMAIN n.tabs /\ TabOf(n, u).id = u
  BY <1>1, StripIndex
<1>3. PICK j \in DOMAIN m.tabs : TabOf(n, u) = m.tabs[j]
  BY <1>2 DEF TabOf
<1>4. indexOfId(m, u) = j /\ contains(m, u)
  BY <1>2, <1>3, StripIndex
<1> QED
  BY <1>3, <1>4 DEF TabOf

\* The places depend on the tabs alone.
LEMMA SamePlaces ==
    ASSUME NEW m, NEW n, m.tabs = n.tabs, NEW t
    PROVE  indexOfId(m, t) = indexOfId(n, t)
BY DEF indexOfId

\* A tab is closed: the others stay, and one of them is the active one.
LEMMA TabClosed ==
    ASSUME NEW m, IsStrip(m), m.active \in DOMAIN m.tabs,
           NEW t, contains(m, t),
           NEW n, n = closeTab(m, indexOfId(m, t))
    PROVE  /\ IsStrip(n) /\ n.nextId = m.nextId
           /\ \A u : contains(n, u) <=> contains(m, u) /\ u # t
           /\ Others(m, n, t)
           /\ Len(m.tabs) # 1 => n.active \in DOMAIN n.tabs
           /\ Len(n.tabs) = Len(m.tabs) - 1
           /\ activeId(m) # t => activeId(n) = activeId(m)
<1> DEFINE i == indexOfId(m, t)
           s == RemoveAt(m.tabs, i)
           k == Len(m.tabs)
           c == Append(m.closed, m.tabs[i].snap)
           d == IF Len(c) > MaxRecentlyClosed THEN Tail(c) ELSE c
           rest == [m EXCEPT !.tabs = s, !.closed = d]
           zero == [rest EXCEPT !.active = 0]
<1>1. /\ k \in Nat /\ DOMAIN m.tabs = 1 .. k /\ m.tabs \in Seq(Tabs)
      /\ i \in 1 .. k /\ m.tabs[i].id = t /\ m.tabs[i] \in Tabs
  BY StripIndex, LenProperties DEF IsStrip, TabOf
<1> HIDE DEF i
<1>2. /\ s \in Seq(Tabs) /\ Len(s) = k - 1 /\ DOMAIN s = 1 .. k - 1
      /\ \A j \in 1 .. k - 1 : s[j] = m.tabs[IF j < i THEN j ELSE j + 1]
  <2>1. /\ s \in Seq(Tabs) /\ Len(s) = k - 1
        /\ \A j \in 1 .. k - 1 : s[j] = m.tabs[IF j < i THEN j ELSE j + 1]
    BY <1>1, Removed
  <2> QED
    BY <2>1, LenProperties
<1> HIDE DEF s
<1>3. d \in Seq(Snaps)
  <2>1. m.tabs[i].snap \in Snaps /\ m.closed \in Seq(Snaps)
    BY <1>1 DEF Tabs, IsStrip
  <2>2. c \in Seq(Snaps) /\ c # <<>>
    BY <2>1, AppendProperties
  <2>3. Tail(c) \in Seq(Snaps)
    BY <2>2, HeadTailProperties
  <2> QED
    BY <2>2, <2>3
<1> HIDE DEF d
<1>4. /\ DOMAIN zero = DOMAIN m /\ zero.tabs = s /\ zero.active = 0
      /\ zero.closed = d /\ zero.nextId = m.nextId
      /\ DOMAIN rest = DOMAIN m /\ rest.tabs = s /\ rest.nextId = m.nextId
      /\ rest.closed = d
  BY DEF IsStrip
<1> HIDE DEF zero
<1>5. ASSUME NEW j \in 1 .. k - 1
      PROVE  \E l \in 1 .. k : l # i /\ s[j] = m.tabs[l]
  <2> DEFINE l == IF j < i THEN j ELSE j + 1
  <2>1. l \in 1 .. k /\ l # i
    BY <1>1
  <2> QED
    BY <1>2, <2>1
<1>6. Unique(s)
  <2>1. SUFFICES ASSUME NEW a \in 1 .. k - 1, NEW b \in 1 .. k - 1,
                        s[a].id = s[b].id
                 PROVE  a = b
    BY <1>2 DEF Unique
  <2> DEFINE l(j) == IF j < i THEN j ELSE j + 1
  <2>2. l(a) \in 1 .. k /\ l(b) \in 1 .. k
    BY <1>1
  <2>3. m.tabs[l(a)].id = m.tabs[l(b)].id
    BY <1>2, <2>1
  <2>4. l(a) = l(b)
    BY <1>1, <2>2, <2>3 DEF IsStrip, Unique
  <2> QED
    BY <1>1, <2>4
<1>7. IsStrip(zero)
  <2>1. \A j \in DOMAIN s : s[j].id < m.nextId
    BY <1>1, <1>2, <1>5 DEF IsStrip
  <2>2. Len(s) <= MaxOpenTabs
    <3>1. Len(m.tabs) <= MaxOpenTabs /\ MaxOpenTabs \in Nat
      BY TabsAssumption DEF IsStrip
    <3> QED
      BY <1>1, <1>2, <3>1
  <2> QED
    BY <1>2, <1>3, <1>4, <1>6, <2>1, <2>2 DEF IsStrip
<1>8. \A u : contains(zero, u) => contains(m, u) /\ TabOf(zero, u) = TabOf(m, u)
  <2>1. \A a \in DOMAIN zero.tabs :
            \E b \in DOMAIN m.tabs : zero.tabs[a] = m.tabs[b]
    BY <1>1, <1>2, <1>4, <1>5
  <2> QED
    BY <1>7, <2>1, FewerTabs
<1>9. ~contains(zero, t)
  <2>1. \A l \in 1 .. k : l # i => m.tabs[l].id # t
    BY <1>1 DEF IsStrip, Unique
  <2>2. ASSUME NEW j \in 1 .. k - 1 PROVE s[j].id # t
    <3>1. PICK l \in 1 .. k : l # i /\ s[j] = m.tabs[l]
      BY <1>5
    <3> QED
      BY <2>1, <3>1
  <2> QED
    BY <1>2, <1>4, <1>7, <2>2, NoIndex DEF contains
<1>10. ASSUME NEW u, contains(m, u), u # t PROVE contains(zero, u)
  <2>1. PICK l \in 1 .. k : m.tabs[l].id = u
    BY <1>1, <1>10, StripIndex DEF TabOf
  <2>2. l # i
    BY <1>1, <1>10, <2>1
  <2> DEFINE j == IF l < i THEN l ELSE l - 1
  <2>3. j \in 1 .. k - 1 /\ s[j] = m.tabs[l]
    BY <1>1, <1>2, <2>2
  <2>4. j \in DOMAIN zero.tabs /\ zero.tabs[j].id = u
    BY <1>2, <1>4, <2>1, <2>3
  <2> HIDE DEF j
  <2> QED
    BY <1>7, <2>4, StripIndex
<1>11. /\ DOMAIN n = DOMAIN m /\ n.tabs = s /\ n.closed = d
       /\ n.nextId = m.nextId
       /\ n.active = IF i # m.active THEN indexOfId(rest, activeId(m))
                       ELSE IF i <= Len(rest.tabs) THEN i ELSE Len(rest.tabs)
  BY <1>4 DEF closeTab, i, s, d, IsStrip
<1>12. \A u : /\ indexOfId(n, u) = indexOfId(zero, u)
              /\ indexOfId(rest, u) = indexOfId(zero, u)
  BY <1>4, <1>11, SamePlaces
<1> DEFINE Stays == /\ n.active \in 0 .. k - 1 /\ (k # 1 => n.active # 0)
                    /\ activeId(m) # t => activeId(n) = activeId(m)
<1>13. ASSUME i # m.active PROVE Stays
  <2>1. /\ activeId(m) = m.tabs[m.active].id /\ activeId(m) # t
        /\ contains(m, activeId(m))
    <3>1. activeId(m) = m.tabs[m.active].id
      BY <1>1 DEF activeId
    <3>2. m.tabs[m.active].id # t
      BY <1>1, <1>13 DEF IsStrip, Unique
    <3> QED
      BY <3>1, <3>2, StripIndex
  <2>2. contains(zero, activeId(m))
    BY <1>10, <2>1
  <2>3. /\ indexOfId(zero, activeId(m)) \in DOMAIN s
        /\ s[indexOfId(zero, activeId(m))].id = activeId(m)
    BY <1>4, <1>7, <2>2, StripIndex DEF TabOf
  <2>4. n.active = indexOfId(zero, activeId(m))
    BY <1>11, <1>12, <1>13
  <2> QED
    BY <1>1, <1>2, <2>3, <2>4, <1>11 DEF activeId
<1>14. ASSUME i = m.active PROVE Stays
  <2>1. n.active = IF i <= k - 1 THEN i ELSE k - 1
    BY <1>2, <1>4, <1>11, <1>14
  <2>2. activeId(m) = t
    BY <1>1, <1>14 DEF activeId
  <2> QED
    BY <1>1, <2>1, <2>2
<1>15. Stays
  BY <1>13, <1>14
<1> HIDE DEF Stays
<1>16. IsStrip(n)
  <2>1. n.active \in DOMAIN n.tabs \cup {0}
    BY <1>1, <1>2, <1>11, <1>15 DEF Stays
  <2> QED
    BY <1>4, <1>7, <1>11, <2>1 DEF IsStrip
<1>17. \A u : contains(n, u) <=> contains(zero, u)
  BY <1>12 DEF contains
<1>18. \A u : TabOf(n, u) = TabOf(zero, u)
  BY <1>4, <1>11, <1>12 DEF TabOf
<1>19. Others(m, n, t)
  BY <1>8, <1>10, <1>18 DEF Others
<1> QED
  BY <1>1, <1>2, <1>8, <1>9, <1>10, <1>11, <1>15, <1>16, <1>17, <1>19 DEF Stays

\* Tabs are moved: the same ones, the same one active.
LEMMA TabMoved ==
    ASSUME NEW m, IsStrip(m), m.active \in DOMAIN m.tabs,
           NEW from \in DOMAIN m.tabs, NEW to \in DOMAIN m.tabs,
           NEW n, n = moveTab(m, from, to)
    PROVE  /\ IsStrip(n) /\ n.nextId = m.nextId /\ SameIds(m, n)
           /\ \A u : contains(m, u) => TabOf(n, u) = TabOf(m, u)
           /\ n.active \in DOMAIN n.tabs
<1> DEFINE k == Len(m.tabs)
           r == RemoveAt(m.tabs, from)
           e == m.tabs[from]
           s == InsertAt(r, to, e)
           moved == [m EXCEPT !.tabs = s]
           f(j) == IF j < to THEN IF j < from THEN j ELSE j + 1
                     ELSE IF j = to THEN from
                     ELSE IF j - 1 < from THEN j - 1 ELSE j
           g(l) == IF l = from THEN to
                     ELSE LET h == IF l < from THEN l ELSE l - 1
                          IN  IF h < to THEN h ELSE h + 1
<1>1. /\ k \in Nat /\ DOMAIN m.tabs = 1 .. k /\ m.tabs \in Seq(Tabs)
      /\ from \in 1 .. k /\ to \in 1 .. k /\ e \in Tabs /\ e = m.tabs[from]
  BY LenProperties, ElementOfSeq DEF IsStrip
<1> HIDE DEF e
<1>2. /\ r \in Seq(Tabs) /\ Len(r) = k - 1
      /\ \A j \in 1 .. k - 1 : r[j] = m.tabs[IF j < from THEN j ELSE j + 1]
  BY <1>1, Removed
<1> HIDE DEF r
<1>3. /\ s \in Seq(Tabs) /\ Len(s) = k /\ DOMAIN s = 1 .. k /\ s[to] = e
      /\ \A j \in 1 .. to - 1 : s[j] = r[j]
      /\ \A j \in to + 1 .. k : s[j] = r[j - 1]
  <2>1. to \in 1 .. Len(r) + 1 /\ Len(r) + 1 = k
    BY <1>1, <1>2
  <2>2. /\ s \in Seq(Tabs) /\ Len(s) = Len(r) + 1 /\ s[to] = e
        /\ \A j \in 1 .. to - 1 : s[j] = r[j]
        /\ \A j \in to + 1 .. Len(r) + 1 : s[j] = r[j - 1]
    <3>1. e \in Tabs /\ r \in Seq(Tabs) /\ to \in 1 .. Len(r) + 1
      BY <1>1, <1>2, <2>1
    <3> HIDE DEF k
    <3>2. s \in Seq(Tabs) /\ Len(s) = Len(r) + 1
      BY <3>1, Inserted
    <3>3. s[to] = e
      BY <3>1, Inserted
    <3>4. \A j \in 1 .. to - 1 : s[j] = r[j]
      BY <3>1, Inserted
    <3>5. ShiftsUp(r, to, s)
      BY <3>1, InsertedAfter
    <3>6. \A j \in to + 1 .. Len(r) + 1 : s[j] = r[j - 1]
      BY <3>5 DEF ShiftsUp
    <3> QED
      BY <3>2, <3>3, <3>4, <3>6
  <2> HIDE DEF s
  <2>3. DOMAIN s = 1 .. k /\ Len(s) = k
    BY <2>1, <2>2, LenProperties
  <2> QED
    BY <2>1, <2>2, <2>3
<1> HIDE DEF s
<1>4. ASSUME NEW j \in 1 .. k
      PROVE  f(j) \in 1 .. k /\ g(f(j)) = j /\ s[j] = m.tabs[f(j)]
  <2>1. f(j) \in 1 .. k /\ g(f(j)) = j
    BY <1>1
  <2>2. CASE j < to
    <3>1. j \in 1 .. to - 1 /\ j \in 1 .. k - 1
      BY <1>1, <2>2
    <3>2. s[j] = r[j]
      BY <1>3, <3>1
    <3>3. r[j] = m.tabs[IF j < from THEN j ELSE j + 1]
      BY <1>2, <3>1
    <3> QED
      BY <2>2, <3>2, <3>3
  <2>3. CASE j = to
    BY <1>1, <1>3, <2>3
  <2>4. CASE j > to
    <3>1. j - 1 \in 1 .. k - 1 /\ j \in to + 1 .. k
      BY <1>1, <2>4
    <3>2. s[j] = m.tabs[IF j - 1 < from THEN j - 1 ELSE j - 1 + 1]
      BY <1>2, <1>3, <3>1
    <3> QED
      BY <1>1, <2>1, <2>4, <3>2
  <2> QED
    BY <1>1, <2>1, <2>2, <2>3, <2>4
<1>5. ASSUME NEW l \in 1 .. k PROVE g(l) \in 1 .. k /\ f(g(l)) = l
  BY <1>1
<1> HIDE DEF f, g
<1>6. Unique(s)
  <2>1. SUFFICES ASSUME NEW a \in 1 .. k, NEW b \in 1 .. k, s[a].id = s[b].id
                 PROVE  a = b
    BY <1>3 DEF Unique
  <2>2. m.tabs[f(a)].id = m.tabs[f(b)].id
    BY <1>4, <2>1
  <2>3. f(a) = f(b)
    BY <1>1, <1>4, <2>2 DEF IsStrip, Unique
  <2> QED
    BY <1>4, <2>3
<1> DEFINE zero == [m EXCEPT !.tabs = s, !.active = 0]
<1>7. /\ DOMAIN zero = DOMAIN m /\ zero.tabs = s /\ zero.active = 0
      /\ zero.closed = m.closed /\ zero.nextId = m.nextId
      /\ DOMAIN moved = DOMAIN m /\ moved.tabs = s
      /\ moved.closed = m.closed /\ moved.nextId = m.nextId
  BY DEF IsStrip
<1> HIDE DEF zero
<1>8. \A a \in DOMAIN s : \E b \in DOMAIN m.tabs : s[a] = m.tabs[b]
  BY <1>1, <1>3, <1>4
<1>9. \A b \in DOMAIN m.tabs : \E a \in DOMAIN s : s[a] = m.tabs[b]
  <2>1. TAKE b \in DOMAIN m.tabs
  <2>2. g(b) \in DOMAIN s /\ s[g(b)] = m.tabs[b]
    BY <1>1, <1>3, <1>4, <1>5
  <2> QED
    BY <2>2
<1>10. IsStrip(zero)
  <2>1. \A a \in DOMAIN s : s[a].id < m.nextId
    BY <1>8 DEF IsStrip
  <2> QED
    BY <1>3, <1>6, <1>7, <2>1 DEF IsStrip
<1>11. \A u : contains(zero, u) => contains(m, u) /\ TabOf(zero, u) = TabOf(m, u)
  BY <1>7, <1>8, <1>10, FewerTabs
<1>12. \A u : contains(m, u) => contains(zero, u) /\ TabOf(m, u) = TabOf(zero, u)
  BY <1>7, <1>9, <1>10, FewerTabs
<1>13. /\ DOMAIN n = DOMAIN m /\ n.tabs = s /\ n.closed = m.closed
       /\ n.nextId = m.nextId /\ n.active = indexOfId(moved, activeId(m))
  BY <1>7 DEF moveTab, s, r, e, IsStrip
<1> HIDE DEF moved
<1>14. \A u : /\ indexOfId(n, u) = indexOfId(zero, u)
              /\ indexOfId(moved, u) = indexOfId(zero, u)
  BY <1>7, <1>13, SamePlaces
<1>15. activeId(m) = m.tabs[m.active].id /\ contains(m, activeId(m))
  BY <1>1, StripIndex DEF activeId
<1>16. /\ indexOfId(zero, activeId(m)) \in DOMAIN s
       /\ s[indexOfId(zero, activeId(m))].id = activeId(m)
  BY <1>7, <1>10, <1>12, <1>15, StripIndex DEF TabOf
<1>17. n.active \in DOMAIN n.tabs /\ activeId(n) = activeId(m)
  BY <1>3, <1>13, <1>14, <1>16 DEF activeId
<1>18. IsStrip(n)
  BY <1>7, <1>10, <1>13, <1>17 DEF IsStrip
<1>19. \A u : contains(n, u) <=> contains(zero, u)
  BY <1>14 DEF contains
<1>20. \A u : TabOf(n, u) = TabOf(zero, u)
  BY <1>7, <1>13, <1>14 DEF TabOf
<1> QED
  BY <1>11, <1>12, <1>13, <1>17, <1>18, <1>19, <1>20 DEF SameIds

\* Another tab is selected.
LEMMA TabSelected ==
    ASSUME NEW m, IsStrip(m), NEW i \in DOMAIN m.tabs,
           NEW n, n = activateTab(m, i)
    PROVE  /\ IsStrip(n) /\ n.nextId = m.nextId /\ n.active \in DOMAIN n.tabs
           /\ \A u : /\ contains(n, u) <=> contains(m, u)
                     /\ TabOf(n, u) = TabOf(m, u)
<1>1. /\ DOMAIN n = DOMAIN m /\ n.tabs = m.tabs /\ n.active = i
      /\ n.closed = m.closed /\ n.nextId = m.nextId
  BY DEF activateTab, IsStrip
<1>2. IsStrip(n)
  BY <1>1 DEF IsStrip
<1>3. \A u : indexOfId(n, u) = indexOfId(m, u)
  BY <1>1, SamePlaces
<1> QED
  BY <1>1, <1>2, <1>3 DEF contains, TabOf

\* The active tab is one of the strip.
LEMMA ActiveIsThere ==
    ASSUME NEW m, IsStrip(m), m.active \in DOMAIN m.tabs
    PROVE  /\ activeId(m) = m.tabs[m.active].id /\ activeId(m) \in TabIds
           /\ contains(m, activeId(m)) /\ activeId(m) # NoTab
<1>1. m.active # 0
  BY LenProperties DEF IsStrip
<1>2. activeId(m) = m.tabs[m.active].id
  BY <1>1 DEF activeId
<1>3. contains(m, activeId(m)) /\ activeId(m) \in TabIds
  BY <1>2, StripIndex
<1>4. NoTab \notin TabIds
  BY TabsAssumption, FS_CardinalityType DEF NoTab
<1> QED
  BY <1>2, <1>3, <1>4

-----------------------------------------------------------------------------
\* Addresses and snapshots.

\* What an address resolves to, in a saved session and now.
LEMMA KindsOf ==
    ASSUME NEW a \in Addresses
    PROVE  /\ KindOf[a] \in {"host", "web", "app", "none"}
           /\ RestoredKind[a] = "error" \/ KindOf[a] \in {RestoredKind[a], "none"}
           /\ RestoredKind[a] \in {"host", "web", "app", "error"}
           /\ KindOf[a] = "app" => PackageOf[a] # NoPackage
<1> DEFINE parsed == Parsed[a]
           r == match(createPilotRouteRegistry, parsed.path)
           refused == parsed.http /\ ~isQmlDemoRoute(r.package, parsed.path)
<1>1. KindOf[a] = IF parsed.kind = "newtab" THEN "host"
                    ELSE IF parsed.kind = "app" /\ ~refused /\ r.engine = "QmlWorker"
                    THEN "app"
                    ELSE IF parsed.kind = "app" /\ ~refused /\ r.engine = "WebEngine"
                    THEN "web" ELSE "none"
  BY DEF KindOf, resolveAddress
<1>2. RestoredKind[a] =
        IF parsed.kind = "newtab" THEN "host"
          ELSE IF parsed.kind = "app" /\ r.engine = "WebEngine" THEN "web"
          ELSE IF /\ parsed.kind = "app" /\ r.engine = "QmlWorker"
                  /\ \/ r.package = AppId
                     \/ isQmlDemoRoute(r.package, parsed.path)
          THEN "app" ELSE "error"
  BY DEF RestoredKind, restoredKind
<1> HIDE DEF parsed, r, refused
<1> QED
  BY <1>1, <1>2, StartsAssumption

\* A new tab's snapshot, and one that a session file held.
LEMMA NewSnapshotOK == NewSnapshot(NewTab) \in Snaps
<1>1. NewTab \in Addresses /\ KindOf[NewTab] = "host"
  BY TabsAssumption DEF KindOf, resolveAddress
<1>2. /\ <<NewTab>> \in Seq(Addresses) /\ Len(<<NewTab>>) = 1
      /\ 1 \in DOMAIN <<NewTab>> /\ <<NewTab>>[1] = NewTab
  BY <1>1
<1>3. 1 <= MaxHistoryEntries
  BY TabsAssumption
<1> QED
  BY <1>1, <1>2, <1>3 DEF NewSnapshot, Snaps, Snapshots

\* validateAndResolve leaves a snapshot that is good.
LEMMA ResolvedSnapshot ==
    ASSUME NEW s \in Snapshots
    PROVE  [s EXCEPT !.kind = RestoredKind[s.address]] \in Snaps
<1>1. s.address \in Addresses
  BY DEF Snapshots
<1> DEFINE k == RestoredKind[s.address]
<1>2. /\ k \in {"host", "web", "app", "error"}
      /\ k = "error" \/ KindOf[s.address] \in {k, "none"}
  BY <1>1, KindsOf
<1> HIDE DEF k
<1> DEFINE z == [s EXCEPT !.kind = k]
<1>3. /\ z.kind = k /\ z.address = s.address /\ z.history = s.history
      /\ z.at = s.at
      /\ z \in [kind : {"host", "web", "app", "error"}, address : Addresses,
                history : Seq(Addresses), at : Nat]
  BY <1>2 DEF Snapshots
<1> HIDE DEF z
<1>4. z \in Snaps
  BY <1>2, <1>3 DEF Snaps, Snapshots
<1> QED
  BY <1>4 DEF z, k

\* The tab of a committed navigation: at the address, with its kind, and
\* dormant if it was of another.
Moved(b, n, address) ==
    /\ n \in Tabs /\ n.id = b.id /\ n.snap.kind = KindOf[address]
    /\ n.snap.address = address
    /\ n.life = IF b.snap.kind = KindOf[address] THEN b.life ELSE "Dormant"

\* applyValidatedKind.
LEMMA KindApplied ==
    ASSUME NEW b \in Tabs, NEW snap \in Snapshots,
           KindOf[snap.address] # "none",
           NEW c, c = [b EXCEPT !.snap = snap], snap.kind = b.snap.kind,
           NEW n, n = applyValidatedKind(c, KindOf[snap.address])
    PROVE  Moved(b, n, snap.address)
<1> DEFINE k == KindOf[snap.address]
           s == [snap EXCEPT !.kind = k]
<1>1. snap.address \in Addresses
  BY DEF Snapshots
<1>2. k \in {"host", "web", "app", "error"}
  BY <1>1, KindsOf
<1> HIDE DEF k
<1>3. /\ s.kind = k /\ s.address = snap.address /\ s.history = snap.history
      /\ s.at = snap.at
      /\ s \in [kind : {"host", "web", "app", "error"}, address : Addresses,
                history : Seq(Addresses), at : Nat]
  BY <1>2 DEF Snapshots
<1> HIDE DEF s
<1>4. s \in Snaps
  BY <1>3 DEF Snaps, Snapshots, k
<1>5. snap.kind = k => snap = s
  BY DEF s, Snapshots
<1>6. n = IF snap.kind = k THEN [b EXCEPT !.snap = s]
            ELSE [b EXCEPT !.snap = s, !.life = "Dormant", !.loading = FALSE]
  BY <1>5 DEF applyValidatedKind, Tabs, s, k
<1> QED
  BY <1>3, <1>4, <1>6 DEF Moved, Tabs, Lives, k

\* A new address.
LEMMA Navigated ==
    ASSUME NEW b \in Tabs, NEW address \in Addresses, KindOf[address] # "none",
           NEW n, n = navigated(b, address)
    PROVE  Moved(b, n, address)
<1> DEFINE h == b.snap.history
           at == b.snap.at
           front == SubSeq(h, 1, at)
           longer == Append(front, address)
           kept == IF Len(longer) > MaxHistoryEntries THEN Tail(longer)
                                                      ELSE longer
           snap == [b.snap EXCEPT !.history = kept, !.at = Len(kept),
                                  !.address = address]
           c == [b EXCEPT !.snap.history = kept, !.snap.at = Len(kept),
                          !.snap.address = address]
<1>1. /\ b.snap \in Snapshots /\ h \in Seq(Addresses) /\ at \in 1 .. Len(h)
      /\ Len(h) \in Nat /\ Len(h) <= MaxHistoryEntries
      /\ MaxHistoryEntries \in Nat \ {0} /\ h[at] = b.snap.address
  BY LenProperties, TabsAssumption DEF Tabs, Snaps, Snapshots
<1>2. front \in Seq(Addresses) /\ Len(front) = at
  <2>1. \A i \in 1 .. at : h[i] \in Addresses
    BY <1>1, ElementOfSeq
  <2>2. /\ front \in Seq(Addresses)
        /\ Len(front) = IF 1 <= at THEN at - 1 + 1 ELSE 0
    BY <1>1, <2>1, SubSeqProperties
  <2> QED
    BY <1>1, <2>2
<1> HIDE DEF front
<1>3. /\ longer \in Seq(Addresses) /\ longer # <<>> /\ Len(longer) = at + 1
      /\ longer[at + 1] = address
  BY <1>2, AppendProperties
<1> HIDE DEF longer
<1>4. /\ Tail(longer) \in Seq(Addresses) /\ Len(Tail(longer)) = at
      /\ Tail(longer)[at] = address
  <2>1. /\ Tail(longer) \in Seq(Addresses) /\ Len(Tail(longer)) = Len(longer) - 1
        /\ \A i \in 1 .. Len(Tail(longer)) : Tail(longer)[i] = longer[i + 1]
    BY <1>3, HeadTailProperties
  <2> QED
    BY <1>1, <1>3, <2>1
<1>5. /\ kept \in Seq(Addresses) /\ Len(kept) \in 1 .. MaxHistoryEntries
      /\ kept[Len(kept)] = address
  BY <1>1, <1>3, <1>4
<1> HIDE DEF kept
<1>6. DOMAIN kept = 1 .. Len(kept)
  BY <1>5, LenProperties
<1>7. /\ snap.kind = b.snap.kind /\ snap.address = address
      /\ snap.history = kept /\ snap.at = Len(kept)
      /\ snap \in [kind : {"host", "web", "app", "error"}, address : Addresses,
                   history : Seq(Addresses), at : Nat]
  <2> DEFINE l == Len(kept)
             z == [b.snap EXCEPT !.history = kept, !.at = l,
                                 !.address = address]
  <2>1. l \in Nat
    BY <1>1, <1>5
  <2> HIDE DEF l
  <2>2. /\ z.kind = b.snap.kind /\ z.address = address
        /\ z.history = kept /\ z.at = l
        /\ z \in [kind : {"host", "web", "app", "error"}, address : Addresses,
                  history : Seq(Addresses), at : Nat]
    BY <1>1, <1>5, <2>1 DEF Snapshots
  <2>3. snap = z
    BY DEF l
  <2> HIDE DEF z, snap
  <2> QED
    BY <2>2, <2>3 DEF l
<1>8. c = [b EXCEPT !.snap = snap]
  BY DEF Tabs
<1> HIDE DEF snap, c
<1>9. snap \in Snapshots
  BY <1>5, <1>6, <1>7 DEF Snapshots
<1>10. n = applyValidatedKind(IF h[at] = address THEN b ELSE c, KindOf[address])
  BY DEF navigated, c, kept, longer, front
<1>11. CASE h[at] = address
  <2>1. b.snap.address = address /\ b = [b EXCEPT !.snap = b.snap]
    BY <1>1, <1>11 DEF Tabs
  <2>2. n = applyValidatedKind(b, KindOf[address])
    BY <1>10, <1>11
  <2> QED
    BY <1>1, <2>1, <2>2, KindApplied
<1>12. CASE h[at] # address
  <2>1. n = applyValidatedKind(c, KindOf[address])
    BY <1>10, <1>12
  <2> QED
    BY <1>7, <1>8, <1>9, <2>1, KindApplied
<1> QED
  BY <1>11, <1>12

\* An address of the history.
LEMMA Traversed ==
    ASSUME NEW b \in Tabs, NEW target \in DOMAIN b.snap.history,
           KindOf[b.snap.history[target]] # "none",
           NEW n, n = traversed(b, target)
    PROVE  Moved(b, n, b.snap.history[target])
<1> DEFINE address == b.snap.history[target]
           snap == [b.snap EXCEPT !.at = target, !.address = address]
           c == [b EXCEPT !.snap.at = target, !.snap.address = address]
<1>1. /\ b.snap \in Snapshots /\ target \in Nat
      /\ b.snap.history \in Seq(Addresses)
  BY LenProperties DEF Tabs, Snaps, Snapshots
<1>2. address \in Addresses
  BY <1>1, LenProperties, ElementOfSeq
<1> HIDE DEF address
<1>3. /\ snap.kind = b.snap.kind /\ snap.address = address
      /\ snap.history = b.snap.history /\ snap.at = target
      /\ snap \in [kind : {"host", "web", "app", "error"}, address : Addresses,
                   history : Seq(Addresses), at : Nat]
  BY <1>1, <1>2 DEF Snapshots
<1>4. c = [b EXCEPT !.snap = snap]
  BY DEF Tabs
<1> HIDE DEF snap, c
<1>5. snap \in Snapshots
  BY <1>1, <1>3 DEF Snapshots, address
<1>6. n = applyValidatedKind(c, KindOf[snap.address])
  BY <1>3 DEF traversed, c, address
<1>7. KindOf[snap.address] # "none"
  BY <1>3 DEF address
<1> QED
  BY <1>3, <1>4, <1>5, <1>6, <1>7, KindApplied DEF address

-----------------------------------------------------------------------------
\* The invariant.

\* The fields of a window.
Fields == DOMAIN EmptyWindow
\* A controller: a page was connected at no later navigation.
IsCtl(c) ==
    /\ DOMAIN c = DOMAIN NoController
    /\ c.inc \in Nat /\ c.webInc \in Nat /\ c.webInc <= c.inc

\* The controller c of the tab b: they agree on the life of the tab, and while
\* the signals or the failure of a page count no package is there.
PageCounts(c) == c.web # 0 /\ (c.webInc = c.inc \/ c.failed)
\* Controller and model agree on a tab, and a tab with a page has no package.
Agrees(b, c) == c.life = b.life /\ (PageCounts(c) => c.pkg = NoPackage)
\* Only an app's tab is of a Worker's kind, and only a web address has a page
\* that counts; a tab that was never started has none.
Placed(b, c) ==
    /\ c.kind = "worker" => b.snap.kind = "app"
    /\ PageCounts(c) => b.snap.kind = "web"
\* That, and a tab that was never started has no page.
Settled(b, c) == Placed(b, c) /\ (c.life = "Dormant" => c.web = 0)

\* The tab v is the one that is shown; l's content is about to be started.
TabOK(x, t, v, l) ==
    /\ IsCtl(x.ctl[t])
    /\ inMap(x, t) <=> contains(x.m, t)
    /\ contains(x.m, t) =>
         /\ Agrees(TabOf(x.m, t), x.ctl[t])
         /\ t # l => Settled(TabOf(x.m, t), x.ctl[t])
         /\ x.ctl[t].active <=> t = v

\* A site on its way is for a navigation that is over, or is the tab's own to
\* a package.
SiteOK(x, s) ==
    /\ DOMAIN s = {"t", "nav", "address", "step"}
    /\ s.t \in TabIds /\ s.t < x.m.nextId /\ s.nav \in Nat
    /\ inMap(x, s.t) =>
         /\ s.nav <= x.ctl[s.t].inc
         /\ s.nav = x.ctl[s.t].inc => TabOf(x.m, s.t).snap.kind = "app"
\* A job of the coordinator.
JobOK(x, j) ==
    /\ j.t \in TabIds
    /\ j.j \in {"launch", "close", "cancel", "exited", "install", "admit"}
    /\ j.j = "install" => SiteOK(x, j.site)
\* A posted event.
EventOK(x, e) ==
    /\ e.t \in TabIds
    /\ e.e \in {"activate", "retired", "rejected", "actions", "admitted",
                "refused", "installed", "page", "renderer"}
    /\ e.e = "installed" => SiteOK(x, e.site) /\ e.done \in BOOLEAN
    /\ e.e = "actions" =>
         /\ e.actions[1].kind \in {"Launch", "Stop", "Crash"}
         /\ ~(Len(e.actions) < 2) =>
              e.actions[2].kind \in {"Launch", "Stop", "Crash"}

IsQueue(q) == q \in Seq(ToSet(q))
\* All that is queued.
Queued(x) ==
    /\ IsQueue(x.jobs) /\ \A j \in ToSet(x.jobs) : JobOK(x, j)
    /\ IsQueue(x.events) /\ \A e \in ToSet(x.events) : EventOK(x, e)
    /\ \A s \in x.sites : SiteOK(x, s)

\* A window in the middle of a handler.
Well(x, v, l) ==
    /\ DOMAIN x = Fields /\ DOMAIN x.ctl = TabIds /\ IsStrip(x.m)
    /\ \A t \in TabIds : TabOK(x, t, v, l)
    /\ Queued(x)

\* Between two handlers: the tab that is shown is the active one, and its
\* content was started.
Stable(x) ==
    /\ Well(x, x.visible, NoTab)
    /\ x.m.active \in DOMAIN x.m.tabs /\ x.visible = activeId(x.m)
    /\ x.ctl[x.visible].life # "Dormant"

-----------------------------------------------------------------------------
\* What an operation on one tab leaves as it is.

\* The same tabs, at the same addresses; none is put to sleep.
Same(x, y) ==
    /\ sessionSnapshot(y.m) = sessionSnapshot(x.m) /\ SameIds(x.m, y.m)
    /\ \A u : contains(x.m, u) => TabOf(y.m, u).snap = TabOf(x.m, u).snap
    /\ y.m.nextId = x.m.nextId /\ y.visible = x.visible
    /\ x.m.active \in DOMAIN x.m.tabs => y.m.active \in DOMAIN y.m.tabs
    /\ \A u \in TabIds :
         x.ctl[u].life # "Dormant" => y.ctl[u].life # "Dormant"

\* Two such steps are one, ...
LEMMA SameTwice ==
    ASSUME NEW x, NEW y, NEW z, Same(x, y), Same(y, z)
    PROVE  Same(x, z)
<1>1. /\ sessionSnapshot(z.m) = sessionSnapshot(x.m) /\ SameIds(x.m, z.m)
      /\ z.m.nextId = x.m.nextId /\ z.visible = x.visible
      /\ x.m.active \in DOMAIN x.m.tabs => z.m.active \in DOMAIN z.m.tabs
      /\ \A u \in TabIds :
           x.ctl[u].life # "Dormant" => z.ctl[u].life # "Dormant"
  BY DEF Same, SameIds
<1>2. \A u : contains(x.m, u) => TabOf(z.m, u).snap = TabOf(x.m, u).snap
  BY DEF Same, SameIds
<1> QED
  BY <1>1, <1>2 DEF Same

\* ... and none is one.
LEMMA SameItself == ASSUME NEW x PROVE Same(x, x)
BY DEF Same, SameIds

\* The navigations of the tabs only move on, and a tab keeps its kind while it
\* stays in one.
Onward(x, y) ==
    /\ x.m.nextId \in Nat /\ y.m.nextId \in Nat /\ x.m.nextId <= y.m.nextId
    /\ \A t \in TabIds : inMap(y, t) =>
         \/ t >= x.m.nextId
         \/ /\ inMap(x, t) /\ x.ctl[t].inc \in Nat /\ y.ctl[t].inc \in Nat
            /\ x.ctl[t].inc <= y.ctl[t].inc
            /\ y.ctl[t].inc = x.ctl[t].inc =>
                 TabOf(y.m, t).snap.kind = TabOf(x.m, t).snap.kind

\* A site on its way stays so.
LEMMA SiteMovesOn ==
    ASSUME NEW x, NEW y, Onward(x, y), NEW s, SiteOK(x, s)
    PROVE  SiteOK(y, s)
<1>1. s.t \in TabIds /\ s.t \in Nat /\ s.nav \in Nat
  BY TabsAssumption, FS_CardinalityType DEF SiteOK
<1>2. s.t < y.m.nextId
  BY <1>1 DEF Onward, SiteOK
<1>3. ASSUME inMap(y, s.t)
      PROVE  /\ s.nav <= y.ctl[s.t].inc
             /\ s.nav = y.ctl[s.t].inc => TabOf(y.m, s.t).snap.kind = "app"
  <2>1. /\ inMap(x, s.t) /\ x.ctl[s.t].inc \in Nat /\ y.ctl[s.t].inc \in Nat
        /\ x.ctl[s.t].inc <= y.ctl[s.t].inc
        /\ y.ctl[s.t].inc = x.ctl[s.t].inc =>
             TabOf(y.m, s.t).snap.kind = TabOf(x.m, s.t).snap.kind
    BY <1>1, <1>3 DEF Onward, SiteOK
  <2> QED
    BY <1>1, <2>1 DEF SiteOK
<1> QED
  BY <1>1, <1>2, <1>3 DEF SiteOK

\* What is queued stays good.
LEMMA QueuedMovesOn ==
    ASSUME NEW x, NEW y, Onward(x, y), Queued(x), y.jobs = x.jobs,
           y.events = x.events, y.sites = x.sites
    PROVE  Queued(y)
<1>1. \A s : SiteOK(x, s) => SiteOK(y, s)
  BY SiteMovesOn
<1>2. \A j : JobOK(x, j) => JobOK(y, j)
  BY <1>1 DEF JobOK
<1>3. \A e : EventOK(x, e) => EventOK(y, e)
  BY <1>1 DEF EventOK
<1> QED
  BY <1>1, <1>2, <1>3 DEF Queued

\* Only t's tab and controller differ.
Relives(m, n, t) ==
    /\ IsStrip(n) /\ SameIds(m, n) /\ Others(m, n, t)
    /\ TabOf(n, t).snap = TabOf(m, t).snap
    /\ n.nextId = m.nextId /\ n.active = m.active /\ DOMAIN n.tabs = DOMAIN m.tabs
    /\ sessionSnapshot(n) = sessionSnapshot(m)
\* A step that leaves alone what is queued.
Leaves(x, y) ==
    /\ DOMAIN y = DOMAIN x /\ y.visible = x.visible
    /\ y.jobs = x.jobs /\ y.events = x.events /\ y.sites = x.sites

\* Only the controller of tab t changes.
Gets(x, y, t, c) ==
    /\ DOMAIN y.ctl = DOMAIN x.ctl /\ y.ctl[t] = c
    /\ \A u \in TabIds : u # t => y.ctl[u] = x.ctl[u]

\* A strip that stays as it is.
LEMMA RelivesItself == ASSUME NEW m, IsStrip(m), NEW t PROVE Relives(m, m, t)
BY DEF Relives, SameIds, Others

\* The strip once a tab has another life or spinner.
Relived(m, t, life1, loading) ==
    [m EXCEPT !.tabs[indexOfId(m, t)] = [@ EXCEPT !.life = life1,
                                                  !.loading = loading]]

\* A tab whose life and loading change.
LEMMA RelivesLife ==
    ASSUME NEW m, IsStrip(m), NEW t, contains(m, t), NEW life1 \in Lives,
           NEW loading \in BOOLEAN, NEW n, n = Relived(m, t, life1, loading)
    PROVE  /\ Relives(m, n, t) /\ TabOf(n, t).life = life1
           /\ TabOf(n, t).loading = loading
<1> DEFINE b == TabOf(m, t)
           c == [b EXCEPT !.life = life1, !.loading = loading]
<1>1. b \in Tabs /\ b.id = t
  BY StripIndex
<1> HIDE DEF b
<1>2. c \in Tabs /\ c.id = t /\ c.snap = b.snap /\ c.life = life1
      /\ c.loading = loading
  BY <1>1 DEF Tabs
<1> HIDE DEF c
<1>3. n = [m EXCEPT !.tabs[indexOfId(m, t)] = c]
  <2>1. /\ indexOfId(m, t) \in DOMAIN m.tabs /\ "tabs" \in DOMAIN m
        /\ m.tabs[indexOfId(m, t)] = b
    BY StripIndex DEF IsStrip, b, TabOf
  <2> QED
    BY <2>1 DEF c, Relived
<1> QED
  BY <1>2, <1>3, TabSet DEF Relives, b

\* A controller that is changed as it may.
Fits(x, y, t, v, k, c) ==
    /\ IsCtl(c) /\ x.ctl[t].inc <= c.inc
    /\ c.life = "Dormant" => x.ctl[t].life = "Dormant"
    /\ c.active <=> t = v
    /\ Agrees(TabOf(y.m, t), c)
    /\ t # k => Settled(TabOf(y.m, t), c)

\* The one way the handlers change a tab: its controller and the life of the
\* tab change together, and fit.
LEMMA Put ==
    ASSUME NEW x, NEW v, NEW l, Well(x, v, l),
           NEW t \in TabIds, contains(x.m, t),
           NEW c, NEW y, Leaves(x, y), Relives(x.m, y.m, t),
           Gets(x, y, t, c),
           NEW k, l \in {k, t, NoTab}, Fits(x, y, t, v, k, c)
    PROVE  Well(y, v, k) /\ Same(x, y) /\ y.ctl[t] = c /\ inMap(y, t)
<1>1. /\ DOMAIN x = Fields /\ DOMAIN x.ctl = TabIds /\ IsStrip(x.m)
      /\ \A u \in TabIds : TabOK(x, u, v, l)
      /\ Queued(x)
  BY DEF Well
<1>2. /\ y.ctl[t] = c /\ DOMAIN y.ctl = TabIds
      /\ \A u \in TabIds : u # t => y.ctl[u] = x.ctl[u]
  BY <1>1 DEF Gets
<1>3. IsStrip(y.m) /\ contains(y.m, t)
  BY DEF Relives, SameIds
<1>4. c # NoController
  <2>1. TabOf(y.m, t) \in Tabs
    BY <1>3, StripIndex
  <2>2. c.life \in Lives
    BY <2>1 DEF Fits, Agrees, Tabs
  <2> QED
    BY <2>2 DEF NoController, Lives
<1>5. TabOK(y, t, v, k)
  BY <1>2, <1>3, <1>4 DEF TabOK, Fits, inMap
<1>6. ASSUME NEW u \in TabIds, u # t PROVE TabOK(y, u, v, k)
  <2>1. TabOK(x, u, v, l) /\ y.ctl[u] = x.ctl[u]
    BY <1>1, <1>2, <1>6
  <2>2. contains(y.m, u) <=> contains(x.m, u)
    BY DEF Relives, SameIds
  <2>3. contains(x.m, u) => TabOf(y.m, u) = TabOf(x.m, u)
    BY <1>6 DEF Relives, Others
  <2>4. u # k => u # l
    BY <1>6, TabsAssumption, FS_CardinalityType DEF NoTab
  <2> QED
    BY <2>1, <2>2, <2>3, <2>4 DEF TabOK, inMap
<1>7. inMap(x, t) /\ IsCtl(x.ctl[t])
  BY <1>1 DEF TabOK
<1>8. \A u \in TabIds : inMap(y, u) => inMap(x, u)
  BY <1>2, <1>7 DEF inMap
<1>9. Onward(x, y)
  <2>1. x.m.nextId \in Nat /\ y.m.nextId = x.m.nextId
    BY <1>1 DEF IsStrip, Relives
  <2>2. ASSUME NEW u \in TabIds, inMap(y, u)
        PROVE  /\ inMap(x, u) /\ x.ctl[u].inc \in Nat /\ y.ctl[u].inc \in Nat
               /\ x.ctl[u].inc <= y.ctl[u].inc
               /\ TabOf(y.m, u).snap.kind = TabOf(x.m, u).snap.kind
    <3>1. CASE u = t
      BY <1>2, <1>7, <3>1 DEF Fits, IsCtl, Relives
    <3>2. CASE u # t
      <4>1. TabOK(x, u, v, l) /\ y.ctl[u] = x.ctl[u] /\ inMap(x, u)
        BY <1>1, <1>2, <1>8, <2>2, <3>2
      <4>2. TabOf(y.m, u) = TabOf(x.m, u)
        BY <3>2, <4>1 DEF Relives, Others, TabOK
      <4> QED
        BY <4>1, <4>2 DEF TabOK, IsCtl
    <3> QED
      BY <3>1, <3>2
  <2> QED
    BY <2>1, <2>2 DEF Onward
<1>10. Queued(y)
  BY <1>1, <1>9, QueuedMovesOn DEF Leaves
<1>11. Well(y, v, k)
  BY <1>1, <1>2, <1>3, <1>5, <1>6, <1>10 DEF Well, Leaves
<1>12. \A u : contains(x.m, u) => TabOf(y.m, u).snap = TabOf(x.m, u).snap
  BY DEF Relives, Others
<1>13. \A u \in TabIds :
         x.ctl[u].life # "Dormant" => y.ctl[u].life # "Dormant"
  BY <1>2 DEF Fits
<1>14. Same(x, y)
  BY <1>12, <1>13 DEF Same, Relives, Leaves
<1> QED
  BY <1>2, <1>4, <1>11, <1>14 DEF inMap

\* What a tab of the strip has.
LEMMA TabFacts ==
    ASSUME NEW x, NEW v, NEW l, Well(x, v, l), NEW t \in TabIds
    PROVE  /\ IsStrip(x.m) /\ IsCtl(x.ctl[t]) /\ DOMAIN x.ctl = TabIds
           /\ DOMAIN x = Fields /\ (inMap(x, t) <=> contains(x.m, t))
           /\ contains(x.m, t) =>
                /\ Agrees(TabOf(x.m, t), x.ctl[t])
                /\ t # l => Settled(TabOf(x.m, t), x.ctl[t])
                /\ x.ctl[t].active <=> t = v
                /\ TabOf(x.m, t) \in Tabs
                /\ x.ctl[t].life \in Lives
<1>1. contains(x.m, t) => TabOf(x.m, t) \in Tabs
  BY StripIndex DEF Well
<1> QED
  BY <1>1 DEF Well, TabOK, Agrees, Tabs

-----------------------------------------------------------------------------
\* TabController.

\* A controller is replaced by one that fits; the strip stays.
LEMMA SetCtlOK ==
    ASSUME NEW x, NEW v, NEW l, Well(x, v, l),
           NEW t \in TabIds, contains(x.m, t), NEW c,
           NEW k, l \in {k, t, NoTab}, Fits(x, x, t, v, k, c),
           NEW y, y = SetCtl(x, t, c)
    PROVE  Well(y, v, k) /\ Same(x, y) /\ y.ctl[t] = c /\ inMap(y, t)
<1>1. DOMAIN x = Fields /\ IsStrip(x.m) /\ DOMAIN x.ctl = TabIds
  BY DEF Well
<1>2. y.m = x.m /\ Leaves(x, y) /\ Gets(x, y, t, c)
  BY <1>1 DEF SetCtl, Leaves, Gets, Fields, EmptyWindow
<1>3. Relives(x.m, y.m, t)
  BY <1>1, <1>2, RelivesItself
<1>4. Fits(x, y, t, v, k, c)
  BY <1>2 DEF Fits
<1> QED
  BY <1>2, <1>3, <1>4, Put

\* transitionTo: the life changes in both.
LEMMA TransitionOK ==
    ASSUME NEW x, NEW v, NEW l, Well(x, v, l),
           NEW t \in TabIds, contains(x.m, t),
           NEW life1 \in Lives \ {"Dormant"},
           NEW k, l \in {k, t, NoTab},
           t # k => Placed(TabOf(x.m, t), x.ctl[t]),
           NEW y, y = transitionTo(x, t, life1)
    PROVE  /\ Well(y, v, k) /\ Same(x, y) /\ inMap(y, t)
           /\ y.ctl[t] = [x.ctl[t] EXCEPT !.life = life1]
<1> DEFINE i == indexOfId(x.m, t)
           c == [x.ctl[t] EXCEPT !.life = life1]
           a == Loading(x, t)
           w1 == [x EXCEPT !.ctl[t].life = life1]
<1>1. /\ DOMAIN x = Fields /\ IsStrip(x.m) /\ DOMAIN x.ctl = TabIds
      /\ IsCtl(x.ctl[t]) /\ Agrees(TabOf(x.m, t), x.ctl[t])
      /\ x.ctl[t].active <=> t = v
      /\ TabOf(x.m, t) \in Tabs
  BY TabFacts
<1>2. a \in BOOLEAN /\ a = TabOf(x.m, t).loading
  BY <1>1 DEF Loading, TabOf, Tabs
<1> HIDE DEF a
<1>3. w1.m = x.m /\ DOMAIN w1 = Fields /\ Leaves(x, w1) /\ Gets(x, w1, t, c)
  BY <1>1 DEF Leaves, Gets, Fields, EmptyWindow
<1> HIDE DEF w1
<1>4. y = [w1 EXCEPT !.m.tabs[i] = [@ EXCEPT !.life = life1, !.loading = a]]
  <2>1. i # 0
    BY DEF contains
  <2>2. y = SetModel(w1, t, life1, a)
    BY DEF transitionTo, w1, a
  <2> QED
    BY <1>3, <2>1, <2>2 DEF SetModel
<1>5. /\ y.m = [x.m EXCEPT !.tabs[i] = [@ EXCEPT !.life = life1, !.loading = a]]
      /\ Leaves(x, y) /\ Gets(x, y, t, c)
  BY <1>3, <1>4 DEF Leaves, Gets, Fields, EmptyWindow
<1> HIDE DEF i
<1>6. Relives(x.m, y.m, t) /\ TabOf(y.m, t).life = life1
  <2>1. y.m = Relived(x.m, t, life1, a)
    BY <1>5 DEF i, Relived
  <2> QED
    BY <1>1, <1>2, <2>1, RelivesLife
<1>7. /\ DOMAIN c = DOMAIN NoController /\ c.inc = x.ctl[t].inc
      /\ c.webInc = x.ctl[t].webInc /\ c.web = x.ctl[t].web
      /\ c.failed = x.ctl[t].failed /\ c.pkg = x.ctl[t].pkg
      /\ c.kind = x.ctl[t].kind /\ c.active = x.ctl[t].active
      /\ c.life = life1
  BY <1>1 DEF IsCtl, NoController
<1> HIDE DEF c
<1>8. TabOf(y.m, t).snap = TabOf(x.m, t).snap
  BY <1>6 DEF Relives
<1>9. /\ IsCtl(c) /\ x.ctl[t].inc <= c.inc /\ Agrees(TabOf(y.m, t), c)
      /\ t # k => Settled(TabOf(y.m, t), c)
  BY <1>1, <1>6, <1>7, <1>8 DEF IsCtl, Agrees, Settled, Placed, PageCounts
<1>10. c.active <=> t = v
  BY <1>1, <1>7
<1>11. Fits(x, y, t, v, k, c)
  BY <1>7, <1>9, <1>10 DEF Fits
<1>12. Well(y, v, k) /\ Same(x, y) /\ y.ctl[t] = c /\ inMap(y, t)
  BY <1>5, <1>6, <1>11, Put
<1> QED
  BY <1>12 DEF c

\* setLoadState: only the spinner changes.
LEMMA LoadStateOK ==
    ASSUME NEW x, NEW v, NEW l, Well(x, v, l), NEW t \in TabIds,
           NEW loading \in BOOLEAN, NEW y, y = setLoadState(x, t, loading)
    PROVE  Well(y, v, l) /\ Same(x, y) /\ y.ctl = x.ctl
<1>1. CASE ~contains(x.m, t)
  BY <1>1, SameItself DEF setLoadState
<1>2. CASE contains(x.m, t)
  <2> DEFINE i == indexOfId(x.m, t)
             c == x.ctl[t]
             a == x.m.tabs[i].life
  <2>1. /\ DOMAIN x = Fields /\ IsStrip(x.m) /\ DOMAIN x.ctl = TabIds
        /\ IsCtl(c) /\ Agrees(TabOf(x.m, t), c)
        /\ t # l => Settled(TabOf(x.m, t), c)
        /\ c.active <=> t = v
        /\ TabOf(x.m, t) \in Tabs
    BY <1>2, TabFacts
  <2>2. a \in Lives /\ a = TabOf(x.m, t).life
    BY <2>1 DEF TabOf, Tabs
  <2> HIDE DEF a
  <2>3. y = [x EXCEPT !.m.tabs[i] = [@ EXCEPT !.life = a, !.loading = loading]]
    BY <1>2 DEF setLoadState, SetModel, contains, a
  <2>4. /\ y.m = [x.m EXCEPT !.tabs[i] = [@ EXCEPT !.life = a,
                                                   !.loading = loading]]
        /\ Leaves(x, y) /\ y.ctl = x.ctl
    BY <2>1, <2>3 DEF Leaves, Fields, EmptyWindow
  <2> HIDE DEF i
  <2>5. Relives(x.m, y.m, t) /\ TabOf(y.m, t).life = a
    <3>1. y.m = Relived(x.m, t, a, loading)
      BY <2>4 DEF i, Relived
    <3> QED
      BY <1>2, <2>1, <2>2, <3>1, RelivesLife
  <2> HIDE DEF c
  <2>6. TabOf(y.m, t).snap = TabOf(x.m, t).snap
    BY <2>5 DEF Relives
  <2>7. Agrees(TabOf(y.m, t), c) /\ (t # l => Settled(TabOf(y.m, t), c))
    BY <2>1, <2>2, <2>5, <2>6 DEF Agrees, Settled, Placed
  <2>8. Fits(x, y, t, v, l, c) /\ Gets(x, y, t, c)
    BY <2>1, <2>4, <2>7 DEF Fits, Gets, IsCtl, c
  <2> QED
    BY <1>2, <2>4, <2>5, <2>8, Put
<1> QED
  BY <1>1, <1>2

\* The controllers that have a tab are the ones of the strip.
LEMMA Mapped ==
    ASSUME NEW x, NEW v, NEW l, Well(x, v, l), NEW t \in TabIds
    PROVE  inMap(x, t) <=> contains(x.m, t)
BY TabFacts

\* A tab's content is settled: shown or in the background.
LEMMA SettleOK ==
    ASSUME NEW x, NEW v, NEW l, Well(x, v, l),
           NEW t \in TabIds, contains(x.m, t),
           NEW k, l \in {k, t, NoTab},
           t # k => Placed(TabOf(x.m, t), x.ctl[t]),
           NEW y, y = Settle(x, t)
    PROVE  /\ Well(y, v, k) /\ Same(x, y) /\ inMap(y, t)
           /\ y.ctl[t].life \in {"Active", "Background"}
<1> DEFINE a == IF x.ctl[t].active THEN "Active" ELSE "Background"
<1>1. a \in Lives \ {"Dormant"} /\ a \in {"Active", "Background"}
  BY DEF Lives
<1>2. y = transitionTo(x, t, a)
  BY DEF Settle
<1> HIDE DEF a
<1>3. /\ Well(y, v, k) /\ Same(x, y) /\ inMap(y, t)
      /\ y.ctl[t] = [x.ctl[t] EXCEPT !.life = a]
  BY <1>1, <1>2, TransitionOK
<1>4. DOMAIN x.ctl[t] = DOMAIN NoController
  BY TabFacts DEF IsCtl
<1>5. y.ctl[t].life = a
  BY <1>3, <1>4 DEF NoController
<1> QED
  BY <1>1, <1>3, <1>5

\* A tab of the strip can change.
LEMMA TabCanChange ==
    ASSUME NEW x, NEW v, NEW l, Well(x, v, l), NEW t \in TabIds
    PROVE  canTransitionResources(x, t) <=> contains(x.m, t)
BY TabFacts DEF canTransitionResources, Lives

\* enterTrustedError.
LEMMA ErrorOK ==
    ASSUME NEW x, NEW v, NEW l, Well(x, v, l), NEW t \in TabIds,
           l \in {t, NoTab}, NEW advance \in BOOLEAN,
           l = t => (PageCounts(x.ctl[t]) => TabOf(x.m, t).snap.kind = "web"),
           NEW y, y = enterTrustedError(x, t, advance)
    PROVE  /\ Same(x, y)
           /\ l = NoTab \/ contains(x.m, t) => Well(y, v, NoTab)
           /\ contains(x.m, t) => y.ctl[t].life = "TrustedError"
           /\ ~contains(x.m, t) => y = x
<1>1. CASE ~contains(x.m, t)
  <2>1. y = x
    BY <1>1, TabCanChange DEF enterTrustedError
  <2> QED
    BY <1>1, <2>1, SameItself
<1>2. CASE contains(x.m, t)
  <2> DEFINE b == x.ctl[t]
             c == [b EXCEPT !.inc = IF advance THEN @ + 1 ELSE @,
                            !.ws = IF b.web = 0 THEN @ ELSE stopLoad(@),
                            !.current = "error", !.kind = "error"]
             w1 == SetCtl(x, t, c)
             w2 == setLoadState(w1, t, FALSE)
  <2>1. /\ IsCtl(b) /\ Agrees(TabOf(x.m, t), b) /\ (b.active <=> t = v)
        /\ PageCounts(b) => TabOf(x.m, t).snap.kind = "web"
    <3>1. t # NoTab
      BY TabsAssumption, FS_CardinalityType DEF NoTab
    <3> QED
      BY <1>2, <3>1, TabFacts DEF Settled, Placed
  <2>2. y = transitionTo(w2, t, "TrustedError")
    BY <1>2, TabCanChange DEF enterTrustedError
  <2> HIDE DEF b
  <2>3. /\ DOMAIN c = DOMAIN NoController
        /\ c.inc = IF advance THEN b.inc + 1 ELSE b.inc
        /\ c.webInc = b.webInc /\ c.web = b.web /\ c.failed = b.failed
        /\ c.pkg = b.pkg /\ c.kind = "error" /\ c.active = b.active
        /\ c.life = b.life
    BY <2>1 DEF IsCtl, NoController
  <2> HIDE DEF c
  <2>4. /\ IsCtl(c) /\ b.inc <= c.inc /\ Agrees(TabOf(x.m, t), c)
        /\ Placed(TabOf(x.m, t), c)
    <3>1. PageCounts(c) => PageCounts(b)
      BY <2>1, <2>3 DEF PageCounts, IsCtl
    <3> QED
      BY <2>1, <2>3, <3>1 DEF IsCtl, Agrees, Placed
  <2>5. Fits(x, x, t, v, t, c)
    BY <2>1, <2>3, <2>4 DEF Fits, b
  <2> HIDE DEF w1, w2
  <2>6. Well(w1, v, t) /\ Same(x, w1) /\ w1.ctl[t] = c
    BY <1>2, <2>5, SetCtlOK DEF w1
  <2>7. Well(w2, v, t) /\ Same(w1, w2) /\ w2.ctl = w1.ctl
    BY <2>6, LoadStateOK DEF w2
  <2>8. contains(w2.m, t) /\ Placed(TabOf(w2.m, t), w2.ctl[t])
    BY <1>2, <2>4, <2>6, <2>7 DEF Same, SameIds, Placed
  <2>9. "TrustedError" \in Lives \ {"Dormant"}
    BY DEF Lives
  <2>10. /\ Well(y, v, NoTab) /\ Same(w2, y)
         /\ y.ctl[t] = [w2.ctl[t] EXCEPT !.life = "TrustedError"]
    BY <2>2, <2>7, <2>8, <2>9, TransitionOK
  <2>11. Same(x, y)
    BY <2>6, <2>7, <2>10, SameTwice
  <2>12. y.ctl[t].life = "TrustedError"
    BY <2>3, <2>6, <2>7, <2>10 DEF NoController
  <2> QED
    BY <1>2, <2>10, <2>11, <2>12
<1> QED
  BY <1>1, <1>2

\* The same of a settled window.
LEMMA ErrorWell ==
    ASSUME NEW x, NEW v, Well(x, v, NoTab), NEW t \in TabIds,
           NEW advance \in BOOLEAN,
           NEW y, y = enterTrustedError(x, t, advance)
    PROVE  /\ Well(y, v, NoTab) /\ Same(x, y)
           /\ contains(x.m, t) => y.ctl[t].life = "TrustedError"
<1> DEFINE l == NoTab
<1>1. t # l /\ l \in {t, NoTab} /\ Well(x, v, l) /\ l = NoTab
  BY TabsAssumption, FS_CardinalityType DEF NoTab
<1> HIDE DEF l
<1> QED
  BY <1>1, ErrorOK

\* A trusted error for a navigation.
LEMMA NavigationErrorOK ==
    ASSUME NEW x, NEW v, Well(x, v, NoTab), NEW t \in TabIds, NEW nav,
           NEW y, y = showTrustedErrorForNavigation(x, t, nav)
    PROVE  Well(y, v, NoTab) /\ Same(x, y)
<1>1. CASE x.ctl[t].inc = nav
  BY <1>1, ErrorWell DEF showTrustedErrorForNavigation
<1>2. CASE x.ctl[t].inc # nav
  BY <1>2, SameItself DEF showTrustedErrorForNavigation
<1> QED
  BY <1>1, <1>2

\* A controller that gives up its page.
LEMMA WebDropped ==
    ASSUME NEW c, IsCtl(c), NEW d, d = dropWeb(c)
    PROVE  /\ DOMAIN d = DOMAIN NoController /\ IsCtl(d) /\ d.inc = c.inc
           /\ d.web = 0 /\ d.webInc = 0 /\ d.failed = FALSE
           /\ d.life = c.life /\ d.active = c.active /\ d.kind = c.kind
           /\ d.pkg = c.pkg
BY DEF dropWeb, IsCtl, NoController

\* A page-less controller of a tab fits whatever the address.
LEMMA NoPageFits ==
    ASSUME NEW x, NEW v, NEW l, Well(x, v, l),
           NEW t \in TabIds, contains(x.m, t), NEW c, IsCtl(c), c.web = 0,
           x.ctl[t].inc <= c.inc, c.life = x.ctl[t].life,
           c.active = x.ctl[t].active,
           c.kind = "worker" => TabOf(x.m, t).snap.kind = "app"
    PROVE  Fits(x, x, t, v, NoTab, c)
<1>1. /\ Agrees(TabOf(x.m, t), x.ctl[t]) /\ (x.ctl[t].active <=> t = v)
  BY TabFacts
<1> QED
  BY <1>1 DEF Fits, Agrees, Settled, Placed, PageCounts

\* startHost.
LEMMA StartHostOK ==
    ASSUME NEW x, NEW v, NEW l, Well(x, v, l), NEW t \in TabIds,
           l \in {t, NoTab}, contains(x.m, t), NEW y, y = startHost(x, t)
    PROVE  Well(y, v, NoTab) /\ Same(x, y) /\ y.ctl[t].life # "Dormant"
<1> DEFINE d == dropWeb(x.ctl[t])
           c == [d EXCEPT !.current = "host", !.kind = "host",
                          !.pkg = NoPackage]
           w1 == SetCtl(x, t, c)
           w2 == setLoadState(w1, t, FALSE)
<1>1. y = Settle(w2, t)
  BY DEF startHost
<1>2. IsCtl(x.ctl[t])
  BY TabFacts
<1>3. /\ DOMAIN d = DOMAIN NoController /\ IsCtl(d) /\ d.inc = x.ctl[t].inc
      /\ d.web = 0 /\ d.life = x.ctl[t].life /\ d.active = x.ctl[t].active
  BY <1>2, WebDropped
<1> HIDE DEF d
<1>4. /\ IsCtl(c) /\ c.inc = d.inc /\ c.web = 0 /\ c.life = d.life
      /\ c.active = d.active /\ c.kind = "host"
  BY <1>3 DEF IsCtl, NoController
<1> HIDE DEF c, w1, w2
<1>5. x.ctl[t].inc <= c.inc
  BY <1>2, <1>3, <1>4 DEF IsCtl
<1>6. Fits(x, x, t, v, NoTab, c)
  BY <1>3, <1>4, <1>5, NoPageFits
<1>7. Well(w1, v, NoTab) /\ Same(x, w1) /\ w1.ctl[t] = c
  BY <1>6, SetCtlOK DEF w1
<1>8. Well(w2, v, NoTab) /\ Same(w1, w2) /\ w2.ctl = w1.ctl
  BY <1>7, LoadStateOK DEF w2
<1>9. contains(w2.m, t) /\ Placed(TabOf(w2.m, t), w2.ctl[t])
  BY <1>4, <1>7, <1>8 DEF Same, SameIds, Placed, PageCounts
<1>10. /\ Well(y, v, NoTab) /\ Same(w2, y)
       /\ y.ctl[t].life \in {"Active", "Background"}
  BY <1>1, <1>8, <1>9, SettleOK
<1> QED
  BY <1>7, <1>8, <1>10, SameTwice

\* prepareAppLaunch, for a tab that is at an app's address.
LEMMA PrepareOK ==
    ASSUME NEW x, NEW v, NEW l, Well(x, v, l), NEW t \in TabIds,
           l \in {t, NoTab}, contains(x.m, t), TabOf(x.m, t).snap.kind = "app",
           NEW package, NEW y, y = prepareAppLaunch(x, t, package, x.ctl[t].inc)
    PROVE  /\ Well(y, v, NoTab) /\ Same(x, y) /\ y.ctl[t].life # "Dormant"
           /\ y.ctl[t].inc = x.ctl[t].inc
<1> DEFINE d == dropWeb(x.ctl[t])
           c == [d EXCEPT !.pkg = package, !.kind = "worker",
                          !.current = "none"]
           w1 == SetCtl(x, t, c)
           w2 == setLoadState(w1, t, TRUE)
<1>1. y = transitionTo(w2, t, "Loading")
  BY TabCanChange DEF prepareAppLaunch
<1>2. IsCtl(x.ctl[t])
  BY TabFacts
<1>3. /\ DOMAIN d = DOMAIN NoController /\ IsCtl(d) /\ d.inc = x.ctl[t].inc
      /\ d.web = 0 /\ d.life = x.ctl[t].life /\ d.active = x.ctl[t].active
  BY <1>2, WebDropped
<1> HIDE DEF d
<1>4. /\ IsCtl(c) /\ c.inc = d.inc /\ c.web = 0 /\ c.life = d.life
      /\ c.active = d.active
  BY <1>3 DEF IsCtl, NoController
<1> HIDE DEF c, w1, w2
<1>5. x.ctl[t].inc <= c.inc
  BY <1>2, <1>3, <1>4 DEF IsCtl
<1>6. Fits(x, x, t, v, NoTab, c)
  BY <1>3, <1>4, <1>5, NoPageFits
<1>7. Well(w1, v, NoTab) /\ Same(x, w1) /\ w1.ctl[t] = c
  BY <1>6, SetCtlOK DEF w1
<1>8. Well(w2, v, NoTab) /\ Same(w1, w2) /\ w2.ctl = w1.ctl
  BY <1>7, LoadStateOK DEF w2
<1>9. contains(w2.m, t) /\ Placed(TabOf(w2.m, t), w2.ctl[t])
  BY <1>4, <1>7, <1>8 DEF Same, SameIds, Placed, PageCounts
<1>10. "Loading" \in Lives \ {"Dormant"}
  BY DEF Lives
<1>11. /\ Well(y, v, NoTab) /\ Same(w2, y)
       /\ y.ctl[t] = [w2.ctl[t] EXCEPT !.life = "Loading"]
  BY <1>1, <1>8, <1>9, <1>10, TransitionOK
<1>12. y.ctl[t].life = "Loading" /\ y.ctl[t].inc = x.ctl[t].inc
  <2>1. DOMAIN w2.ctl[t] = DOMAIN NoController
    BY <1>4, <1>7, <1>8 DEF IsCtl
  <2> QED
    BY <1>3, <1>4, <1>7, <1>8, <1>11, <2>1 DEF NoController
<1> QED
  BY <1>7, <1>8, <1>11, <1>12, SameTwice

\* bindAppWorkerSurface, of a tab that shows a package or is about to.
LEMMA BindOK ==
    ASSUME NEW x, NEW v, NEW l, Well(x, v, l), NEW t \in TabIds,
           l \in {t, NoTab}, contains(x.m, t), TabOf(x.m, t).snap.kind = "app",
           ~PageCounts(x.ctl[t]),
           NEW y, y = bindAppWorkerSurface(x, t)
    PROVE  Well(y, v, NoTab) /\ Same(x, y) /\ y.ctl[t].life # "Dormant"
<1> DEFINE b == x.ctl[t]
           c == [[b EXCEPT !.current = "worker"] EXCEPT !.kind = "worker"]
           w1 == SetCtl(x, t, c)
<1>1. /\ IsCtl(b) /\ Agrees(TabOf(x.m, t), b) /\ (b.active <=> t = v)
      /\ DOMAIN x = Fields /\ DOMAIN x.ctl = TabIds /\ IsStrip(x.m)
  BY TabFacts
<1> DEFINE w0 == [x EXCEPT !.ctl[t].current = "worker", !.ctl[t].kind = "worker"]
<1>2. y = Settle(w0, t)
  BY DEF bindAppWorkerSurface
<1>3. Leaves(x, w0) /\ Gets(x, w0, t, c) /\ w0.m = x.m
  BY <1>1 DEF Leaves, Gets, Fields, EmptyWindow
<1> HIDE DEF w0, b
<1>4. /\ IsCtl(c) /\ c.inc = b.inc /\ c.web = b.web /\ c.webInc = b.webInc
      /\ c.failed = b.failed /\ c.pkg = b.pkg /\ c.life = b.life
      /\ c.active = b.active
  BY <1>1 DEF IsCtl, NoController
<1> HIDE DEF c
<1>5. Fits(x, w0, t, v, t, c) /\ ~PageCounts(c)
  BY <1>1, <1>3, <1>4 DEF Fits, IsCtl, Agrees, PageCounts, b
<1>6. Relives(x.m, w0.m, t)
  BY <1>1, <1>3, RelivesItself
<1>7. Well(w0, v, t) /\ Same(x, w0) /\ w0.ctl[t] = c
  BY <1>3, <1>5, <1>6, Put
<1>8. contains(w0.m, t) /\ Placed(TabOf(w0.m, t), w0.ctl[t])
  BY <1>3, <1>5, <1>7 DEF Placed
<1>9. /\ Well(y, v, NoTab) /\ Same(w0, y)
      /\ y.ctl[t].life \in {"Active", "Background"}
  BY <1>2, <1>7, <1>8, SettleOK
<1> QED
  BY <1>7, <1>9, SameTwice

\* detachLegacyWorkerSurface.
LEMMA DetachOK ==
    ASSUME NEW x, NEW v, Well(x, v, NoTab), NEW t \in TabIds,
           NEW y, y = detachLegacyWorkerSurface(x, t)
    PROVE  Well(y, v, NoTab) /\ Same(x, y)
<1> DEFINE b == x.ctl[t]
           c == [b EXCEPT !.worker = 0, !.pkg = NoPackage,
                          !.current = IF @ = "worker" THEN "none" ELSE @]
           w1 == SetCtl(x, t, c)
<1>1. y \in {x, w1, enterTrustedError(w1, t, TRUE)}
  BY DEF detachLegacyWorkerSurface
<1>2. CASE ~contains(x.m, t)
  <2>1. y = x
    BY <1>2, Mapped DEF detachLegacyWorkerSurface
  <2> QED
    BY <2>1, SameItself
<1>3. CASE contains(x.m, t)
  <2>1. /\ IsCtl(b) /\ Agrees(TabOf(x.m, t), b) /\ (b.active <=> t = v)
        /\ t # NoTab => Settled(TabOf(x.m, t), b)
    BY <1>3, TabFacts
  <2> HIDE DEF b
  <2>2. /\ IsCtl(c) /\ c.inc = b.inc /\ c.web = b.web /\ c.webInc = b.webInc
        /\ c.failed = b.failed /\ c.pkg = NoPackage /\ c.life = b.life
        /\ c.active = b.active /\ c.kind = b.kind
    BY <2>1 DEF IsCtl, NoController
  <2> HIDE DEF c, w1
  <2>3. Fits(x, x, t, v, NoTab, c)
    BY <2>1, <2>2 DEF Fits, IsCtl, Agrees, Settled, Placed, PageCounts, b
  <2>4. Well(w1, v, NoTab) /\ Same(x, w1)
    BY <1>3, <2>3, SetCtlOK DEF w1
  <2>5. CASE y = enterTrustedError(w1, t, TRUE)
    <3>1. Same(w1, y) /\ Well(y, v, NoTab)
      BY <2>4, <2>5, ErrorWell
    <3> QED
      BY <2>4, <3>1, SameTwice
  <2> QED
    BY <1>1, <2>4, <2>5, SameItself
<1> QED
  BY <1>2, <1>3

\* A tab whose content was started goes on.
LEMMA GoesOn ==
    ASSUME NEW x, NEW v, Well(x, v, NoTab), NEW t \in TabIds,
           contains(x.m, t), NEW y,
           \/ y = Settle(x, t)
           \/ \E life1 \in Lives \ {"Dormant"} : y = transitionTo(x, t, life1)
    PROVE  Well(y, v, NoTab) /\ Same(x, y) /\ y.ctl[t].life # "Dormant"
<1>1. Placed(TabOf(x.m, t), x.ctl[t])
  BY TabFacts, TabsAssumption, FS_CardinalityType DEF NoTab, Settled
<1>2. CASE y = Settle(x, t)
  <2> DEFINE k == NoTab
  <2>1. k \in {k, t, NoTab} /\ Well(x, v, k)
    OBVIOUS
  <2> HIDE DEF k
  <2>2. /\ Well(y, v, k) /\ Same(x, y)
        /\ y.ctl[t].life \in {"Active", "Background"}
    BY <1>1, <1>2, <2>1, SettleOK
  <2> QED
    BY <2>2 DEF k
<1>3. CASE \E life1 \in Lives \ {"Dormant"} : y = transitionTo(x, t, life1)
  <2>1. PICK life1 \in Lives \ {"Dormant"} : y = transitionTo(x, t, life1)
    BY <1>3
  <2>2. /\ Well(y, v, NoTab) /\ Same(x, y)
        /\ y.ctl[t] = [x.ctl[t] EXCEPT !.life = life1]
    BY <1>1, <2>1, TransitionOK
  <2>3. DOMAIN x.ctl[t] = DOMAIN NoController
    BY TabFacts DEF IsCtl
  <2> QED
    BY <2>2, <2>3 DEF NoController
<1> QED
  BY <1>2, <1>3

\* The signals of a page.
LEMMA LoadingChangedOK ==
    ASSUME NEW x, NEW v, Well(x, v, NoTab), NEW t \in TabIds,
           contains(x.m, t), NEW loading \in BOOLEAN,
           NEW y, y = loadingChanged(x, t, loading)
    PROVE  Well(y, v, NoTab) /\ Same(x, y)
<1> DEFINE w1 == setLoadState(x, t, loading)
<1>1. Well(w1, v, NoTab) /\ Same(x, w1)
  BY LoadStateOK
<1>2. y \in {w1, transitionTo(w1, t, "Loading"), Settle(w1, t)}
  BY DEF loadingChanged
<1> HIDE DEF w1
<1>3. contains(w1.m, t)
  BY <1>1 DEF Same, SameIds
<1>4. "Loading" \in Lives \ {"Dormant"}
  BY DEF Lives
<1>5. CASE y = w1
  BY <1>1, <1>5
<1>6. CASE y # w1
  <2>1. Well(y, v, NoTab) /\ Same(w1, y)
    BY <1>1, <1>2, <1>3, <1>4, <1>6, GoesOn
  <2> QED
    BY <1>1, <2>1, SameTwice
<1> QED
  BY <1>5, <1>6

\* onWebSignal.
LEMMA SignalOK ==
    ASSUME NEW x, NEW v, Well(x, v, NoTab), NEW t \in TabIds, NEW signal,
           NEW y, y = onWebSignal(x, t, signal)
    PROVE  Well(y, v, NoTab) /\ Same(x, y)
<1>1. CASE y = x
  BY <1>1, SameItself
<1>2. CASE y # x
  <2>1. webIsCurrent(x, t)
    BY <1>2 DEF onWebSignal
  <2>2. contains(x.m, t)
    BY <2>1, Mapped DEF webIsCurrent
  <2>3. \E loading \in BOOLEAN : y = loadingChanged(x, t, loading)
    <3>1. y = IF signal = "finished" THEN loadingChanged(x, t, FALSE)
                ELSE loadingChanged(x, t, signal = "loading")
      BY <2>1 DEF onWebSignal, navigationFinished
    <3>2. (signal = "loading") \in BOOLEAN /\ FALSE \in BOOLEAN
      OBVIOUS
    <3> QED
      BY <3>1, <3>2
  <2> QED
    BY <2>2, <2>3, LoadingChangedOK
<1> QED
  BY <1>1, <1>2

\* The surface of a tab is another.
LEMMA SurfaceSet ==
    ASSUME NEW x, NEW v, Well(x, v, NoTab), NEW t \in TabIds,
           contains(x.m, t), NEW s, NEW y, y = [x EXCEPT !.ctl[t].ws = s]
    PROVE  Well(y, v, NoTab) /\ Same(x, y)
<1> DEFINE b == x.ctl[t]
           c == [b EXCEPT !.ws = s]
<1>1. /\ IsCtl(b) /\ Agrees(TabOf(x.m, t), b) /\ (b.active <=> t = v)
      /\ t # NoTab => Settled(TabOf(x.m, t), b)
      /\ DOMAIN x = Fields /\ DOMAIN x.ctl = TabIds /\ IsStrip(x.m)
  BY TabFacts
<1>2. Leaves(x, y) /\ Gets(x, y, t, c) /\ y.m = x.m
  BY <1>1 DEF Leaves, Gets, Fields, EmptyWindow
<1> HIDE DEF b
<1>3. /\ IsCtl(c) /\ c.inc = b.inc /\ c.web = b.web /\ c.webInc = b.webInc
      /\ c.failed = b.failed /\ c.pkg = b.pkg /\ c.life = b.life
      /\ c.active = b.active /\ c.kind = b.kind
  BY <1>1 DEF IsCtl, NoController
<1> HIDE DEF c
<1>4. Fits(x, y, t, v, NoTab, c)
  BY <1>1, <1>2, <1>3 DEF Fits, IsCtl, Agrees, Settled, Placed, PageCounts, b
<1>5. Relives(x.m, y.m, t)
  BY <1>1, <1>2, RelivesItself
<1> QED
  BY <1>2, <1>4, <1>5, Put

\* The page, with the signal it gave.
LEMMA SetSurfaceOK ==
    ASSUME NEW x, NEW v, Well(x, v, NoTab), NEW t \in TabIds,
           contains(x.m, t), NEW r, NEW y, y = SetSurface(x, t, r)
    PROVE  Well(y, v, NoTab) /\ Same(x, y)
<1> DEFINE a == [x EXCEPT !.ctl[t].ws = r.s]
           b == IF r.emits = << >> THEN a ELSE onWebSignal(a, t, r.emits[1])
<1>1. Well(a, v, NoTab) /\ Same(x, a)
  BY SurfaceSet
<1> HIDE DEF a
<1>2. Well(b, v, NoTab) /\ Same(a, b)
  BY <1>1, SignalOK, SameItself
<1> HIDE DEF b
<1>3. y \in {b, onWebSignal(b, t, r.emits[2])}
  BY DEF SetSurface, b, a
<1>4. Well(y, v, NoTab) /\ Same(b, y)
  BY <1>2, <1>3, SignalOK, SameItself
<1> QED
  BY <1>1, <1>2, <1>4, SameTwice

\* A tab that needs no start after all.
LEMMA Resettled ==
    ASSUME NEW x, NEW v, NEW l, Well(x, v, l), NEW t \in TabIds,
           l \in {t, NoTab}, contains(x.m, t) => Settled(TabOf(x.m, t), x.ctl[t])
    PROVE  Well(x, v, NoTab)
<1>1. \A u \in TabIds : TabOK(x, u, v, NoTab)
  <2>1. TAKE u \in TabIds
  <2>2. TabOK(x, u, v, l)
    BY DEF Well
  <2>3. u = t \/ u # l
    BY TabsAssumption, FS_CardinalityType DEF NoTab
  <2> QED
    BY <2>2, <2>3 DEF TabOK
<1> QED
  BY <1>1 DEF Well

\* startWeb, at a web address.  A failed surface is not started again.
LEMMA StartWebOK ==
    ASSUME NEW x, NEW v, NEW l, Well(x, v, l), NEW t \in TabIds,
           l \in {t, NoTab}, contains(x.m, t), TabOf(x.m, t).snap.kind = "web",
           x.ctl[t].web # 0 /\ x.ctl[t].failed =>
             /\ Settled(TabOf(x.m, t), x.ctl[t])
             /\ x.ctl[t].life # "Dormant",
           NEW y, y = startWeb(x, t)
    PROVE  Well(y, v, NoTab) /\ Same(x, y) /\ y.ctl[t].life # "Dormant"
<1> DEFINE b == x.ctl[t]
           c == [b EXCEPT !.current = "web", !.kind = "web", !.pkg = NoPackage,
                          !.web = IF @ = 0 THEN b.inc ELSE @,
                          !.webInc = b.inc]
           w1 == SetCtl(x, t, c)
           w0 == setLoadState(w1, t, FALSE)
           w2 == transitionTo(w0, t, "Loading")
           r == navigate(w2.ctl[t].ws)
<1>1. y = IF b.web # 0 /\ b.failed THEN x ELSE SetSurface(w2, t, r)
  BY DEF startWeb
<1>2. CASE b.web # 0 /\ b.failed
  BY <1>1, <1>2, Resettled, SameItself
<1>3. CASE ~(b.web # 0 /\ b.failed)
  <2>1. IsCtl(b) /\ (b.active <=> t = v) /\ Agrees(TabOf(x.m, t), b)
    BY TabFacts
  <2>2. y = SetSurface(w2, t, r)
    BY <1>1, <1>3
  <2> HIDE DEF b, r
  <2>3. /\ DOMAIN c = DOMAIN NoController
        /\ IsCtl(c) /\ c.inc = b.inc /\ c.pkg = NoPackage /\ c.life = b.life
        /\ c.active = b.active /\ c.kind = "web"
    BY <2>1 DEF IsCtl, NoController
  <2> HIDE DEF c, w1, w0, w2
  <2>4. Fits(x, x, t, v, t, c)
    BY <2>1, <2>3 DEF Fits, IsCtl, Agrees, b
  <2>13. Placed(TabOf(x.m, t), c)
    BY <2>3 DEF Placed
  <2>5. Well(w1, v, t) /\ Same(x, w1) /\ w1.ctl[t] = c
    BY <2>4, SetCtlOK DEF w1
  <2>6. Well(w0, v, t) /\ Same(w1, w0) /\ w0.ctl = w1.ctl
    BY <2>5, LoadStateOK DEF w0
  <2>7. contains(w0.m, t) /\ Placed(TabOf(w0.m, t), w0.ctl[t])
    BY <2>5, <2>6, <2>13 DEF Same, SameIds, Placed
  <2>8. "Loading" \in Lives \ {"Dormant"}
    BY DEF Lives
  <2>9. /\ Well(w2, v, NoTab) /\ Same(w0, w2)
        /\ w2.ctl[t] = [w0.ctl[t] EXCEPT !.life = "Loading"]
    BY <2>6, <2>7, <2>8, TransitionOK DEF w2
  <2>10. w2.ctl[t].life # "Dormant" /\ contains(w2.m, t)
    BY <2>3, <2>5, <2>6, <2>7, <2>9 DEF NoController, Same, SameIds
  <2>11. Well(y, v, NoTab) /\ Same(w2, y)
    BY <2>2, <2>9, <2>10, SetSurfaceOK
  <2>12. y.ctl[t].life # "Dormant"
    BY <2>10, <2>11 DEF Same
  <2> QED
    BY <2>5, <2>6, <2>9, <2>11, <2>12, SameTwice
<1> QED
  BY <1>2, <1>3

\* The queued end of a failed surface.
LEMMA RetireWebOK ==
    ASSUME NEW x, NEW v, Well(x, v, NoTab), NEW t \in TabIds, NEW web,
           NEW y, y = retireFailedWeb(x, t, web)
    PROVE  Well(y, v, NoTab) /\ Same(x, y)
<1> DEFINE d == dropWeb(x.ctl[t])
           c == [d EXCEPT !.inc = x.ctl[t].inc + 1]
           w1 == SetCtl(x, t, c)
<1>1. y = x \/ (inMap(x, t) /\ y = enterTrustedError(w1, t, FALSE))
  <2>1. [d EXCEPT !.inc = @ + 1] = c
    <3>1. IsCtl(x.ctl[t])
      BY TabFacts
    <3>2. d.inc = x.ctl[t].inc
      BY <3>1, WebDropped
    <3> QED
      BY <3>2
  <2> QED
    BY <2>1 DEF retireFailedWeb
<1>2. CASE y = x
  BY <1>2, SameItself
<1>3. CASE inMap(x, t) /\ y = enterTrustedError(w1, t, FALSE)
  <2>1. /\ contains(x.m, t) /\ IsCtl(x.ctl[t])
        /\ Settled(TabOf(x.m, t), x.ctl[t])
    BY <1>3, TabFacts, TabsAssumption, FS_CardinalityType DEF NoTab
  <2>2. /\ DOMAIN d = DOMAIN NoController /\ IsCtl(d) /\ d.inc = x.ctl[t].inc
        /\ d.web = 0 /\ d.webInc = 0 /\ d.life = x.ctl[t].life
        /\ d.active = x.ctl[t].active /\ d.kind = x.ctl[t].kind
    BY <2>1, WebDropped
  <2> HIDE DEF d
  <2>3. /\ IsCtl(c) /\ c.inc = x.ctl[t].inc + 1 /\ c.web = 0 /\ c.life = d.life
        /\ c.active = d.active /\ c.kind = d.kind
    BY <2>1, <2>2 DEF IsCtl, NoController
  <2> HIDE DEF c, w1
  <2>4. x.ctl[t].inc <= c.inc
    BY <2>1, <2>3 DEF IsCtl
  <2>5. Fits(x, x, t, v, NoTab, c)
    BY <2>1, <2>2, <2>3, <2>4, NoPageFits DEF Settled, Placed
  <2>6. Well(w1, v, NoTab) /\ Same(x, w1)
    BY <2>1, <2>5, SetCtlOK DEF w1
  <2>7. Well(y, v, NoTab) /\ Same(w1, y)
    BY <1>3, <2>6, ErrorWell DEF w1
  <2> QED
    BY <2>6, <2>7, SameTwice
<1> QED
  BY <1>1, <1>2, <1>3

\* The tab t is shown, or no more: k is shown instead of v.
Turns(v, k, t, shown) ==
    /\ shown \in BOOLEAN /\ (shown <=> t = k)
    /\ \A u \in TabIds : u # t => (u = v <=> u = k)

\* Controller t is shown, or hidden.
Showing(x, t, shown) == [x EXCEPT !.ctl[t].active = shown]

\* A controller is shown or hidden.
LEMMA ActiveSet ==
    ASSUME NEW x, NEW v, NEW l, Well(x, v, l),
           NEW t \in TabIds, contains(x.m, t), NEW shown,
           NEW k, Turns(v, k, t, shown),
           NEW y, y = Showing(x, t, shown)
    PROVE  /\ Well(y, k, l) /\ Same(x, y) /\ y.m = x.m
           /\ y.ctl[t] = [x.ctl[t] EXCEPT !.active = shown]
<1> DEFINE b == x.ctl[t]
           c == [b EXCEPT !.active = shown]
<1>1. /\ IsCtl(b) /\ Agrees(TabOf(x.m, t), b)
      /\ t # l => Settled(TabOf(x.m, t), b)
      /\ DOMAIN x = Fields /\ DOMAIN x.ctl = TabIds /\ IsStrip(x.m)
      /\ b.life \in Lives
  BY TabFacts
<1>2. /\ Leaves(x, y) /\ y.m = x.m /\ y.ctl[t] = c /\ DOMAIN y.ctl = TabIds
      /\ \A u \in TabIds : u # t => y.ctl[u] = x.ctl[u]
      /\ DOMAIN y = Fields
  BY <1>1 DEF Leaves, Fields, EmptyWindow, Showing
<1> HIDE DEF b
<1>3. /\ IsCtl(c) /\ c.inc = b.inc /\ c.web = b.web /\ c.webInc = b.webInc
      /\ c.failed = b.failed /\ c.pkg = b.pkg /\ c.life = b.life
      /\ c.active = shown /\ c.kind = b.kind /\ c # NoController
  BY <1>1 DEF IsCtl, NoController, Lives
<1> HIDE DEF c
<1>4. TabOK(y, t, k, l)
  BY <1>1, <1>2, <1>3
  DEF TabOK, inMap, Agrees, Settled, Placed, PageCounts, Turns
<1>5. ASSUME NEW u \in TabIds, u # t PROVE TabOK(y, u, k, l)
  <2>1. TabOK(x, u, v, l) /\ y.ctl[u] = x.ctl[u]
    BY <1>2, <1>5 DEF Well
  <2> QED
    BY <1>2, <1>5, <2>1 DEF TabOK, inMap, Turns
<1>6. inMap(x, t)
  BY Mapped
<1>7. Onward(x, y)
  <2>1. x.m.nextId \in Nat /\ y.m.nextId = x.m.nextId
    BY <1>1, <1>2 DEF IsStrip
  <2>2. ASSUME NEW u \in TabIds, inMap(y, u)
        PROVE  /\ inMap(x, u) /\ x.ctl[u].inc \in Nat /\ y.ctl[u].inc \in Nat
               /\ x.ctl[u].inc <= y.ctl[u].inc
               /\ TabOf(y.m, u).snap.kind = TabOf(x.m, u).snap.kind
    <3>1. CASE u = t
      BY <1>1, <1>2, <1>3, <1>6, <3>1 DEF IsCtl, b
    <3>2. CASE u # t
      BY <1>2, <2>2, <3>2, TabFacts DEF IsCtl, inMap
    <3> QED
      BY <3>1, <3>2
  <2> QED
    BY <2>1, <2>2 DEF Onward
<1>8. Queued(y)
  BY <1>2, <1>7, QueuedMovesOn DEF Leaves, Well
<1>9. Well(y, k, l)
  BY <1>1, <1>2, <1>4, <1>5, <1>8 DEF Well
<1>10. \A u \in TabIds : y.ctl[u].life = x.ctl[u].life
  BY <1>2, <1>3 DEF b
<1>11. Same(x, y)
  BY <1>2, <1>10 DEF Same, SameIds, Leaves
<1> QED
  BY <1>2, <1>9, <1>11 DEF b, c

\* What a controller keeps while its tab is only shown or settled.
Kept(c, d) ==
    /\ d.web = c.web /\ d.webInc = c.webInc /\ d.inc = c.inc
    /\ d.failed = c.failed /\ d.kind = c.kind /\ d.pkg = c.pkg
    /\ d.worker = c.worker
    /\ d.life = "Dormant" <=> c.life = "Dormant"

\* transitionTo, where the tab may still be settling.
LEMMA TransitionHere ==
    ASSUME NEW x, NEW v, NEW l, Well(x, v, l),
           NEW t \in TabIds, contains(x.m, t),
           NEW life1 \in Lives \ {"Dormant"},
           t # l => Placed(TabOf(x.m, t), x.ctl[t]),
           NEW y, y = transitionTo(x, t, life1)
    PROVE  /\ Well(y, v, l) /\ Same(x, y) /\ inMap(y, t)
           /\ y.ctl[t] = [x.ctl[t] EXCEPT !.life = life1]
<1>1. l \in {l, t, NoTab}
  OBVIOUS
<1> QED
  BY <1>1, TransitionOK

\* setActive.
LEMMA SetActiveOK ==
    ASSUME NEW x, NEW v, NEW l, Well(x, v, l),
           NEW t \in TabIds, contains(x.m, t), NEW shown,
           NEW k, Turns(v, k, t, shown),
           NEW y, y = setActive(x, t, shown)
    PROVE  /\ Well(y, k, l) /\ Same(x, y) /\ Kept(x.ctl[t], y.ctl[t])
           /\ inMap(y, t)
<1> DEFINE w1 == Showing(x, t, shown)
           a == IF w1.ctl[t].active THEN "Active" ELSE "Background"
<1>2. y = IF x.ctl[t].life \in {"Dormant", "Loading", "TrustedError"}
            THEN w1 ELSE transitionTo(w1, t, a)
  BY DEF setActive, Settle, Showing
<1>3. a \in Lives \ {"Dormant"}
  BY DEF Lives
<1>4. IsCtl(x.ctl[t])
  BY TabFacts
<1>1. /\ Well(w1, k, l) /\ Same(x, w1) /\ w1.m = x.m
      /\ w1.ctl[t] = [x.ctl[t] EXCEPT !.active = shown]
  BY ActiveSet
<1> HIDE DEF w1, a
<1>5. Kept(x.ctl[t], w1.ctl[t]) /\ DOMAIN w1.ctl[t] = DOMAIN NoController
  BY <1>1, <1>4 DEF IsCtl, NoController, Kept
<1>6. CASE y = w1
  BY <1>1, <1>5, <1>6, Mapped
<1>7. CASE y # w1
  <2>1. y = transitionTo(w1, t, a) /\ x.ctl[t].life # "Dormant"
    BY <1>2, <1>7
  <2>2. /\ contains(w1.m, t)
        /\ t # l => Placed(TabOf(w1.m, t), w1.ctl[t])
    BY <1>1, TabFacts DEF Settled
  <2>3. /\ Well(y, k, l) /\ Same(w1, y) /\ inMap(y, t)
        /\ y.ctl[t] = [w1.ctl[t] EXCEPT !.life = a]
    <3>1. Well(w1, k, l) /\ contains(w1.m, t) /\ y = transitionTo(w1, t, a)
      BY <1>1, <2>1, <2>2
    <3>2. t # l => Placed(TabOf(w1.m, t), w1.ctl[t])
      BY <2>2
    <3>3. Well(y, k, l)
      BY <1>3, <3>1, <3>2, TransitionHere
    <3> QED
      BY <1>3, <3>1, <3>2, TransitionHere
  <2>4. Kept(w1.ctl[t], y.ctl[t])
    BY <1>3, <1>5, <2>1, <2>3 DEF Kept, NoController
  <2>5. Kept(x.ctl[t], y.ctl[t])
    BY <1>5, <2>4 DEF Kept
  <2> QED
    BY <1>1, <2>3, <2>5, SameTwice
<1> QED
  BY <1>6, <1>7

\* A new navigation of a tab that stays where it is.
LEMMA BeginOK ==
    ASSUME NEW x, NEW v, Well(x, v, NoTab),
           NEW t \in TabIds, contains(x.m, t),
           NEW y, y = beginNavigation(x, t)
    PROVE  Well(y, v, NoTab) /\ Same(x, y)
<1> DEFINE b == x.ctl[t]
           a == x.m.tabs[indexOfId(x.m, t)].life
           c == [[b EXCEPT !.inc = @ + 1] EXCEPT !.life = a]
<1>1. /\ IsCtl(b) /\ Agrees(TabOf(x.m, t), b) /\ (b.active <=> t = v)
      /\ Settled(TabOf(x.m, t), b) /\ a = TabOf(x.m, t).life
      /\ DOMAIN x = Fields /\ DOMAIN x.ctl = TabIds /\ IsStrip(x.m)
  BY TabFacts, TabsAssumption, FS_CardinalityType DEF NoTab, TabOf
<1> DEFINE w1 == [x EXCEPT !.ctl[t].inc = b.inc + 1]
           d == [b EXCEPT !.inc = b.inc + 1]
<1>2. y = [w1 EXCEPT !.ctl[t].life = a] /\ c = [d EXCEPT !.life = a]
  BY DEF beginNavigation
<1> HIDE DEF a
<1>8. Leaves(x, w1) /\ Gets(x, w1, t, d) /\ w1.m = x.m /\ DOMAIN w1 = Fields
  BY <1>1 DEF Leaves, Gets, Fields, EmptyWindow
<1> HIDE DEF w1, d
<1>3. Leaves(x, y) /\ Gets(x, y, t, c) /\ y.m = x.m
  BY <1>1, <1>2, <1>8 DEF Leaves, Gets, Fields, EmptyWindow
<1> HIDE DEF b
<1>4. /\ IsCtl(c) /\ c.inc = b.inc + 1 /\ c.web = b.web /\ c.webInc = b.webInc
      /\ c.failed = b.failed /\ c.pkg = b.pkg /\ c.life = a
      /\ c.active = b.active /\ c.kind = b.kind
  BY <1>1 DEF IsCtl, NoController
<1> HIDE DEF c
<1>5. b.life = a /\ (PageCounts(c) => PageCounts(b)) /\ b.inc <= c.inc
  BY <1>1, <1>4 DEF PageCounts, IsCtl, Agrees
<1>6. Fits(x, y, t, v, NoTab, c)
  BY <1>1, <1>3, <1>4, <1>5 DEF Fits, Agrees, Settled, Placed, b
<1>7. Relives(x.m, y.m, t)
  BY <1>1, <1>3, RelivesItself
<1> QED
  BY <1>3, <1>6, <1>7, Put

\* The same tabs, wherever they are now.
Alike(x, y) ==
    /\ SameIds(x.m, y.m) /\ y.visible = x.visible
    /\ x.m.active \in DOMAIN x.m.tabs => y.m.active \in DOMAIN y.m.tabs
    /\ \A u \in TabIds :
         x.ctl[u].life # "Dormant" => y.ctl[u].life # "Dormant"

\* A step that leaves the strip keeps it alike.
LEMMA SameIsAlike ==
    ASSUME NEW x, NEW y, NEW z, Alike(x, y), Same(y, z) PROVE Alike(x, z)
BY DEF Same, Alike, SameIds

\* So does none.
LEMMA AlikeItself == ASSUME NEW x PROVE Alike(x, x)
BY DEF Alike, SameIds

\* A committed navigation begins: the tab is at its new address.
Committed(x, t, n) ==
    beginNavigation([x EXCEPT !.m.tabs[indexOfId(x.m, t)] = n], t)
\* What has become of t.
Commits(x, y, t, n) ==
    /\ contains(y.m, t) /\ TabOf(y.m, t) = n
    /\ SameIds(x.m, y.m) /\ y.visible = x.visible
    /\ x.m.active \in DOMAIN x.m.tabs => y.m.active \in DOMAIN y.m.tabs
    /\ \A u \in TabIds : u # t => y.ctl[u] = x.ctl[u]
    /\ PageCounts(y.ctl[t]) => TabOf(x.m, t).snap.kind = "web"
    /\ y.ctl[t].life = n.life
    /\ n.snap.kind = TabOf(x.m, t).snap.kind =>
         Settled(n, y.ctl[t]) /\ y.ctl[t].life = x.ctl[t].life
\* A navigation is committed: the tab is as it will be, its page is not.
LEMMA CommittedOK ==
    ASSUME NEW x, NEW v, Well(x, v, NoTab),
           NEW t \in TabIds, contains(x.m, t), NEW address, NEW n,
           Moved(TabOf(x.m, t), n, address),
           NEW y, y = Committed(x, t, n)
    PROVE  Well(y, v, t) /\ Commits(x, y, t, n)
<1> DEFINE b == x.ctl[t]
           c == [[b EXCEPT !.inc = @ + 1] EXCEPT !.life = n.life]
           i == indexOfId(x.m, t)
           m == [x.m EXCEPT !.tabs[i] = n]
           x1 == [x EXCEPT !.m.tabs[i] = n]
<1>1. /\ IsCtl(b) /\ Agrees(TabOf(x.m, t), b) /\ (b.active <=> t = v)
      /\ Settled(TabOf(x.m, t), b)
      /\ DOMAIN x = Fields /\ DOMAIN x.ctl = TabIds /\ IsStrip(x.m)
      /\ TabOf(x.m, t).id = t
  BY TabFacts, StripIndex, TabsAssumption, FS_CardinalityType DEF NoTab
<1>2. n \in Tabs /\ n.id = t
  BY <1>1 DEF Moved
<1>3. /\ IsStrip(m) /\ SameIds(x.m, m) /\ TabOf(m, t) = n
      /\ Others(x.m, m, t) /\ m.active = x.m.active /\ m.nextId = x.m.nextId
      /\ DOMAIN m.tabs = DOMAIN x.m.tabs
  BY <1>1, <1>2, TabSet
<1>4. /\ x1.m = m /\ x1.ctl = x.ctl /\ Leaves(x, x1) /\ DOMAIN x1 = Fields
  BY <1>1 DEF Leaves, Fields, EmptyWindow
<1> DEFINE w1 == [x1 EXCEPT !.ctl[t].inc = b.inc + 1]
           d == [b EXCEPT !.inc = b.inc + 1]
<1>5. y = [w1 EXCEPT !.ctl[t].life = n.life] /\ c = [d EXCEPT !.life = n.life]
  BY <1>3, <1>4 DEF beginNavigation, Committed, TabOf
<1> HIDE DEF m, x1, i
<1>21. Leaves(x1, w1) /\ Gets(x, w1, t, d) /\ w1.m = m /\ DOMAIN w1 = Fields
  BY <1>1, <1>4 DEF Leaves, Gets, Fields, EmptyWindow
<1> HIDE DEF w1, d
<1>6. Leaves(x1, y) /\ Gets(x, y, t, c) /\ y.m = m /\ DOMAIN y = Fields
  BY <1>1, <1>5, <1>21 DEF Leaves, Gets, Fields, EmptyWindow
<1> HIDE DEF b
<1>7. /\ IsCtl(c) /\ c.inc = b.inc + 1 /\ c.web = b.web /\ c.webInc = b.webInc
      /\ c.failed = b.failed /\ c.pkg = b.pkg /\ c.life = n.life
      /\ c.active = b.active /\ c.kind = b.kind
  BY <1>1 DEF IsCtl, NoController
<1>8. n.life \in Lives
  BY <1>2 DEF Tabs
<1> HIDE DEF c
<1>9. PageCounts(c) => PageCounts(b) /\ c.failed
  BY <1>1, <1>7 DEF PageCounts, IsCtl
<1>10. contains(m, t) /\ inMap(x, t)
  BY <1>3, Mapped DEF SameIds
<1>11. c # NoController
  BY <1>7, <1>8 DEF NoController, Lives
<1>12. y.ctl[t] = c /\ DOMAIN y.ctl = TabIds
       /\ \A u \in TabIds : u # t => y.ctl[u] = x.ctl[u]
  BY <1>1, <1>6 DEF Gets
<1>13. TabOK(y, t, v, t)
  BY <1>1, <1>3, <1>6, <1>7, <1>9, <1>10, <1>11, <1>12
  DEF TabOK, inMap, Agrees
<1>14. ASSUME NEW u \in TabIds, u # t
       PROVE  /\ TabOK(y, u, v, t)
              /\ inMap(y, u) => TabOf(y.m, u) = TabOf(x.m, u) /\ inMap(x, u)
  <2>1. TabOK(x, u, v, NoTab) /\ y.ctl[u] = x.ctl[u] /\ u # NoTab
    BY <1>12, <1>14, TabsAssumption, FS_CardinalityType DEF Well, NoTab
  <2>2. contains(y.m, u) <=> contains(x.m, u)
    BY <1>3, <1>6 DEF SameIds
  <2>3. contains(x.m, u) => TabOf(y.m, u) = TabOf(x.m, u)
    BY <1>3, <1>6, <1>14 DEF Others
  <2> QED
    BY <2>1, <2>2, <2>3 DEF TabOK, inMap
<1>15. Onward(x, y)
  <2>1. x.m.nextId \in Nat /\ y.m.nextId = x.m.nextId
    BY <1>1, <1>3, <1>6 DEF IsStrip
  <2>2. ASSUME NEW u \in TabIds, inMap(y, u)
        PROVE  /\ inMap(x, u) /\ x.ctl[u].inc \in Nat /\ y.ctl[u].inc \in Nat
               /\ x.ctl[u].inc <= y.ctl[u].inc
               /\ y.ctl[u].inc = x.ctl[u].inc =>
                    TabOf(y.m, u).snap.kind = TabOf(x.m, u).snap.kind
    <3>1. CASE u = t
      <4>1. x.ctl[u] = b /\ y.ctl[u] = c /\ b.inc \in Nat /\ c.inc = b.inc + 1
        BY <1>1, <1>7, <1>12, <3>1 DEF b, IsCtl
      <4> QED
        BY <1>10, <3>1, <4>1
    <3>2. CASE u # t
      BY <1>12, <1>14, <2>2, <3>2, TabFacts DEF IsCtl
    <3> QED
      BY <3>1, <3>2
  <2> QED
    BY <2>1, <2>2 DEF Onward
<1>16. y.jobs = x.jobs /\ y.events = x.events /\ y.sites = x.sites
       /\ y.visible = x.visible
  BY <1>4, <1>6 DEF Leaves
<1>17. Queued(y)
  BY <1>15, <1>16, QueuedMovesOn DEF Well
<1>18. Well(y, v, t)
  BY <1>3, <1>6, <1>12, <1>13, <1>14, <1>17 DEF Well
<1>19. PageCounts(y.ctl[t]) => TabOf(x.m, t).snap.kind = "web"
  BY <1>1, <1>9, <1>12 DEF Settled, Placed
<1>20. ASSUME n.snap.kind = TabOf(x.m, t).snap.kind
       PROVE  Settled(n, y.ctl[t]) /\ y.ctl[t].life = x.ctl[t].life
  <2>1. n.life = TabOf(x.m, t).life
    BY <1>20 DEF Moved
  <2> QED
    BY <1>1, <1>7, <1>9, <1>12, <1>20, <2>1
    DEF Settled, Placed, Agrees, b
<1> QED
  BY <1>3, <1>6, <1>7, <1>10, <1>12, <1>16, <1>18, <1>19, <1>20 DEF Commits

-----------------------------------------------------------------------------
\* The queues.

\* A sequence is a queue, ...
LEMMA Queue == ASSUME NEW S, NEW q \in Seq(S) PROVE IsQueue(q)
<1>1. Len(q) \in Nat /\ DOMAIN q = 1 .. Len(q) /\ q \in [1 .. Len(q) -> S]
  BY LenProperties
<1>2. q \in [1 .. Len(q) -> ToSet(q)]
  BY <1>1 DEF ToSet
<1>3. q \in UNION {[1 .. n -> ToSet(q)] : n \in Nat}
  BY <1>1, <1>2
<1> QED
  BY <1>3, SeqDef DEF IsQueue

\* ... two are one, ...
LEMMA Queues ==
    ASSUME NEW p, IsQueue(p), NEW q, IsQueue(q)
    PROVE  IsQueue(p \o q) /\ ToSet(p \o q) \subseteq ToSet(p) \cup ToSet(q)
<1> DEFINE S == ToSet(p) \cup ToSet(q)
<1>1. p \in Seq(S) /\ q \in Seq(S)
  BY SeqMonotonic DEF IsQueue
<1> HIDE DEF S
<1>2. p \o q \in Seq(S)
  BY <1>1, ConcatProperties
<1>3. \A i \in DOMAIN (p \o q) : (p \o q)[i] \in S
  BY <1>2, LenProperties, ElementOfSeq
<1> QED
  BY <1>2, <1>3, Queue DEF ToSet, S

\* ... with one more it is one, ...
LEMMA Queueing ==
    ASSUME NEW q, IsQueue(q), NEW e
    PROVE  /\ IsQueue(Append(q, e))
           /\ ToSet(Append(q, e)) \subseteq ToSet(q) \cup {e}
<1> DEFINE S == ToSet(q) \cup {e}
<1>1. q \in Seq(S) /\ e \in S
  BY SeqMonotonic DEF IsQueue
<1> HIDE DEF S
<1>2. Append(q, e) \in Seq(S)
  BY <1>1, AppendProperties
<1>3. \A i \in DOMAIN Append(q, e) : Append(q, e)[i] \in S
  BY <1>2, LenProperties, ElementOfSeq
<1> QED
  BY <1>2, <1>3, Queue DEF ToSet, S

\* ... and without the first.
LEMMA Dequeueing ==
    ASSUME NEW q, IsQueue(q), q # << >>
    PROVE  /\ Head(q) \in ToSet(q) /\ IsQueue(Tail(q))
           /\ ToSet(Tail(q)) \subseteq ToSet(q)
<1> DEFINE S == ToSet(q)
<1>1. q \in Seq(S)
  BY DEF IsQueue
<1> HIDE DEF S
<1>2. Head(q) \in S /\ Tail(q) \in Seq(S)
  BY <1>1, HeadTailProperties
<1>3. \A i \in DOMAIN Tail(q) : Tail(q)[i] \in S
  BY <1>2, LenProperties, ElementOfSeq
<1> QED
  BY <1>2, <1>3, Queue DEF ToSet, S

\* The tabs stay as they are, what is queued may change.
Adds(x, y) ==
    /\ DOMAIN y = DOMAIN x
    /\ y.m = x.m /\ y.ctl = x.ctl /\ y.visible = x.visible
    /\ IsQueue(y.jobs)
    /\ \A j \in ToSet(y.jobs) : j \in ToSet(x.jobs) \/ JobOK(x, j)
    /\ IsQueue(y.events)
    /\ \A e \in ToSet(y.events) : e \in ToSet(x.events) \/ EventOK(x, e)
    /\ \A s \in y.sites : s \in x.sites \/ SiteOK(x, s)

\* More that is queued.
LEMMA AddsOK ==
    ASSUME NEW x, NEW v, NEW l, Well(x, v, l), NEW y, Adds(x, y)
    PROVE  Well(y, v, l) /\ Same(x, y)
<1>1. \A s : SiteOK(x, s) => SiteOK(y, s)
  BY DEF Adds, SiteOK, inMap
<1>2. \A j : JobOK(x, j) => JobOK(y, j)
  BY <1>1 DEF JobOK
<1>3. \A e : EventOK(x, e) => EventOK(y, e)
  BY <1>1 DEF EventOK
<1>4. Queued(y)
  BY <1>1, <1>2, <1>3 DEF Adds, Well, Queued
<1>5. \A t \in TabIds : TabOK(y, t, v, l)
  BY DEF Well, TabOK, Adds, inMap
<1>6. Well(y, v, l)
  BY <1>4, <1>5 DEF Well, Adds
<1>7. Same(x, y)
  BY DEF Adds, Same, SameIds
<1> QED
  BY <1>6, <1>7

\* Nothing but the Workers' own records changes.
Beside(x, y) ==
    /\ Leaves(x, y) /\ y.m = x.m /\ y.ctl = x.ctl

\* What is not the tabs'.
LEMMA BesideOK ==
    ASSUME NEW x, NEW v, NEW l, Well(x, v, l), NEW y, Beside(x, y)
    PROVE  Well(y, v, l) /\ Same(x, y)
<1>1. Adds(x, y)
  BY DEF Adds, Beside, Leaves, Well, Queued
<1> QED
  BY <1>1, AddsOK

\* A job.
LEMMA EnqueueOK ==
    ASSUME NEW x, NEW v, NEW l, Well(x, v, l), NEW job, JobOK(x, job),
           NEW y, y = Enqueue(x, job)
    PROVE  Well(y, v, l) /\ Same(x, y) /\ y.m = x.m /\ y.ctl = x.ctl
<1>1. DOMAIN x = Fields
  BY DEF Well
<1>2. /\ DOMAIN y = DOMAIN x /\ y.m = x.m /\ y.ctl = x.ctl
      /\ y.visible = x.visible /\ y.jobs = Append(x.jobs, job)
      /\ y.events = x.events /\ y.sites = x.sites
  BY <1>1 DEF Enqueue, Fields, EmptyWindow
<1>3. Adds(x, y)
  BY <1>2, Queueing DEF Adds, Well, Queued
<1> QED
  BY <1>2, <1>3, AddsOK

\* An event.
LEMMA PostOK ==
    ASSUME NEW x, NEW v, NEW l, Well(x, v, l), NEW e, EventOK(x, e),
           NEW y, y = Post(x, e)
    PROVE  Well(y, v, l) /\ Same(x, y) /\ y.m = x.m /\ y.ctl = x.ctl
<1>1. DOMAIN x = Fields
  BY DEF Well
<1>2. /\ DOMAIN y = DOMAIN x /\ y.m = x.m /\ y.ctl = x.ctl
      /\ y.visible = x.visible /\ y.events = Append(x.events, e)
      /\ y.jobs = x.jobs /\ y.sites = x.sites
  BY <1>1 DEF Post, Fields, EmptyWindow
<1>3. Adds(x, y)
  BY <1>2, Queueing DEF Adds, Well, Queued
<1> QED
  BY <1>2, <1>3, AddsOK

-----------------------------------------------------------------------------
\* The Worker of a tab.

\* stopCurrent.
LEMMA StopCurrentOK ==
    ASSUME NEW x, NEW v, Well(x, v, NoTab), NEW t \in TabIds,
           NEW y, y = stopCurrent(x, t)
    PROVE  Well(y, v, NoTab) /\ Same(x, y)
<1> DEFINE w1 == [x EXCEPT !.rt[t].ctx = 0, !.rt[t].ack = FALSE]
<1>1. Beside(x, w1)
  <2>1. DOMAIN x = Fields
    BY DEF Well
  <2> QED
    BY <2>1 DEF Beside, Leaves, Fields, EmptyWindow
<1>2. y \in {w1, detachLegacyWorkerSurface(w1, t)}
  BY DEF stopCurrent
<1> HIDE DEF w1
<1>3. Well(w1, v, NoTab) /\ Same(x, w1)
  BY <1>1, BesideOK
<1>4. Well(y, v, NoTab) /\ Same(w1, y)
  BY <1>2, <1>3, DetachOK, SameItself
<1> QED
  BY <1>3, <1>4, SameTwice

\* stop.
LEMMA StopOK ==
    ASSUME NEW x, NEW v, Well(x, v, NoTab), NEW t \in TabIds,
           NEW y, y = stop(x, t)
    PROVE  Well(y, v, NoTab) /\ Same(x, y)
<1> DEFINE w1 == stopCurrent(x, t)
<1>1. Well(w1, v, NoTab) /\ Same(x, w1)
  BY StopCurrentOK
<1>2. y \in {w1, [w1 EXCEPT !.rt[t].dying = TRUE]}
  BY DEF stop
<1> HIDE DEF w1
<1>3. Beside(w1, y)
  BY <1>1, <1>2 DEF Beside, Leaves, Fields, EmptyWindow, Well
<1>4. Well(y, v, NoTab) /\ Same(w1, y)
  BY <1>1, <1>3, BesideOK
<1> QED
  BY <1>1, <1>4, SameTwice

\* forget.
LEMMA ForgetOK ==
    ASSUME NEW x, NEW v, Well(x, v, NoTab), NEW t \in TabIds, NEW l,
           NEW y, y = forget(x, t, l)
    PROVE  Well(y, v, NoTab) /\ Same(x, y) /\ Beside(x, y)
<1>1. DOMAIN x = Fields
  BY DEF Well
<1>2. Beside(x, y)
  BY <1>1 DEF Beside, Leaves, Fields, EmptyWindow, forget
<1> QED
  BY <1>2, BesideOK

\* cancelLaunchIfCurrent.
LEMMA CancelOK ==
    ASSUME NEW x, NEW v, Well(x, v, NoTab), NEW t \in TabIds, NEW l,
           NEW y, y = cancelLaunchIfCurrent(x, t, l)
    PROVE  Well(y, v, NoTab) /\ Same(x, y)
<1> DEFINE w1 == [x EXCEPT !.rt[t].pend = IF @.l = l THEN NoLaunch ELSE @,
                           !.rt[t].dying = @ \/ x.rt[t].proc = l]
           w2 == stopCurrent(w1, t)
<1>1. Beside(x, w1)
  <2>1. DOMAIN x = Fields
    BY DEF Well
  <2> QED
    BY <2>1 DEF Beside, Leaves, Fields, EmptyWindow
<1>2. y \in {x, forget(w2, t, l)}
  BY DEF cancelLaunchIfCurrent
<1> HIDE DEF w1
<1>3. Well(w1, v, NoTab) /\ Same(x, w1)
  BY <1>1, BesideOK
<1>4. Well(w2, v, NoTab) /\ Same(w1, w2)
  BY <1>3, StopCurrentOK
<1> HIDE DEF w2
<1>5. CASE y = x
  BY <1>5, SameItself
<1>6. CASE y # x
  <2>1. Well(y, v, NoTab) /\ Same(w2, y)
    BY <1>2, <1>4, <1>6, ForgetOK
  <2> QED
    BY <1>3, <1>4, <2>1, SameTwice
<1> QED
  BY <1>5, <1>6

\* Only the record of t's Worker is another.
LEMMA RuntimeSet ==
    ASSUME NEW x, NEW v, NEW l, Well(x, v, l), NEW t, NEW r,
           NEW y, y = [x EXCEPT !.rt[t] = r]
    PROVE  Well(y, v, l) /\ Same(x, y) /\ Beside(x, y)
<1>1. DOMAIN x = Fields
  BY DEF Well
<1>2. Beside(x, y)
  BY <1>1 DEF Beside, Leaves, Fields, EmptyWindow
<1> QED
  BY <1>2, BesideOK

\* requestLaunch.
LEMMA RequestOK ==
    ASSUME NEW x, NEW v, Well(x, v, NoTab), NEW t \in TabIds, NEW launch,
           NEW nav, NEW address,
           NEW y, y = requestLaunch(x, t, launch, nav, address)
    PROVE  Well(y, v, NoTab) /\ Same(x, y)
<1> DEFINE r == [x.rt[t] EXCEPT !.cur = launch, !.r = launch.r,
                                !.target = [l |-> launch.l, nav |-> nav,
                                            address |-> address]]
           w1 == [x EXCEPT !.rt[t] = r]
           w2 == [w1 EXCEPT !.rt[t].pend = launch]
           w3 == [w1 EXCEPT !.rt[t] = started(@, launch)]
<1>1. y \in {stop(w2, t), w3}
  BY DEF requestLaunch
<1> HIDE DEF r
<1>2. DOMAIN x = Fields
  BY DEF Well
<1>3. Beside(x, w2) /\ Beside(x, w3)
  BY <1>2 DEF Beside, Leaves, Fields, EmptyWindow
<1> HIDE DEF w2, w3
<1>4. Well(w2, v, NoTab) /\ Same(x, w2) /\ Well(w3, v, NoTab) /\ Same(x, w3)
  BY <1>3, BesideOK
<1>5. CASE y = w3
  BY <1>4, <1>5
<1>6. CASE y # w3
  <2>1. Well(y, v, NoTab) /\ Same(w2, y)
    BY <1>1, <1>4, <1>6, StopOK
  <2> QED
    BY <1>4, <2>1, SameTwice
<1> QED
  BY <1>5, <1>6

\* retargetPendingLaunch.
LEMMA RetargetOK ==
    ASSUME NEW x, NEW v, Well(x, v, NoTab), NEW t \in TabIds, NEW nav,
           NEW address, NEW y, y = retargetPendingLaunch(x, t, nav, address)
    PROVE  Well(y, v, NoTab) /\ Same(x, y)
<1>1. DOMAIN x = Fields
  BY DEF Well
<1>2. Beside(x, y)
  BY <1>1 DEF Beside, Leaves, Fields, EmptyWindow, retargetPendingLaunch
<1> QED
  BY <1>2, BesideOK

\* A job that brings no site.
LEMMA PlainJob ==
    ASSUME NEW x, NEW j, j.t \in TabIds,
           j.j \in {"launch", "close", "cancel", "exited", "admit"}
    PROVE  JobOK(x, j)
BY DEF JobOK

\* processGone.
LEMMA ProcessGoneOK ==
    ASSUME NEW x, NEW v, Well(x, v, NoTab), NEW t \in TabIds,
           NEW y, y = processGone(x, t)
    PROVE  Well(y, v, NoTab) /\ Same(x, y)
<1> DEFINE rt == x.rt[t]
           exits == [j |-> "exited", t |-> t, l |-> rt.proc]
           w1 == IF rt.dying THEN x ELSE Enqueue(x, exits)
           w2 == IF rt.cur.l = rt.proc THEN stopCurrent(w1, t) ELSE w1
           w4 == forget(w2, t, rt.proc)
           w3 == [w4 EXCEPT !.rt[t].proc = 0, !.rt[t].dying = FALSE]
           w5 == [w3 EXCEPT !.rt[t] = started(@, rt.pend)]
           e == [e |-> "retired", t |-> t]
<1>1. y \in {w5, Post(w3, e), w3}
  BY DEF processGone
<1>2. JobOK(x, exits) /\ EventOK(w3, e)
  <2>1. exits.t = t /\ exits.j = "exited" /\ e.e = "retired" /\ e.t = t
    OBVIOUS
  <2> HIDE DEF exits, e, w3
  <2> QED
    BY <2>1 DEF JobOK, EventOK
<1> HIDE DEF exits, e, rt
<1>3. Well(w1, v, NoTab) /\ Same(x, w1)
  BY <1>2, EnqueueOK, SameItself
<1> HIDE DEF w1
<1>4. Well(w2, v, NoTab) /\ Same(w1, w2)
  BY <1>3, StopCurrentOK, SameItself
<1> HIDE DEF w2
<1>5. Well(w4, v, NoTab) /\ Same(w2, w4)
  BY <1>4, ForgetOK
<1> HIDE DEF w4
<1>6. DOMAIN w4 = Fields
  BY <1>5 DEF Well
<1>7. Beside(w4, w3) /\ Beside(w4, w5)
  BY <1>6 DEF Beside, Leaves, Fields, EmptyWindow
<1> HIDE DEF w3, w5
<1>8. /\ Well(w3, v, NoTab) /\ Same(w4, w3)
      /\ Well(w5, v, NoTab) /\ Same(w4, w5)
  BY <1>5, <1>7, BesideOK
<1>9. Well(y, v, NoTab) /\ (Same(w3, y) \/ Same(w4, y))
  <2>1. CASE y = Post(w3, e)
    BY <1>2, <1>8, <2>1, PostOK
  <2> QED
    BY <1>1, <1>8, <2>1
<1>10. Same(w4, y)
  BY <1>8, <1>9, SameTwice
<1>11. Same(x, w2)
  BY <1>3, <1>4, SameTwice
<1>12. Same(x, w4)
  BY <1>5, <1>11, SameTwice
<1> QED
  BY <1>9, <1>10, <1>12, SameTwice

\* refuseAttach.
LEMMA RefuseOK ==
    ASSUME NEW x, NEW v, Well(x, v, NoTab), NEW t \in TabIds, NEW l,
           NEW y, y = refuseAttach(x, t, l)
    PROVE  Well(y, v, NoTab) /\ Same(x, y)
<1> DEFINE exits == [j |-> "exited", t |-> t, l |-> l]
           w0 == Enqueue(x, exits)
           w1 == [w0 EXCEPT !.rt[t].dying = TRUE]
<1>1. y \in {stopCurrent(w1, t), w1}
  BY DEF refuseAttach
<1>2. JobOK(x, exits)
  BY PlainJob
<1> HIDE DEF exits
<1>3. Well(w0, v, NoTab) /\ Same(x, w0)
  BY <1>2, EnqueueOK
<1> HIDE DEF w0
<1>4. DOMAIN w0 = Fields
  BY <1>3 DEF Well
<1>5. Beside(w0, w1)
  BY <1>4 DEF Beside, Leaves, Fields, EmptyWindow
<1> HIDE DEF w1
<1>6. Well(w1, v, NoTab) /\ Same(w0, w1)
  BY <1>3, <1>5, BesideOK
<1>7. Well(y, v, NoTab) /\ Same(w1, y)
  BY <1>1, <1>6, StopCurrentOK, SameItself
<1> QED
  BY <1>3, <1>6, <1>7, SameTwice

\* What a Worker is shown for: the tab's own address, of an app.
LEMMA CurrentTarget ==
    ASSUME NEW x, NEW t, NEW nav, NEW package, NEW route, NEW address,
           isAppLaunchTargetCurrent(x, t, nav, package, route, address)
    PROVE  contains(x.m, t) /\ TabOf(x.m, t).snap.kind = "app"
BY DEF isAppLaunchTargetCurrent, snapshotOf, TabOf

\* completeLaunch.
LEMMA CompleteOK ==
    ASSUME NEW x, NEW v, Well(x, v, NoTab), NEW t \in TabIds, NEW l,
           NEW y, y = completeLaunch(x, t, l)
    PROVE  Well(y, v, NoTab) /\ Same(x, y)
<1> DEFINE b == x.ctl[t]
           c == [b EXCEPT !.worker = l]
           w1 == [x EXCEPT !.ctl[t].worker = l,
                           !.rt[t] = [@ EXCEPT !.ctx = l, !.target = NoTarget,
                                               !.ack = TRUE]]
<1>1. CASE y = x
  BY <1>1, SameItself
<1>2. CASE y = refuseAttach(x, t, l)
  BY <1>2, RefuseOK
<1>3. CASE attachable(x, t, l) /\ y = bindAppWorkerSurface(w1, t)
  <2>1. contains(x.m, t) /\ TabOf(x.m, t).snap.kind = "app"
    BY <1>3, CurrentTarget DEF attachable
  <2>2. /\ IsCtl(b) /\ Agrees(TabOf(x.m, t), b) /\ (b.active <=> t = v)
        /\ Settled(TabOf(x.m, t), b)
        /\ DOMAIN x = Fields /\ DOMAIN x.ctl = TabIds /\ IsStrip(x.m)
    BY <2>1, TabFacts, TabsAssumption, FS_CardinalityType DEF NoTab
  <2>3. Leaves(x, w1) /\ Gets(x, w1, t, c) /\ w1.m = x.m
    BY <2>2 DEF Leaves, Gets, Fields, EmptyWindow
  <2> HIDE DEF w1, b
  <2>4. /\ IsCtl(c) /\ c.inc = b.inc /\ c.web = b.web /\ c.webInc = b.webInc
        /\ c.failed = b.failed /\ c.pkg = b.pkg /\ c.life = b.life
        /\ c.active = b.active /\ c.kind = b.kind
    BY <2>2 DEF IsCtl, NoController
  <2> HIDE DEF c
  <2>5. Fits(x, w1, t, v, NoTab, c) /\ ~PageCounts(c)
    BY <2>1, <2>2, <2>3, <2>4
    DEF Fits, IsCtl, Agrees, Settled, Placed, PageCounts, b
  <2>6. Relives(x.m, w1.m, t)
    BY <2>2, <2>3, RelivesItself
  <2>7. Well(w1, v, NoTab) /\ Same(x, w1) /\ w1.ctl[t] = c
    BY <2>1, <2>3, <2>5, <2>6, Put
  <2> DEFINE k == NoTab
  <2>8. k \in {t, NoTab} /\ Well(w1, v, k) /\ k = NoTab
    BY <2>7
  <2> HIDE DEF k
  <2>9. Well(y, v, NoTab) /\ Same(w1, y)
    BY <1>3, <2>1, <2>3, <2>5, <2>7, <2>8, BindOK
  <2> QED
    BY <2>7, <2>9, SameTwice
<1>4. \/ y = x
      \/ y = refuseAttach(x, t, l)
      \/ attachable(x, t, l) /\ y = bindAppWorkerSurface(w1, t)
  BY DEF completeLaunch
<1> QED
  BY <1>1, <1>2, <1>3, <1>4

-----------------------------------------------------------------------------
\* The Host's handlers.

\* handleAppStopRequested.
LEMMA StopRequestedOK ==
    ASSUME NEW x, NEW v, Well(x, v, NoTab), NEW t \in TabIds, NEW runtime,
           NEW y, y = handleAppStopRequested(x, t, runtime)
    PROVE  Well(y, v, NoTab) /\ Same(x, y) /\ y.m = x.m /\ y.ctl = x.ctl
<1> DEFINE r == IF runtime # 0 THEN runtime ELSE x.runtimeOf[t]
           w1 == [x EXCEPT !.runtimeOf[t] = 0, !.pendingNav[t] = 0]
           j == [j |-> "close", t |-> t, r |-> r]
<1>1. y = x \/ y = Enqueue(w1, j)
  BY DEF handleAppStopRequested
<1>2. JobOK(w1, j)
  BY PlainJob
<1> HIDE DEF j
<1>3. Beside(x, w1)
  <2>1. DOMAIN x = Fields
    BY DEF Well
  <2> QED
    BY <2>1 DEF Beside, Leaves, Fields, EmptyWindow
<1> HIDE DEF w1
<1>4. Well(w1, v, NoTab) /\ Same(x, w1) /\ w1.m = x.m /\ w1.ctl = x.ctl
  BY <1>3, BesideOK DEF Beside
<1>5. CASE y = x
  BY <1>5, SameItself
<1>6. CASE y = Enqueue(w1, j)
  <2>1. Well(y, v, NoTab) /\ Same(w1, y) /\ y.m = w1.m /\ y.ctl = w1.ctl
    BY <1>2, <1>4, <1>6, EnqueueOK
  <2> QED
    BY <1>4, <2>1, SameTwice
<1> QED
  BY <1>1, <1>5, <1>6

\* The incarnations the Host names runtimes by.
LEMMA RuntimeNamed ==
    ASSUME NEW x, NEW v, Well(x, v, NoTab), NEW t \in TabIds, NEW y,
           \/ y = runtimeIncarnationForTab(x, t)
           \/ y = advanceRuntimeIncarnationForTab(x, t)
    PROVE  Beside(x, y)
<1>1. DOMAIN x = Fields
  BY DEF Well
<1> DEFINE w1 == runtimeIncarnationForTab(x, t)
<1>2. Beside(x, w1) /\ DOMAIN w1 = Fields
  BY <1>1
  DEF Beside, Leaves, Fields, EmptyWindow, runtimeIncarnationForTab
<1>3. y \in {w1, [w1 EXCEPT !.runtimeOf[t] = w1.nextR, !.nextR = @ + 1]}
  BY DEF advanceRuntimeIncarnationForTab
<1> HIDE DEF w1
<1> QED
  BY <1>2, <1>3 DEF Beside, Leaves, Fields, EmptyWindow

\* queueLaunch.
LEMMA QueueLaunchOK ==
    ASSUME NEW x, NEW v, Well(x, v, NoTab), NEW t \in TabIds, NEW address,
           NEW reload, NEW y, y = queueLaunch(x, t, address, reload)
    PROVE  Well(y, v, NoTab) /\ Same(x, y)
<1> DEFINE w1 == IF reload \/ supersedesUnmaterializedLaunch(x, t)
                   THEN advanceRuntimeIncarnationForTab(x, t)
                   ELSE runtimeIncarnationForTab(x, t)
           nav == x.ctl[t].inc
           j == [j |-> "launch", t |-> t, r |-> w1.runtimeOf[t],
                 route |-> RouteOf[address], reload |-> reload, nav |-> nav]
           w0 == Enqueue(w1, j)
           w2 == [w0 EXCEPT !.pendingNav[t] = nav]
<1>1. y \in {w2, retargetPendingLaunch(w2, t, nav, address)}
  BY DEF queueLaunch
<1>2. JobOK(w1, j)
  BY PlainJob
<1>3. Beside(x, w1)
  BY RuntimeNamed
<1> HIDE DEF w1, j
<1>4. Well(w1, v, NoTab) /\ Same(x, w1)
  BY <1>3, BesideOK
<1>5. Well(w0, v, NoTab) /\ Same(w1, w0)
  BY <1>2, <1>4, EnqueueOK
<1> HIDE DEF w0
<1>6. DOMAIN w0 = Fields
  BY <1>5 DEF Well
<1>7. Beside(w0, w2)
  BY <1>6 DEF Beside, Leaves, Fields, EmptyWindow
<1> HIDE DEF w2
<1>8. Well(w2, v, NoTab) /\ Same(w0, w2)
  BY <1>5, <1>7, BesideOK
<1>9. Well(y, v, NoTab) /\ Same(w2, y)
  BY <1>1, <1>8, RetargetOK, SameItself
<1>10. Same(x, w0)
  BY <1>4, <1>5, SameTwice
<1> QED
  BY <1>8, <1>9, <1>10, SameTwice

\* A site is asked for by a tab that is at its address.
LEMMA LoadSiteOK ==
    ASSUME NEW x, NEW v, Well(x, v, NoTab), NEW t \in TabIds,
           contains(x.m, t), TabOf(x.m, t).snap.kind = "app", NEW address,
           NEW y, y = loadSite(x, t, address)
    PROVE  Well(y, v, NoTab) /\ Same(x, y)
<1> DEFINE w1 == handleAppStopRequested(x, t, 0)
           s == [t |-> t, nav |-> x.ctl[t].inc, address |-> address,
                 step |-> "descriptor"]
<1>1. y = [w1 EXCEPT !.sites = @ \cup {s}]
  BY DEF loadSite
<1>2. Well(w1, v, NoTab) /\ Same(x, w1) /\ w1.m = x.m /\ w1.ctl = x.ctl
  BY StopRequestedOK
<1> HIDE DEF w1
<1>3. /\ DOMAIN s = {"t", "nav", "address", "step"} /\ s.t = t
      /\ s.nav = x.ctl[t].inc
  OBVIOUS
<1> HIDE DEF s
<1>4. SiteOK(w1, s)
  <2>1. IsCtl(x.ctl[t]) /\ IsStrip(x.m)
    BY TabFacts
  <2>2. t < x.m.nextId
    <3>1. /\ indexOfId(x.m, t) \in DOMAIN x.m.tabs
          /\ x.m.tabs[indexOfId(x.m, t)].id = t
      BY <2>1, StripIndex DEF TabOf
    <3> QED
      BY <2>1, <3>1 DEF IsStrip
  <2> QED
    BY <1>2, <1>3, <2>1, <2>2 DEF SiteOK, IsCtl
<1>5. DOMAIN w1 = Fields
  BY <1>2 DEF Well
<1>6. /\ DOMAIN y = DOMAIN w1 /\ y.m = w1.m /\ y.ctl = w1.ctl
      /\ y.visible = w1.visible /\ y.jobs = w1.jobs /\ y.events = w1.events
      /\ y.sites = w1.sites \cup {s}
  BY <1>1, <1>5 DEF Fields, EmptyWindow
<1>7. Adds(w1, y)
  BY <1>2, <1>4, <1>6 DEF Adds, Well, Queued
<1>8. Well(y, v, NoTab) /\ Same(w1, y)
  BY <1>2, <1>7, AddsOK
<1> QED
  BY <1>2, <1>8, SameTwice

\* handleAppLaunchRequested.
LEMMA LaunchRequestedOK ==
    ASSUME NEW x, NEW v, Well(x, v, NoTab), NEW t \in TabIds,
           contains(x.m, t), TabOf(x.m, t).snap.kind = "app",
           NEW address, NEW reload, NEW verified, NEW y,
           y = handleAppLaunchRequested(x, t, address, reload, verified)
    PROVE  Well(y, v, NoTab) /\ Same(x, y)
<1> DEFINE w1 == [x EXCEPT !.rt[t].made = TRUE]
<1>1. y \in {loadSite(w1, t, address), queueLaunch(w1, t, address, reload)}
  BY DEF handleAppLaunchRequested
<1>2. Beside(x, w1)
  <2>1. DOMAIN x = Fields
    BY DEF Well
  <2> QED
    BY <2>1 DEF Beside, Leaves, Fields, EmptyWindow
<1> HIDE DEF w1
<1>3. Well(w1, v, NoTab) /\ Same(x, w1) /\ w1.m = x.m
  BY <1>2, BesideOK DEF Beside
<1>4. Well(y, v, NoTab) /\ Same(w1, y)
  <2>1. CASE y = loadSite(w1, t, address)
    BY <1>3, <2>1, LoadSiteOK
  <2>2. CASE y = queueLaunch(w1, t, address, reload)
    BY <1>3, <2>2, QueueLaunchOK
  <2> QED
    BY <1>1, <2>1, <2>2
<1> QED
  BY <1>3, <1>4, SameTwice

\* Of the two applications of a launch, prepareAppLaunch comes first.
LEMMA ApplyLaunchOK ==
    ASSUME NEW x, NEW v, Well(x, v, NoTab), NEW t \in TabIds, inMap(x, t),
           NEW launch, NEW recovery,
           NEW y, y = applyLaunch(x, t, launch, recovery)
    PROVE  Well(y, v, NoTab) /\ Same(x, y)
<1> DEFINE nav == IF recovery \/ x.pendingNav[t] = 0 THEN x.ctl[t].inc
                                                     ELSE x.pendingNav[t]
           w1 == IF recovery THEN [x EXCEPT !.pendingNav[t] = nav] ELSE x
           w2 == prepareAppLaunch(w1, t, PackageOfRoute[launch.route], nav)
           j == [j |-> "cancel", t |-> t, l |-> launch.l]
           address == snapshotOf(x.m, t).address
<1>1. \/ y = x
      \/ y = Enqueue(w1, j)
      \/ /\ isCurrentLaunchTarget(w1, t, nav, launch)
         /\ y = requestLaunch(w2, t, launch, nav, address)
  BY DEF applyLaunch, dropPendingLaunch
<1>2. JobOK(w1, j)
  BY PlainJob
<1> HIDE DEF nav, j
<1>3. Beside(x, w1)
  <2>1. DOMAIN x = Fields
    BY DEF Well
  <2> QED
    BY <2>1 DEF Beside, Leaves, Fields, EmptyWindow
<1> HIDE DEF w1
<1>4. Well(w1, v, NoTab) /\ Same(x, w1)
  BY <1>3, BesideOK
<1>5. CASE y = x
  BY <1>5, SameItself
<1>6. CASE y = Enqueue(w1, j)
  <2>1. Well(y, v, NoTab) /\ Same(w1, y)
    BY <1>2, <1>4, <1>6, EnqueueOK
  <2> QED
    BY <1>4, <2>1, SameTwice
<1>7. CASE /\ isCurrentLaunchTarget(w1, t, nav, launch)
           /\ y = requestLaunch(w2, t, launch, nav, address)
  <2>1. /\ contains(w1.m, t) /\ TabOf(w1.m, t).snap.kind = "app"
        /\ w1.ctl[t].inc = nav
    BY <1>7 DEF isCurrentLaunchTarget, canTransitionResources, showsRoute,
                snapshotOf, TabOf
  <2> DEFINE l == NoTab
             p == PackageOfRoute[launch.route]
  <2>2. l \in {t, NoTab} /\ Well(w1, v, l)
    BY <1>4
  <2>3. w2 = prepareAppLaunch(w1, t, p, w1.ctl[t].inc)
    BY <2>1
  <2> HIDE DEF l, w2, p
  <2>4. Well(w2, v, NoTab) /\ Same(w1, w2)
    BY <2>1, <2>2, <2>3, PrepareOK
  <2>5. Well(y, v, NoTab) /\ Same(w2, y)
    BY <1>7, <2>4, RequestOK
  <2> QED
    BY <1>4, <2>4, <2>5, SameTwice
<1> QED
  BY <1>1, <1>5, <1>6, <1>7

\* One action of the coordinator's answer, ...
LEMMA ActionOK ==
    ASSUME NEW x, NEW v, Well(x, v, NoTab), NEW t \in TabIds, NEW a,
           a.kind \in {"Launch", "Stop", "Crash"},
           NEW y, y = handleAction(x, t, a)
    PROVE  Well(y, v, NoTab) /\ Same(x, y)
<1> DEFINE d == dropWeb(x.ctl[t])
           w1 == SetCtl(x, t, d)
<1>1. \/ y = x
      \/ inMap(x, t) /\ y = applyLaunch(x, t, a.launch, a.recovery)
      \/ y = stop(x, t)
      \/ inMap(x, t) /\ y = enterTrustedError(w1, t, TRUE)
  BY DEF handleAction
<1>2. CASE y = x
  BY <1>2, SameItself
<1>3. CASE inMap(x, t) /\ y = applyLaunch(x, t, a.launch, a.recovery)
  BY <1>3, ApplyLaunchOK
<1>4. CASE y = stop(x, t)
  BY <1>4, StopOK
<1>5. CASE inMap(x, t) /\ y = enterTrustedError(w1, t, TRUE)
  <2>1. /\ contains(x.m, t) /\ IsCtl(x.ctl[t])
        /\ Settled(TabOf(x.m, t), x.ctl[t])
    BY <1>5, TabFacts, TabsAssumption, FS_CardinalityType DEF NoTab
  <2>2. /\ IsCtl(d) /\ d.inc = x.ctl[t].inc
        /\ d.web = 0 /\ d.life = x.ctl[t].life
        /\ d.active = x.ctl[t].active /\ d.kind = x.ctl[t].kind
    BY <2>1, WebDropped
  <2> HIDE DEF d, w1
  <2>3. x.ctl[t].inc <= d.inc
    BY <2>1, <2>2 DEF IsCtl
  <2>4. Fits(x, x, t, v, NoTab, d)
    BY <2>1, <2>2, <2>3, NoPageFits DEF Settled, Placed
  <2>5. Well(w1, v, NoTab) /\ Same(x, w1)
    BY <2>1, <2>4, SetCtlOK DEF w1
  <2>6. Well(y, v, NoTab) /\ Same(w1, y)
    BY <1>5, <2>5, ErrorWell DEF w1
  <2> QED
    BY <2>5, <2>6, SameTwice
<1> QED
  BY <1>1, <1>2, <1>3, <1>4, <1>5

\* ... and the answer.
LEMMA ResultOK ==
    ASSUME NEW x, NEW v, Well(x, v, NoTab), NEW t \in TabIds, NEW actions,
           actions[1].kind \in {"Launch", "Stop", "Crash"},
           ~(Len(actions) < 2) =>
             actions[2].kind \in {"Launch", "Stop", "Crash"},
           NEW y, y = handleAppRuntimeResult(x, t, actions)
    PROVE  Well(y, v, NoTab) /\ Same(x, y)
<1> DEFINE w1 == handleAction(x, t, actions[1])
<1>1. Well(w1, v, NoTab) /\ Same(x, w1)
  BY ActionOK
<1>2. y = IF Len(actions) < 2 THEN w1 ELSE handleAction(w1, t, actions[2])
  BY DEF handleAppRuntimeResult
<1> HIDE DEF w1
<1>3. Well(y, v, NoTab) /\ Same(w1, y)
  BY <1>1, <1>2, ActionOK, SameItself
<1> QED
  BY <1>1, <1>3, SameTwice

\* A site on its way.
LEMMA SiteFailsOK ==
    ASSUME NEW x, NEW v, Well(x, v, NoTab), NEW s, s.t \in TabIds,
           NEW y, y = siteFails(x, s)
    PROVE  Well(y, v, NoTab) /\ Same(x, y)
<1>1. y \in {x, showTrustedErrorForNavigation(x, s.t, s.nav)}
  BY DEF siteFails
<1> QED
  BY <1>1, NavigationErrorOK, SameItself

\* A site has arrived.
LEMMA SiteArrivesOK ==
    ASSUME NEW x, NEW v, Well(x, v, NoTab), NEW s, SiteOK(x, s),
           NEW y, y = siteArrives(x, s)
    PROVE  Well(y, v, NoTab) /\ Same(x, y)
<1> DEFINE j == [j |-> "install", t |-> s.t, site |-> s]
<1>1. y \in {x, Enqueue(x, j)}
  BY DEF siteArrives
<1>2. JobOK(x, j)
  <2>1. j.j = "install" /\ j.t = s.t /\ j.site = s
    OBVIOUS
  <2> HIDE DEF j
  <2> QED
    BY <2>1 DEF JobOK, SiteOK
<1> HIDE DEF j
<1> QED
  BY <1>1, <1>2, EnqueueOK, SameItself

\* A site is installed.
LEMMA SiteInstalledOK ==
    ASSUME NEW x, NEW v, Well(x, v, NoTab), NEW s, SiteOK(x, s),
           NEW y, y = siteInstalled(x, s)
    PROVE  Well(y, v, NoTab) /\ Same(x, y)
<1>1. CASE y = x
  BY <1>1, SameItself
<1>2. CASE y # x
  <2> DEFINE t == s.t
             package == PackageOf[s.address]
             address == s.address
             w1 == prepareAppLaunch(x, t, package, x.ctl[t].inc)
             l == NoTab
  <2>1. isCurrentSite(x, s)
    BY <1>2 DEF siteInstalled
  <2>2. /\ t \in TabIds /\ contains(x.m, t) /\ TabOf(x.m, t).snap.kind = "app"
        /\ s.nav = x.ctl[t].inc
    BY <2>1, Mapped DEF isCurrentSite, SiteOK
  <2>3. y = handleAppLaunchRequested(w1, t, address, TRUE, TRUE)
    BY <2>1, <2>2 DEF siteInstalled
  <2>4. l \in {t, NoTab} /\ Well(x, v, l)
    OBVIOUS
  <2> HIDE DEF t, package, address, l
  <2>5. Well(w1, v, NoTab) /\ Same(x, w1)
    BY <2>2, <2>4, PrepareOK
  <2> HIDE DEF w1
  <2>6. contains(w1.m, t) /\ TabOf(w1.m, t).snap.kind = "app"
    BY <2>2, <2>5 DEF Same, SameIds
  <2>7. Well(y, v, NoTab) /\ Same(w1, y)
    BY <2>2, <2>3, <2>5, <2>6, LaunchRequestedOK
  <2> QED
    BY <2>5, <2>7, SameTwice
<1> QED
  BY <1>1, <1>2

-----------------------------------------------------------------------------
\* MainWindow.

\* The window shows the tab that the model says is active, or is about to.
Fronts(x, t, v) == activeId(x.m) = t <=> t = v

\* startResolved and showTrustedError show the tab if it is the active one.
LEMMA FrontSet ==
    ASSUME NEW x, NEW v, NEW l, Well(x, v, l), NEW t \in TabIds,
           contains(x.m, t), Fronts(x, t, v),
           NEW y, y = setActive(x, t, activeId(x.m) = t)
    PROVE  Well(y, v, l) /\ Same(x, y) /\ Kept(x.ctl[t], y.ctl[t])
<1> DEFINE shown == activeId(x.m) = t
<1>1. Turns(v, v, t, shown)
  BY DEF Turns, Fronts
<1>2. y = setActive(x, t, shown)
  OBVIOUS
<1> HIDE DEF shown
<1> QED
  BY <1>1, <1>2, SetActiveOK

\* startApp.
LEMMA StartAppOK ==
    ASSUME NEW x, NEW v, NEW l, Well(x, v, l), NEW t \in TabIds,
           l \in {t, NoTab}, contains(x.m, t), TabOf(x.m, t).snap.kind = "app",
           NEW address \in Addresses, KindOf[address] = "app", NEW reload,
           NEW y, y = startApp(x, t, address, reload)
    PROVE  Well(y, v, NoTab) /\ Same(x, y) /\ y.ctl[t].life # "Dormant"
<1> DEFINE x0 == [x EXCEPT !.rt[t].cur.route = RouteOf[address],
                           !.rt[t].ack = TRUE]
           bound == bindAppWorkerSurface(x0, t)
           reused == setLoadState(bound, t, TRUE)
           made == prepareAppLaunch(x, t, PackageOf[address], x.ctl[t].inc)
           http == Parsed[address].http
           keeps == reusesWorker(x, t, PackageOf[address])
<1>1. \/ keeps /\ y = showTrustedErrorForNavigation(x, t, x.ctl[t].inc)
      \/ keeps /\ y = handleAppLaunchRequested(reused, t, address, FALSE, FALSE)
      \/ y = handleAppLaunchRequested(made, t, address, reload /\ ~http, FALSE)
  BY DEF startApp
<1>2. keeps => ~PageCounts(x.ctl[t])
  <2>1. Agrees(TabOf(x.m, t), x.ctl[t])
    BY TabFacts
  <2>2. PackageOf[address] # NoPackage
    BY KindsOf
  <2> QED
    BY <2>1, <2>2 DEF reusesWorker, Agrees
<1> HIDE DEF keeps
<1>3. CASE keeps /\ y = showTrustedErrorForNavigation(x, t, x.ctl[t].inc)
  <2>1. y = enterTrustedError(x, t, FALSE)
    BY <1>3 DEF showTrustedErrorForNavigation
  <2> DEFINE advance == FALSE
  <2>2. /\ y = enterTrustedError(x, t, advance) /\ advance \in BOOLEAN
        /\ l = t => (PageCounts(x.ctl[t]) => TabOf(x.m, t).snap.kind = "web")
    BY <1>2, <1>3, <2>1
  <2> HIDE DEF advance
  <2>3. /\ Same(x, y) /\ Well(y, v, NoTab) /\ y.ctl[t].life = "TrustedError"
    BY <2>2, ErrorOK
  <2> QED
    BY <2>3
<1>4. CASE keeps /\ y = handleAppLaunchRequested(reused, t, address, FALSE, FALSE)
  <2>1. Beside(x, x0)
    <3>1. DOMAIN x = Fields
      BY DEF Well
    <3> QED
      BY <3>1 DEF Beside, Leaves, Fields, EmptyWindow
  <2> HIDE DEF x0
  <2>2. Well(x0, v, l) /\ Same(x, x0) /\ x0.m = x.m /\ x0.ctl = x.ctl
    BY <2>1, BesideOK DEF Beside
  <2>3. Well(bound, v, NoTab) /\ Same(x0, bound) /\ bound.ctl[t].life # "Dormant"
    BY <1>2, <1>4, <2>2, BindOK
  <2> HIDE DEF bound
  <2>4. Well(reused, v, NoTab) /\ Same(bound, reused)
        /\ reused.ctl = bound.ctl
    BY <2>3, LoadStateOK
  <2> HIDE DEF reused
  <2>5. Same(x, bound)
    BY <2>2, <2>3, SameTwice
  <2>6. Same(x, reused)
    BY <2>4, <2>5, SameTwice
  <2>7. contains(reused.m, t) /\ TabOf(reused.m, t).snap.kind = "app"
    BY <2>6 DEF Same, SameIds
  <2>8. Well(y, v, NoTab) /\ Same(reused, y)
    BY <1>4, <2>4, <2>7, LaunchRequestedOK
  <2>9. y.ctl[t].life # "Dormant"
    BY <2>3, <2>4, <2>8 DEF Same
  <2> QED
    BY <2>6, <2>8, <2>9, SameTwice
<1>5. CASE y = handleAppLaunchRequested(made, t, address, reload /\ ~http, FALSE)
  <2> DEFINE again == reload /\ ~http
             package == PackageOf[address]
  <2>1. y = handleAppLaunchRequested(made, t, address, again, FALSE)
    BY <1>5
  <2> HIDE DEF again, package
  <2>2. made = prepareAppLaunch(x, t, package, x.ctl[t].inc)
    BY DEF package
  <2> HIDE DEF made
  <2>3. /\ Well(made, v, NoTab) /\ Same(x, made)
        /\ made.ctl[t].life # "Dormant"
    BY <2>2, PrepareOK
  <2>4. contains(made.m, t) /\ TabOf(made.m, t).snap.kind = "app"
    BY <2>3 DEF Same, SameIds
  <2>5. Well(y, v, NoTab) /\ Same(made, y)
    BY <2>1, <2>3, <2>4, LaunchRequestedOK
  <2>6. y.ctl[t].life # "Dormant"
    BY <2>3, <2>5 DEF Same
  <2> QED
    BY <2>3, <2>5, <2>6, SameTwice
<1> QED
  BY <1>1, <1>3, <1>4, <1>5

\* The content a tab's address stands for is started; a page that failed stays
\* only with a web address.
LEMMA StartResolvedOK ==
    ASSUME NEW x, NEW v, NEW l, Well(x, v, l), NEW t \in TabIds,
           l \in {t, NoTab}, contains(x.m, t), Fronts(x, t, v),
           NEW address \in Addresses, KindOf[address] # "none",
           TabOf(x.m, t).snap.kind = KindOf[address],
           KindOf[address] = "web" /\ x.ctl[t].web # 0 /\ x.ctl[t].failed =>
             /\ Settled(TabOf(x.m, t), x.ctl[t])
             /\ x.ctl[t].life # "Dormant",
           NEW reload, NEW y, y = startResolved(x, t, address, reload)
    PROVE  Well(y, v, NoTab) /\ Same(x, y) /\ y.ctl[t].life # "Dormant"
<1> DEFINE x1 == setActive(x, t, activeId(x.m) = t)
<1>1. Well(x1, v, l) /\ Same(x, x1) /\ Kept(x.ctl[t], x1.ctl[t])
  BY FrontSet
<1>2. \/ KindOf[address] = "host" /\ y = startHost(x1, t)
      \/ KindOf[address] = "web" /\ y = startWeb(x1, t)
      \/ KindOf[address] = "app" /\ y = startApp(x1, t, address, reload)
  BY KindsOf DEF startResolved
<1> HIDE DEF x1
<1>3. /\ contains(x1.m, t) /\ TabOf(x1.m, t).snap = TabOf(x.m, t).snap
      /\ TabOf(x1.m, t).snap.kind = KindOf[address]
  BY <1>1 DEF Same, SameIds
<1>4. Well(y, v, NoTab) /\ Same(x1, y) /\ y.ctl[t].life # "Dormant"
  <2>1. CASE KindOf[address] = "host" /\ y = startHost(x1, t)
    BY <1>1, <1>3, <2>1, StartHostOK
  <2>2. CASE KindOf[address] = "web" /\ y = startWeb(x1, t)
    <3>1. x1.ctl[t].web # 0 /\ x1.ctl[t].failed =>
            /\ Settled(TabOf(x1.m, t), x1.ctl[t])
            /\ x1.ctl[t].life # "Dormant"
      BY <1>1, <1>3, <2>2 DEF Kept, Settled, Placed, PageCounts
    <3> QED
      BY <1>1, <1>3, <2>2, <3>1, StartWebOK
  <2>3. CASE KindOf[address] = "app" /\ y = startApp(x1, t, address, reload)
    BY <1>1, <1>3, <2>3, StartAppOK
  <2> QED
    BY <1>2, <2>1, <2>2, <2>3
<1> QED
  BY <1>1, <1>4, SameTwice

\* showTrustedError.
LEMMA ShowErrorOK ==
    ASSUME NEW x, NEW v, Well(x, v, NoTab), NEW t \in TabIds,
           contains(x.m, t), Fronts(x, t, v), NEW y, y = showTrustedError(x, t)
    PROVE  Well(y, v, NoTab) /\ Same(x, y) /\ y.ctl[t].life # "Dormant"
<1> DEFINE x1 == setActive(x, t, activeId(x.m) = t)
<1>1. Well(x1, v, NoTab) /\ Same(x, x1)
  BY FrontSet
<1>2. y = enterTrustedError(x1, t, TRUE)
  BY DEF showTrustedError
<1> HIDE DEF x1
<1>3. contains(x1.m, t)
  BY <1>1 DEF Same, SameIds
<1>4. Well(y, v, NoTab) /\ Same(x1, y) /\ y.ctl[t].life = "TrustedError"
  BY <1>1, <1>2, <1>3, ErrorWell
<1> QED
  BY <1>1, <1>4, SameTwice

\* startCurrentDescriptor.
LEMMA StartCurrentOK ==
    ASSUME NEW x, NEW v, Well(x, v, NoTab), NEW t \in TabIds,
           contains(x.m, t), Fronts(x, t, v), NEW reload,
           NEW y, y = startCurrentDescriptor(x, t, reload)
    PROVE  Well(y, v, NoTab) /\ Same(x, y) /\ y.ctl[t].life # "Dormant"
<1> DEFINE x1 == beginNavigation(x, t)
           snap == TabOf(x.m, t).snap
           address == snap.address
<1>1. Well(x1, v, NoTab) /\ Same(x, x1)
  BY BeginOK
<1>2. /\ contains(x1.m, t) /\ TabOf(x1.m, t).snap = snap
      /\ activeId(x1.m) = activeId(x.m) /\ Fronts(x1, t, v)
  BY <1>1 DEF Same, SameIds, Fronts
<1>3. y = IF snap.kind = "error"
            THEN showTrustedErrorForNavigation(x1, t, x1.ctl[t].inc)
            ELSE IF KindOf[address] = "none" THEN showTrustedError(x, t)
            ELSE startResolved(x1, t, address, reload)
  BY DEF startCurrentDescriptor, snapshotOf, TabOf
<1>4. address \in Addresses /\ (snap.kind = "error" \/ KindOf[address] \in {snap.kind, "none"})
  <2>1. TabOf(x.m, t) \in Tabs
    BY TabFacts
  <2> QED
    BY <2>1 DEF Tabs, Snaps, Snapshots
<1> HIDE DEF x1, snap
<1>5. CASE snap.kind = "error"
  <2>1. y = enterTrustedError(x1, t, FALSE)
    BY <1>3, <1>5 DEF showTrustedErrorForNavigation
  <2>2. Well(y, v, NoTab) /\ Same(x1, y) /\ y.ctl[t].life = "TrustedError"
    BY <1>1, <1>2, <2>1, ErrorWell
  <2> QED
    BY <1>1, <2>2, SameTwice
<1>6. CASE snap.kind # "error" /\ KindOf[address] = "none"
  BY <1>3, <1>6, ShowErrorOK
<1>7. CASE snap.kind # "error" /\ KindOf[address] # "none"
  <2> DEFINE l == NoTab
  <2>1. y = startResolved(x1, t, address, reload)
    BY <1>3, <1>7
  <2>2. TabOf(x1.m, t).snap.kind = KindOf[address]
    BY <1>2, <1>4, <1>7
  <2>3. x1.ctl[t].web # 0 /\ x1.ctl[t].failed =>
          /\ Settled(TabOf(x1.m, t), x1.ctl[t])
          /\ x1.ctl[t].life # "Dormant"
    BY <1>1, <1>2, TabFacts, TabsAssumption, FS_CardinalityType
    DEF NoTab, Settled
  <2>4. l \in {t, NoTab} /\ Well(x1, v, l)
    BY <1>1
  <2> HIDE DEF l, address
  <2>5. Well(y, v, NoTab) /\ Same(x1, y) /\ y.ctl[t].life # "Dormant"
    BY <1>2, <1>4, <1>7, <2>1, <2>2, <2>3, <2>4, StartResolvedOK
  <2> QED
    BY <1>1, <2>5, SameTwice
<1> QED
  BY <1>5, <1>6, <1>7

\* A navigation that is committed, and what was there ends if it was a package.
LEMMA CommitOK ==
    ASSUME NEW x, NEW v, Well(x, v, NoTab), NEW t \in TabIds,
           contains(x.m, t), Fronts(x, t, v),
           NEW address \in Addresses, KindOf[address] # "none",
           NEW n, Moved(TabOf(x.m, t), n, address),
           NEW moved, moved = [x EXCEPT !.m.tabs[indexOfId(x.m, t)] = n],
           NEW before, NEW launch,
           NEW y, y = commitNavigation(moved, t, before, address, launch)
    PROVE  Well(y, v, NoTab) /\ Alike(x, y)
<1> DEFINE z == Committed(x, t, n)
           x1 == startResolved(z, t, address, FALSE)
           x2 == cancelLaunchIfCurrent(x1, t, launch.l)
           l == t
<1>1. beginNavigation(moved, t) = z
  BY DEF Committed
<1>2. y \in {x1, handleAppStopRequested(x2, t, launch.r)}
  BY <1>1 DEF commitNavigation
<1>12. z = Committed(x, t, n)
  OBVIOUS
<1> HIDE DEF z
<1>13. Well(z, v, t) /\ Commits(x, z, t, n)
  BY <1>12, CommittedOK
<1>3. /\ Well(z, v, t) /\ contains(z.m, t) /\ TabOf(z.m, t) = n
      /\ SameIds(x.m, z.m) /\ z.visible = x.visible
      /\ x.m.active \in DOMAIN x.m.tabs => z.m.active \in DOMAIN z.m.tabs
      /\ \A u \in TabIds : u # t => z.ctl[u] = x.ctl[u]
      /\ PageCounts(z.ctl[t]) => TabOf(x.m, t).snap.kind = "web"
      /\ n.snap.kind = TabOf(x.m, t).snap.kind =>
           Settled(n, z.ctl[t]) /\ z.ctl[t].life = x.ctl[t].life
  BY <1>13 DEF Commits
<1>4. n.snap.kind = KindOf[address]
  BY DEF Moved
<1>5. ASSUME KindOf[address] = "web", z.ctl[t].web # 0, z.ctl[t].failed
      PROVE  Settled(TabOf(z.m, t), z.ctl[t]) /\ z.ctl[t].life # "Dormant"
  <2>1. PageCounts(z.ctl[t])
    BY <1>5 DEF PageCounts
  <2>2. Settled(n, z.ctl[t])
    BY <1>3, <1>4, <1>5, <2>1
  <2> QED
    BY <1>3, <1>5, <2>2 DEF Settled
<1>6. Fronts(z, t, v) /\ l \in {t, NoTab} /\ Well(z, v, l)
  BY <1>3 DEF Fronts, SameIds
<1> HIDE DEF l
<1>7. Well(x1, v, NoTab) /\ Same(z, x1) /\ x1.ctl[t].life # "Dormant"
  BY <1>3, <1>4, <1>5, <1>6, StartResolvedOK
<1> HIDE DEF x1
<1>8. Alike(x, x1)
  <2>1. \A u \in TabIds :
          x.ctl[u].life # "Dormant" => x1.ctl[u].life # "Dormant"
    BY <1>3, <1>7 DEF Same
  <2> QED
    BY <1>3, <1>7, <2>1 DEF Same, Alike, SameIds
<1>9. Well(x2, v, NoTab) /\ Same(x1, x2)
  BY <1>7, CancelOK
<1> HIDE DEF x2
<1>10. CASE y = x1
  BY <1>7, <1>8, <1>10
<1>11. CASE y = handleAppStopRequested(x2, t, launch.r)
  <2>1. Well(y, v, NoTab) /\ Same(x2, y)
    BY <1>9, <1>11, StopRequestedOK
  <2>2. Alike(x, x2)
    BY <1>8, <1>9, SameIsAlike
  <2> QED
    BY <2>1, <2>2, SameIsAlike
<1> QED
  BY <1>2, <1>10, <1>11



\* navigateTab.
LEMMA NavigateOK ==
    ASSUME NEW x, NEW v, Well(x, v, NoTab), NEW t \in TabIds,
           contains(x.m, t), Fronts(x, t, v), NEW address \in Addresses,
           NEW y, y = navigateTab(x, t, address)
    PROVE  Well(y, v, NoTab) /\ Alike(x, y)
<1> DEFINE i == indexOfId(x.m, t)
           b == x.m.tabs[i]
           n == navigated(b, address)
           moved == [x EXCEPT !.m.tabs[i] = n]
<1>1. CASE KindOf[address] = "none"
  <2>1. Well(y, v, NoTab) /\ Same(x, y)
    BY <1>1, ShowErrorOK DEF navigateTab
  <2> QED
    BY <2>1, AlikeItself, SameIsAlike
<1>2. CASE KindOf[address] # "none"
  <2>1. b \in Tabs /\ b = TabOf(x.m, t)
    BY TabFacts DEF TabOf
  <2>2. y = commitNavigation(moved, t, b.snap.kind, address, x.rt[t].cur)
    BY <1>2 DEF navigateTab
  <2>3. Moved(b, n, address)
    BY <1>2, <2>1, Navigated
  <2> HIDE DEF n, b
  <2>4. moved = [x EXCEPT !.m.tabs[indexOfId(x.m, t)] = n]
    OBVIOUS
  <2> HIDE DEF i, moved
  <2> QED
    BY <1>2, <2>1, <2>2, <2>3, <2>4, CommitOK
<1> QED
  BY <1>1, <1>2

\* traverseHistory.
LEMMA TraverseOK ==
    ASSUME NEW x, NEW v, Well(x, v, NoTab), NEW t \in TabIds,
           contains(x.m, t), Fronts(x, t, v),
           NEW target \in DOMAIN TabOf(x.m, t).snap.history,
           NEW y, y = traverseHistory(x, t, target)
    PROVE  Well(y, v, NoTab) /\ Alike(x, y)
<1> DEFINE i == indexOfId(x.m, t)
           b == x.m.tabs[i]
           n == traversed(b, target)
           moved == [x EXCEPT !.m.tabs[i] = n]
           address == b.snap.history[target]
<1>1. CASE KindOf[address] = "none"
  <2>1. Well(y, v, NoTab) /\ Same(x, y)
    BY <1>1, ShowErrorOK DEF traverseHistory
  <2> QED
    BY <2>1, AlikeItself, SameIsAlike
<1>2. CASE KindOf[address] # "none"
  <2>1. b \in Tabs /\ b = TabOf(x.m, t)
    BY TabFacts DEF TabOf
  <2>2. y = commitNavigation(moved, t, b.snap.kind, address, x.rt[t].cur)
    BY <1>2 DEF traverseHistory
  <2>3. Moved(b, n, address)
    BY <1>2, <2>1, Traversed
  <2>4. address \in Addresses
    <3>1. b.snap.history \in Seq(Addresses)
      BY <2>1 DEF Tabs, Snaps, Snapshots
    <3> QED
      BY <2>1, <3>1, LenProperties, ElementOfSeq
  <2> HIDE DEF n, b
  <2>5. moved = [x EXCEPT !.m.tabs[indexOfId(x.m, t)] = n]
    OBVIOUS
  <2> HIDE DEF i, moved, address
  <2> QED
    BY <1>2, <2>1, <2>2, <2>3, <2>4, <2>5, CommitOK
<1> QED
  BY <1>1, <1>2

\* A route the tab's own Worker goes to.
LEMMA WorkerNavigatesOK ==
    ASSUME NEW x, NEW v, Well(x, v, NoTab), NEW t \in TabIds,
           contains(x.m, t), x.ctl[t].kind = "worker",
           NEW address \in Addresses, KindOf[address] = "app",
           NEW y, y = navigateFromWorker(x, t, address)
    PROVE  Well(y, v, NoTab) /\ Alike(x, y)
<1> DEFINE i == indexOfId(x.m, t)
           b == x.m.tabs[i]
           n == navigated(b, address)
           x0 == [x EXCEPT !.rt[t].cur.route = RouteOf[address],
                           !.rt[t].ack = TRUE]
           x1 == [x EXCEPT !.m.tabs[i] = navigated(@, address),
                           !.rt[t].cur.route = RouteOf[address],
                           !.rt[t].ack = TRUE]
           z == Committed(x0, t, n)
<1>1. /\ b = TabOf(x.m, t) /\ b \in Tabs /\ Settled(b, x.ctl[t])
      /\ DOMAIN x = Fields
  BY TabFacts, TabsAssumption, FS_CardinalityType DEF NoTab, TabOf
<1>2. b.snap.kind = "app"
  BY <1>1 DEF Settled, Placed
<1>3. Moved(b, n, address)
  BY <1>1, Navigated
<1>4. Beside(x, x0)
  <2> DEFINE r == [x.rt EXCEPT ![t].cur.route = RouteOf[address],
                               ![t].ack = TRUE]
  <2>1. x0 = [x EXCEPT !.rt = r]
    OBVIOUS
  <2> HIDE DEF r, x0
  <2> QED
    BY <1>1, <2>1 DEF Beside, Leaves, Fields, EmptyWindow
<1>5. y = handleAppLaunchRequested(beginNavigation(x1, t), t, address, FALSE,
                                   FALSE)
  BY DEF navigateFromWorker
<1>6. x1 = [x0 EXCEPT !.m.tabs[indexOfId(x0.m, t)] = n]
  <2> DEFINE r == [x.rt EXCEPT ![t].cur.route = RouteOf[address],
                               ![t].ack = TRUE]
             q == [x.m EXCEPT !.tabs[i] = n]
  <2>1. x1 = [x EXCEPT !.m = q, !.rt = r] /\ x0 = [x EXCEPT !.rt = r]
    OBVIOUS
  <2>2. x0.m = x.m
    BY <1>4 DEF Beside
  <2>3. [x0 EXCEPT !.m.tabs[indexOfId(x0.m, t)] = n] = [x0 EXCEPT !.m = q]
    BY <2>2
  <2> HIDE DEF r, q, x0, x1, n
  <2>4. [x EXCEPT !.m = q, !.rt = r] = [[x EXCEPT !.rt = r] EXCEPT !.m = q]
    BY <1>1 DEF Fields, EmptyWindow
  <2> QED
    BY <2>1, <2>3, <2>4
<1>7. beginNavigation(x1, t) = z
  BY <1>6 DEF Committed
<1> HIDE DEF x0, x1, n, b
<1>8. Well(x0, v, NoTab) /\ Same(x, x0) /\ x0.m = x.m /\ x0.ctl = x.ctl
  BY <1>4, BesideOK DEF Beside
<1>14. z = Committed(x0, t, n)
  OBVIOUS
<1> HIDE DEF z
<1>15. contains(x0.m, t) /\ Moved(TabOf(x0.m, t), n, address)
  BY <1>1, <1>3, <1>8
<1>16. Well(z, v, t) /\ Commits(x0, z, t, n)
  BY <1>8, <1>14, <1>15, CommittedOK
<1>9. /\ Well(z, v, t) /\ contains(z.m, t) /\ TabOf(z.m, t) = n
      /\ SameIds(x0.m, z.m) /\ z.visible = x0.visible
      /\ x0.m.active \in DOMAIN x0.m.tabs => z.m.active \in DOMAIN z.m.tabs
      /\ \A u \in TabIds : u # t => z.ctl[u] = x0.ctl[u]
      /\ n.snap.kind = TabOf(x0.m, t).snap.kind =>
           Settled(n, z.ctl[t]) /\ z.ctl[t].life = x0.ctl[t].life
  BY <1>16 DEF Commits
<1>10. /\ n.snap.kind = "app" /\ Settled(n, z.ctl[t])
       /\ z.ctl[t].life = x.ctl[t].life
  BY <1>1, <1>2, <1>3, <1>8, <1>9 DEF Moved
<1>11. Well(z, v, NoTab)
  <2> DEFINE l == t
  <2>1. l \in {t, NoTab} /\ Well(z, v, l)
    BY <1>9
  <2> HIDE DEF l
  <2> QED
    BY <1>9, <1>10, <2>1, Resettled
<1>12. Alike(x, z)
  BY <1>8, <1>9, <1>10 DEF Alike, Same, SameIds
<1>13. Well(y, v, NoTab) /\ Same(z, y)
  BY <1>5, <1>7, <1>9, <1>10, <1>11, LaunchRequestedOK
<1> QED
  BY <1>12, <1>13, SameIsAlike

\* A launch that is given up, a page that is stopped.
LEMMA CancelLaunchOK ==
    ASSUME NEW x, NEW v, Well(x, v, NoTab), NEW t \in TabIds,
           contains(x.m, t), NEW y, y = cancelAppLaunch(x, t)
    PROVE  Well(y, v, NoTab) /\ Same(x, y)
<1> DEFINE x1 == stop(x, t)
           b == x1.ctl[t]
           c == [b EXCEPT !.inc = @ + 1, !.current = "none", !.kind = "error"]
           w1 == SetCtl(x1, t, c)
           w2 == setLoadState(w1, t, FALSE)
<1>1. y = Settle(w2, t)
  BY DEF cancelAppLaunch
<1>2. Well(x1, v, NoTab) /\ Same(x, x1)
  BY StopOK
<1> HIDE DEF x1
<1>3. contains(x1.m, t)
  BY <1>2 DEF Same, SameIds
<1>4. /\ IsCtl(b) /\ Agrees(TabOf(x1.m, t), b) /\ (b.active <=> t = v)
      /\ Settled(TabOf(x1.m, t), b)
  BY <1>2, <1>3, TabFacts, TabsAssumption, FS_CardinalityType DEF NoTab
<1> HIDE DEF b
<1>5. /\ IsCtl(c) /\ c.inc = b.inc + 1 /\ c.web = b.web /\ c.webInc = b.webInc
      /\ c.failed = b.failed /\ c.pkg = b.pkg /\ c.life = b.life
      /\ c.active = b.active /\ c.kind = "error"
  BY <1>4 DEF IsCtl, NoController
<1> HIDE DEF c, w1, w2
<1>6. (PageCounts(c) => PageCounts(b)) /\ b.inc <= c.inc
  BY <1>4, <1>5 DEF PageCounts, IsCtl
<1>7. Fits(x1, x1, t, v, NoTab, c)
  BY <1>4, <1>5, <1>6 DEF Fits, Agrees, Settled, Placed, b
<1>8. Well(w1, v, NoTab) /\ Same(x1, w1)
  BY <1>2, <1>3, <1>7, SetCtlOK DEF w1
<1>9. Well(w2, v, NoTab) /\ Same(w1, w2)
  BY <1>8, LoadStateOK DEF w2
<1>10. Same(x, w1)
  BY <1>2, <1>8, SameTwice
<1>11. Same(x, w2) /\ contains(w2.m, t)
  <2>1. Same(x, w2)
    BY <1>9, <1>10, SameTwice
  <2> QED
    BY <2>1 DEF Same, SameIds
<1>12. Well(y, v, NoTab) /\ Same(w2, y)
  BY <1>1, <1>9, <1>11, GoesOn
<1> QED
  BY <1>11, <1>12, SameTwice

\* The Stop command.
LEMMA StopCommandOK ==
    ASSUME NEW x, NEW v, Well(x, v, NoTab), NEW t \in TabIds,
           contains(x.m, t), NEW y, y = stopCommand(x, t)
    PROVE  Well(y, v, NoTab) /\ Same(x, y)
<1> DEFINE w1 == cancelAppLaunch(x, t)
           s == stopLoad(x.ctl[t].ws)
<1>1. y \in {x, [x EXCEPT !.ctl[t].ws = s],
             handleAppStopRequested(w1, t, x.rt[t].r)}
  BY DEF stopCommand, stopPage
<1> HIDE DEF s
<1>2. CASE y = x
  BY <1>2, SameItself
<1>3. CASE y = [x EXCEPT !.ctl[t].ws = s]
  BY <1>3, SurfaceSet
<1>4. CASE y = handleAppStopRequested(w1, t, x.rt[t].r)
  <2>1. Well(w1, v, NoTab) /\ Same(x, w1)
    BY CancelLaunchOK
  <2> HIDE DEF w1
  <2>2. Well(y, v, NoTab) /\ Same(w1, y)
    BY <1>4, <2>1, StopRequestedOK
  <2> QED
    BY <2>1, <2>2, SameTwice
<1> QED
  BY <1>1, <1>2, <1>3, <1>4

-----------------------------------------------------------------------------
\* The tab that is shown.

\* The tab that is shown is another one.
LEMMA VisibleSet ==
    ASSUME NEW x, NEW v, NEW l, Well(x, v, l), NEW t,
           NEW y, y = [x EXCEPT !.visible = t]
    PROVE  /\ Well(y, v, l) /\ y.m = x.m /\ y.ctl = x.ctl /\ y.visible = t
<1>1. DOMAIN x = Fields
  BY DEF Well
<1>2. /\ DOMAIN y = Fields /\ y.m = x.m /\ y.ctl = x.ctl /\ y.visible = t
      /\ y.jobs = x.jobs /\ y.events = x.events /\ y.sites = x.sites
  BY <1>1 DEF Fields, EmptyWindow
<1>3. \A s : SiteOK(x, s) => SiteOK(y, s)
  BY <1>2 DEF SiteOK, inMap
<1>4. \A j : JobOK(x, j) => JobOK(y, j)
  BY <1>3 DEF JobOK
<1>5. \A e : EventOK(x, e) => EventOK(y, e)
  BY <1>3 DEF EventOK
<1>6. Queued(y)
  BY <1>2, <1>3, <1>4, <1>5 DEF Well, Queued
<1>7. \A u \in TabIds : TabOK(y, u, v, l)
  BY <1>2 DEF Well, TabOK, inMap
<1> QED
  BY <1>2, <1>6, <1>7 DEF Well

\* No tab is shown as active by one that is not there.
LEMMA NobodyShown ==
    ASSUME NEW x, NEW v, NEW l, Well(x, v, l), v = NoTab \/ ~inMap(x, v)
    PROVE  Well(x, NoTab, l)
<1>1. NoTab \notin TabIds
  BY TabsAssumption, FS_CardinalityType DEF NoTab
<1>2. ASSUME NEW t \in TabIds PROVE TabOK(x, t, NoTab, l)
  BY <1>1 DEF Well, TabOK
<1> QED
  BY <1>2 DEF Well

\* activateStableTab: the tab before it is hidden, and its content starts if
\* it never was.
LEMMA Activated ==
    ASSUME NEW x, Well(x, x.visible, NoTab), x.m.active \in DOMAIN x.m.tabs,
           x.visible \in TabIds \cup {NoTab},
           NEW t, t = activeId(x.m), NEW y, y = activateStableTab(x, t)
    PROVE  Stable(y) /\ sessionSnapshot(y.m) = sessionSnapshot(x.m)
<1> DEFINE v0 == x.visible
           x1 == IF v0 # t /\ v0 # NoTab /\ inMap(x, v0)
                   THEN setActive(x, v0, FALSE) ELSE x
           x0 == [x1 EXCEPT !.visible = t]
           x2 == setActive(x0, t, TRUE)
<1>1. IsStrip(x.m)
  BY DEF Well
<1>2. t \in TabIds /\ contains(x.m, t) /\ t # NoTab /\ NoTab \notin TabIds
  BY <1>1, ActiveIsThere, TabsAssumption, FS_CardinalityType DEF NoTab
<1>3. inMap(x, t)
  BY <1>2, Mapped
<1>4. y = IF x2.ctl[t].life = "Dormant"
            THEN startCurrentDescriptor(x2, t, FALSE) ELSE x2
  BY <1>2, <1>3 DEF activateStableTab
<1>5. \E v \in {t, NoTab} : Well(x1, v, NoTab) /\ Same(x, x1)
  <2>1. CASE v0 = t
    BY <2>1, SameItself
  <2>2. CASE v0 # t /\ (v0 = NoTab \/ ~inMap(x, v0))
    BY <2>2, NobodyShown, SameItself
  <2>3. CASE v0 # t /\ v0 # NoTab /\ inMap(x, v0)
    <3>1. x1 = setActive(x, v0, FALSE) /\ v0 \in TabIds /\ contains(x.m, v0)
      BY <2>3, Mapped
    <3>2. Turns(v0, NoTab, v0, FALSE)
      BY <1>2, <3>1 DEF Turns
    <3>3. Well(x, v0, NoTab)
      OBVIOUS
    <3> HIDE DEF v0, x1
    <3>4. Well(x1, NoTab, NoTab)
      BY <3>1, <3>2, <3>3, SetActiveOK
    <3> QED
      BY <3>1, <3>2, <3>3, <3>4, SetActiveOK
  <2> QED
    BY <2>1, <2>2, <2>3
<1>6. PICK v \in {t, NoTab} : Well(x1, v, NoTab) /\ Same(x, x1)
  BY <1>5
<1> HIDE DEF x1, v0
<1>7. /\ Well(x0, v, NoTab) /\ x0.m = x1.m /\ x0.ctl = x1.ctl
      /\ x0.visible = t
  BY <1>6, VisibleSet
<1>8. /\ contains(x0.m, t) /\ activeId(x0.m) = t
      /\ x0.m.active \in DOMAIN x0.m.tabs
      /\ sessionSnapshot(x0.m) = sessionSnapshot(x.m)
  BY <1>2, <1>6, <1>7 DEF Same, SameIds
<1>9. Turns(v, t, t, TRUE)
  BY <1>2 DEF Turns
<1>10. x2 = setActive(x0, t, TRUE)
  OBVIOUS
<1> HIDE DEF x0, x2
<1>11. Well(x2, t, NoTab) /\ Same(x0, x2)
  <2>1. Well(x2, t, NoTab)
    BY <1>2, <1>7, <1>8, <1>9, <1>10, SetActiveOK
  <2> QED
    BY <1>2, <1>7, <1>8, <1>9, <1>10, <2>1, SetActiveOK
<1>12. contains(x2.m, t) /\ Fronts(x2, t, t)
  BY <1>8, <1>11 DEF Same, SameIds, Fronts
<1>13. Well(y, t, NoTab) /\ Same(x2, y) /\ y.ctl[t].life # "Dormant"
  <2>1. CASE x2.ctl[t].life = "Dormant"
    <3>1. y = startCurrentDescriptor(x2, t, FALSE)
      BY <1>4, <2>1
    <3> QED
      BY <1>2, <1>11, <1>12, <3>1, StartCurrentOK
  <2>2. CASE x2.ctl[t].life # "Dormant"
    BY <1>4, <1>11, <2>2, SameItself
  <2> QED
    BY <2>1, <2>2
<1>14. Same(x0, y)
  BY <1>11, <1>13, SameTwice
<1>15. /\ y.visible = t /\ activeId(y.m) = t /\ y.m.active \in DOMAIN y.m.tabs
       /\ sessionSnapshot(y.m) = sessionSnapshot(x.m)
  BY <1>7, <1>8, <1>14 DEF Same, SameIds
<1> QED
  BY <1>13, <1>15 DEF Stable

\* activateStableTab for a tab that is not the active one, or is gone.
LEMMA NotActivated ==
    ASSUME NEW x, NEW t, t # activeId(x.m)
    PROVE  activateStableTab(x, t) = x
BY DEF activateStableTab

\* What a window that is stable has.
LEMMA StableFacts ==
    ASSUME NEW x, Stable(x)
    PROVE  /\ Well(x, x.visible, NoTab) /\ x.visible \in TabIds
           /\ x.visible = activeId(x.m) /\ contains(x.m, x.visible)
           /\ x.m.active \in DOMAIN x.m.tabs /\ IsStrip(x.m)
           /\ x.ctl[x.visible].life # "Dormant"
           /\ \A t : Fronts(x, t, x.visible)
<1>1. IsStrip(x.m)
  BY DEF Stable, Well
<1> QED
  BY <1>1, ActiveIsThere DEF Stable, Fronts

\* A stable window stays stable when the strip is alike, ...
LEMMA StableAlike ==
    ASSUME NEW x, Stable(x), NEW v, v = x.visible,
           NEW y, Well(y, v, NoTab), Alike(x, y)
    PROVE  Stable(y)
BY StableFacts DEF Stable, Alike, SameIds

\* ... and when it is the same.
LEMMA StableSame ==
    ASSUME NEW x, Stable(x), NEW v, v = x.visible,
           NEW y, Well(y, v, NoTab), Same(x, y)
    PROVE  Stable(y)
BY AlikeItself, SameIsAlike, StableAlike

-----------------------------------------------------------------------------
\* The strip changes.

\* The same tabs in another order, or another one active.
Rearranges(m, n) ==
    /\ IsStrip(n) /\ n.nextId = m.nextId
    /\ \A u : contains(n, u) <=> contains(m, u)
    /\ \A u : contains(m, u) => TabOf(n, u) = TabOf(m, u)

\* The strip is rearranged.
LEMMA StripSet ==
    ASSUME NEW x, NEW v, NEW l, Well(x, v, l), NEW n, Rearranges(x.m, n),
           NEW y, y = [x EXCEPT !.m = n]
    PROVE  /\ Well(y, v, l) /\ y.m = n /\ y.ctl = x.ctl
           /\ y.visible = x.visible
<1>1. DOMAIN x = Fields /\ IsStrip(x.m)
  BY DEF Well
<1>2. /\ DOMAIN y = Fields /\ y.m = n /\ y.ctl = x.ctl /\ Leaves(x, y)
  BY <1>1 DEF Fields, EmptyWindow, Leaves
<1>3. Onward(x, y)
  <2>1. x.m.nextId \in Nat /\ y.m.nextId = x.m.nextId
    BY <1>1, <1>2 DEF IsStrip, Rearranges
  <2>2. ASSUME NEW t \in TabIds, inMap(y, t)
        PROVE  /\ inMap(x, t) /\ x.ctl[t].inc \in Nat /\ y.ctl[t] = x.ctl[t]
               /\ TabOf(y.m, t) = TabOf(x.m, t)
    <3>1. inMap(x, t) /\ y.ctl[t] = x.ctl[t]
      BY <1>2, <2>2 DEF inMap
    <3>2. contains(x.m, t) /\ IsCtl(x.ctl[t])
      BY <3>1, TabFacts
    <3> QED
      BY <1>2, <3>1, <3>2 DEF IsCtl, Rearranges
  <2> QED
    BY <2>1, <2>2 DEF Onward
<1>4. Queued(y)
  BY <1>2, <1>3, QueuedMovesOn DEF Leaves, Well
<1>5. ASSUME NEW t \in TabIds PROVE TabOK(y, t, v, l)
  BY <1>2 DEF Well, TabOK, inMap, Rearranges
<1> QED
  BY <1>1, <1>2, <1>4, <1>5 DEF Well, Rearranges, Leaves

\* The signals of the strip reach the window through the queue.
LEMMA Announced ==
    ASSUME NEW x, NEW v, Well(x, v, NoTab), x.m.active \in DOMAIN x.m.tabs,
           NEW y, y \in {x, Post(x, [e |-> "activate", t |-> activeId(x.m)])}
    PROVE  Well(y, v, NoTab) /\ Same(x, y) /\ y.m = x.m
<1> DEFINE e == [e |-> "activate", t |-> activeId(x.m)]
<1>1. activeId(x.m) \in TabIds
  BY ActiveIsThere DEF Well
<1>2. EventOK(x, e)
  BY <1>1 DEF EventOK
<1> HIDE DEF e
<1>3. CASE y = x
  BY <1>3, SameItself
<1>4. CASE y = Post(x, e)
  BY <1>2, <1>4, PostOK
<1> QED
  BY <1>3, <1>4 DEF e

\* Once announced, the tab that is active now is shown.
LEMMA AnnouncedAndShown ==
    ASSUME NEW x, NEW v, Well(x, v, NoTab), v = x.visible,
           x.m.active \in DOMAIN x.m.tabs, v \in TabIds \cup {NoTab},
           NEW a, a \in {x, Post(x, [e |-> "activate", t |-> activeId(x.m)])},
           NEW y, y = activateStableTab(a, activeId(x.m))
    PROVE  Stable(y) /\ sessionSnapshot(y.m) = sessionSnapshot(x.m)
<1>1. Well(a, v, NoTab) /\ Same(x, a) /\ a.m = x.m
  BY Announced
<1>2. /\ Well(a, a.visible, NoTab) /\ a.m.active \in DOMAIN a.m.tabs
      /\ a.visible \in TabIds \cup {NoTab}
      /\ y = activateStableTab(a, activeId(a.m))
  BY <1>1 DEF Same
<1> QED
  BY <1>1, <1>2, Activated

\* An announcement is an event or nothing.
LEMMA AnnounceIs ==
    ASSUME NEW x, NEW before
    PROVE  announce(x, before) \in
             {x, Post(x, [e |-> "activate", t |-> activeId(x.m)])}
BY DEF announce

\* Another tab is selected.
LEMMA SelectOK ==
    ASSUME NEW x, Stable(x), NEW i \in DOMAIN x.m.tabs,
           NEW y, y = selectTab(x, i)
    PROVE  Stable(y)
<1> DEFINE n == activateTab(x.m, i)
           x1 == [x EXCEPT !.m = n]
           a == announce(x1, x.m)
           v == x.visible
<1>1. /\ Well(x, v, NoTab) /\ v \in TabIds /\ IsStrip(x.m)
  BY StableFacts
<1>2. Rearranges(x.m, n) /\ n.active \in DOMAIN n.tabs
  BY <1>1, TabSelected DEF Rearranges
<1>3. y = activateStableTab(a, activeId(x1.m))
  BY DEF selectTab
<1> HIDE DEF n
<1>4. /\ Well(x1, v, NoTab) /\ x1.m = n /\ x1.visible = v
  BY <1>1, <1>2, StripSet
<1> HIDE DEF x1, v
<1>5. a \in {x1, Post(x1, [e |-> "activate", t |-> activeId(x1.m)])}
  BY AnnounceIs
<1> HIDE DEF a
<1> QED
  BY <1>1, <1>2, <1>3, <1>4, <1>5, AnnouncedAndShown

\* A tab is moved.
LEMMA MoveOK ==
    ASSUME NEW x, Stable(x), NEW from \in DOMAIN x.m.tabs,
           NEW to \in DOMAIN x.m.tabs, NEW y, y = moveStableTab(x, from, to)
    PROVE  Stable(y)
<1> DEFINE n == moveTab(x.m, from, to)
           x1 == [x EXCEPT !.m = n]
           a == IF x1.m.active = x.m.active THEN x1
                  ELSE Post(x1, [e |-> "activate", t |-> activeId(x1.m)])
           v == x.visible
<1>1. /\ Well(x, v, NoTab) /\ v \in TabIds /\ IsStrip(x.m)
      /\ x.m.active \in DOMAIN x.m.tabs
  BY StableFacts
<1>2. Rearranges(x.m, n) /\ n.active \in DOMAIN n.tabs
  BY <1>1, TabMoved DEF Rearranges, SameIds
<1>3. y = activateStableTab(a, activeId(x1.m))
  BY DEF moveStableTab
<1> HIDE DEF n
<1>4. /\ Well(x1, v, NoTab) /\ x1.m = n /\ x1.visible = v
  BY <1>1, <1>2, StripSet
<1> HIDE DEF x1, v
<1>5. a \in {x1, Post(x1, [e |-> "activate", t |-> activeId(x1.m)])}
  OBVIOUS
<1> HIDE DEF a
<1> QED
  BY <1>1, <1>2, <1>3, <1>4, <1>5, AnnouncedAndShown

\* What a new controller is.
LEMMA NewControllerIs ==
    /\ IsCtl(NewController) /\ NewController # NoController
    /\ NewController.life = "Dormant" /\ ~NewController.active
    /\ NewController.web = 0 /\ NewController.kind = "error"
<1>1. DOMAIN NewController = DOMAIN NoController
  BY DEF NewController
<1>2. /\ NewController.inc = 0 /\ NewController.webInc = 0
      /\ NewController.web = 0
  BY DEF NewController, NoController
<1>3. /\ NewController.life = "Dormant" /\ NewController.kind = "error"
      /\ NoController.life = "none"
  BY DEF NewController, NoController
<1>4. NewController.active = FALSE
  BY DEF NewController, NoController
<1>5. IsCtl(NewController)
  BY <1>1, <1>2 DEF IsCtl
<1>6. NewController # NoController
  BY <1>3
<1> QED
  BY <1>2, <1>3, <1>4, <1>5, <1>6

\* A tab and its controller are made.
LEMMA TabAdded ==
    ASSUME NEW x, NEW v, Well(x, v, NoTab), NEW m, Rearranges(x.m, m),
           ~full(m), m.nextId \in TabIds, v # m.nextId, NEW snap \in Snaps,
           NEW n, n = insert(m, snap),
           NEW y, y = createController([x EXCEPT !.m = n], activeId(n))
    PROVE  /\ Well(y, v, NoTab) /\ y.m = n /\ y.visible = x.visible
           /\ n.active \in DOMAIN n.tabs /\ Len(n.tabs) # Len(m.tabs)
<1> DEFINE k == m.nextId
           b == dormantState(k, snap)
           x1 == [x EXCEPT !.m = n]
           c == NewController
<1>1. /\ IsStrip(n) /\ n.nextId = k + 1 /\ n.active \in DOMAIN n.tabs
      /\ activeId(n) = k /\ Len(n.tabs) # Len(m.tabs)
      /\ \A u : contains(n, u) <=> contains(m, u) \/ u = k
      /\ TabOf(n, k) = b
      /\ \A u : contains(m, u) => TabOf(n, u) = TabOf(m, u)
  BY TabInserted DEF Rearranges
<1>2. /\ DOMAIN x = Fields /\ DOMAIN x.ctl = TabIds /\ IsStrip(x.m)
      /\ x.m.nextId = k /\ k \in Nat
  BY DEF Well, Rearranges, IsStrip
<1>3. y = SetCtl(x1, k, c)
  BY <1>1 DEF createController
<1>5. /\ IsCtl(c) /\ c # NoController /\ c.life = "Dormant" /\ ~c.active
      /\ c.web = 0 /\ c.kind = "error"
  BY NewControllerIs
<1>6. b.life = "Dormant"
  BY DEF dormantState
<1> HIDE DEF b, c
<1>4. /\ Leaves(x, y) /\ DOMAIN y = Fields /\ y.m = n /\ Gets(x, y, k, c)
      /\ DOMAIN y.ctl = TabIds
  <2>1. /\ DOMAIN x1 = Fields /\ Leaves(x, x1) /\ x1.m = n /\ x1.ctl = x.ctl
    BY <1>2 DEF Leaves, Fields, EmptyWindow
  <2> HIDE DEF x1
  <2> QED
    BY <1>2, <1>3, <2>1 DEF SetCtl, Leaves, Gets, Fields, EmptyWindow
<1> HIDE DEF x1
<1>7. TabOK(y, k, v, NoTab)
  <2>1. Agrees(TabOf(y.m, k), c) /\ Settled(TabOf(y.m, k), c)
    BY <1>1, <1>4, <1>5, <1>6 DEF Agrees, Settled, Placed, PageCounts
  <2> QED
    BY <1>1, <1>4, <1>5, <2>1 DEF TabOK, inMap, Gets
<1>8. ASSUME NEW t \in TabIds, t # k
      PROVE  /\ TabOK(y, t, v, NoTab)
             /\ inMap(y, t) =>
                  /\ inMap(x, t) /\ x.ctl[t].inc \in Nat /\ y.ctl[t] = x.ctl[t]
                  /\ TabOf(y.m, t) = TabOf(x.m, t)
  <2>1. TabOK(x, t, v, NoTab) /\ y.ctl[t] = x.ctl[t]
    BY <1>4, <1>8 DEF Well, Gets
  <2>2. contains(y.m, t) <=> contains(x.m, t)
    BY <1>1, <1>4, <1>8 DEF Rearranges
  <2>3. contains(x.m, t) => TabOf(y.m, t) = TabOf(x.m, t)
    BY <1>1, <1>4 DEF Rearranges
  <2> QED
    BY <2>1, <2>2, <2>3 DEF TabOK, inMap, IsCtl
<1>9. Onward(x, y)
  <2>1. ASSUME NEW t \in TabIds, inMap(y, t)
        PROVE  \/ t >= x.m.nextId
               \/ /\ inMap(x, t) /\ x.ctl[t].inc \in Nat /\ y.ctl[t].inc \in Nat
                  /\ x.ctl[t].inc <= y.ctl[t].inc
                  /\ TabOf(y.m, t).snap.kind = TabOf(x.m, t).snap.kind
    <3>1. CASE t = k
      BY <1>2, <3>1
    <3>2. CASE t # k
      BY <1>8, <2>1, <3>2
    <3> QED
      BY <3>1, <3>2
  <2> QED
    BY <1>1, <1>2, <1>4, <2>1 DEF Onward
<1>10. Queued(y)
  BY <1>4, <1>9, QueuedMovesOn DEF Leaves, Well
<1>11. Well(y, v, NoTab)
  BY <1>1, <1>4, <1>7, <1>8, <1>10 DEF Well
<1> QED
  BY <1>1, <1>4, <1>11 DEF Leaves

\* A strip that stays as it is.
LEMMA RearrangesItself == ASSUME NEW m, IsStrip(m) PROVE Rearranges(m, m)
BY DEF Rearranges

\* A new tab, or one that was closed, is added and shown.
LEMMA InsertOK ==
    ASSUME NEW x, NEW v, Well(x, v, NoTab), v = x.visible,
           v \in TabIds \cup {NoTab}, v # x.m.nextId,
           NEW m, Rearranges(x.m, m), Len(m.tabs) = Len(x.m.tabs),
           ~full(m), m.nextId \in TabIds, NEW snap \in Snaps,
           NEW y, y = insertTab(x, insert(m, snap))
    PROVE  /\ Stable(y)
           /\ sessionSnapshot(y.m) = sessionSnapshot(insert(m, snap))
<1> DEFINE n == insert(m, snap)
           x1 == createController([x EXCEPT !.m = n], activeId(n))
           a == announce(x1, x.m)
<1>1. n = insert(m, snap)
  OBVIOUS
<1>2. y = IF Len(n.tabs) = Len(x.m.tabs) THEN x
            ELSE activateStableTab(a, activeId(n))
  BY DEF insertTab
<1> HIDE DEF n
<1>3. x1 = createController([x EXCEPT !.m = n], activeId(n))
  OBVIOUS
<1>4. v # m.nextId
  BY DEF Rearranges
<1> HIDE DEF x1
<1>5. /\ Well(x1, v, NoTab) /\ x1.m = n /\ x1.visible = x.visible
      /\ n.active \in DOMAIN n.tabs /\ Len(n.tabs) # Len(m.tabs)
  BY <1>1, <1>3, <1>4, TabAdded
<1>6. a \in {x1, Post(x1, [e |-> "activate", t |-> activeId(x1.m)])}
  BY AnnounceIs
<1> HIDE DEF a
<1>7. Stable(y) /\ sessionSnapshot(y.m) = sessionSnapshot(x1.m)
  BY <1>2, <1>5, <1>6, AnnouncedAndShown
<1> QED
  BY <1>1, <1>5, <1>7

\* A stable window's tabs were given their ids.
LEMMA VisibleIsOld ==
    ASSUME NEW x, Stable(x) PROVE x.visible < x.m.nextId /\ x.visible # x.m.nextId
<1>1. /\ IsStrip(x.m) /\ contains(x.m, x.visible) /\ x.visible \in TabIds
  BY StableFacts
<1>2. /\ indexOfId(x.m, x.visible) \in DOMAIN x.m.tabs
      /\ x.m.tabs[indexOfId(x.m, x.visible)].id = x.visible
  BY <1>1, StripIndex DEF TabOf
<1>3. x.visible < x.m.nextId
  BY <1>1, <1>2 DEF IsStrip
<1>4. x.visible \in Nat /\ x.m.nextId \in Nat
  BY <1>1, TabsAssumption, FS_CardinalityType DEF IsStrip
<1> QED
  BY <1>3, <1>4

\* No tab was made.
LEMMA NotInserted ==
    ASSUME NEW x, NEW m, m = x.m PROVE insertTab(x, m) = x
BY DEF insertTab

\* A new tab.
LEMMA OpenOK ==
    ASSUME NEW x, Stable(x), x.m.nextId \in TabIds,
           NEW y, y = insertTab(x, createTab(x.m))
    PROVE  Stable(y)
<1>1. CASE full(x.m)
  BY <1>1, NotInserted DEF createTab
<1>2. CASE ~full(x.m)
  <2> DEFINE m == x.m
             v == x.visible
             snap == NewSnapshot(NewTab)
  <2>1. createTab(m) = insert(m, snap)
    BY <1>2 DEF createTab
  <2>2. /\ Well(x, v, NoTab) /\ v = x.visible /\ v \in TabIds \cup {NoTab}
        /\ v # x.m.nextId /\ IsStrip(m)
    BY StableFacts, VisibleIsOld
  <2>3. Rearranges(x.m, m) /\ ~full(m) /\ m.nextId \in TabIds /\ m = x.m
    BY <1>2, <2>2, RearrangesItself
  <2>4. snap \in Snaps
    BY NewSnapshotOK
  <2>5. y = insertTab(x, insert(m, snap))
    BY <2>1
  <2> HIDE DEF m, v, snap
  <2> QED
    BY <2>2, <2>3, <2>4, <2>5, InsertOK
<1> QED
  BY <1>1, <1>2

\* The last of the closed tabs is taken from them.
LEMMA ClosedTaken ==
    ASSUME NEW m, IsStrip(m), m.closed # << >>,
           NEW n, n = [m EXCEPT !.closed = Front(@)]
    PROVE  /\ Rearranges(m, n) /\ n.tabs = m.tabs /\ Last(m.closed) \in Snaps
<1>1. /\ DOMAIN n = DOMAIN m /\ n.tabs = m.tabs /\ n.active = m.active
      /\ n.closed = Front(m.closed) /\ n.nextId = m.nextId
  BY DEF IsStrip
<1>2. /\ Len(m.closed) \in Nat /\ Len(m.closed) # 0
      /\ m.closed \in Seq(Snaps) /\ DOMAIN m.closed = 1 .. Len(m.closed)
  BY EmptySeq, LenProperties DEF IsStrip
<1>3. Front(m.closed) \in Seq(Snaps)
  BY <1>2, SubSeqProperties DEF Front
<1>4. Last(m.closed) \in Snaps
  BY <1>2, ElementOfSeq DEF Last
<1>5. IsStrip(n)
  BY <1>1, <1>3 DEF IsStrip
<1>6. \A u : indexOfId(n, u) = indexOfId(m, u)
  BY <1>1, SamePlaces
<1>7. \A u : (contains(n, u) <=> contains(m, u)) /\ TabOf(n, u) = TabOf(m, u)
  BY <1>1, <1>6 DEF contains, TabOf
<1> QED
  BY <1>1, <1>4, <1>5, <1>7 DEF Rearranges

\* The last closed tab again.
LEMMA ReopenOK ==
    ASSUME NEW x, Stable(x), x.m.nextId \in TabIds,
           NEW y, y = insertTab(x, reopenMostRecentlyClosed(x.m))
    PROVE  Stable(y)
<1>1. CASE x.m.closed = << >> \/ full(x.m)
  BY <1>1, NotInserted DEF reopenMostRecentlyClosed
<1>2. CASE x.m.closed # << >> /\ ~full(x.m)
  <2> DEFINE m == [x.m EXCEPT !.closed = Front(@)]
             v == x.visible
             snap == Last(x.m.closed)
  <2>1. reopenMostRecentlyClosed(x.m) = insert(m, snap)
    BY <1>2 DEF reopenMostRecentlyClosed
  <2>2. /\ Well(x, v, NoTab) /\ v = x.visible /\ v \in TabIds \cup {NoTab}
        /\ v # x.m.nextId /\ IsStrip(x.m)
    BY StableFacts, VisibleIsOld
  <2>3. Rearranges(x.m, m) /\ m.tabs = x.m.tabs /\ snap \in Snaps
    BY <1>2, <2>2, ClosedTaken
  <2>4. y = insertTab(x, insert(m, snap))
    BY <2>1
  <2> HIDE DEF m, v, snap
  <2>5. /\ ~full(m) /\ m.nextId \in TabIds /\ Len(m.tabs) = Len(x.m.tabs)
    BY <1>2, <2>3 DEF full, Rearranges
  <2> QED
    BY <2>2, <2>3, <2>4, <2>5, InsertOK
<1> QED
  BY <1>1, <1>2

-----------------------------------------------------------------------------
\* The window that a start makes.

\* A set of numbers has a least one.
LEMMA LeastNumber ==
    ASSUME NEW T \in SUBSET Nat, T # {}
    PROVE  \E n \in T : \A m \in T : n <= m
<1>1. IsWellFoundedOn(OpToRel(<, Nat), Nat)
  BY NatLessThanWellFounded
<1>2. PICK n \in T : \A m \in T : <<m, n>> \notin OpToRel(<, Nat)
  BY <1>1, WFMin
<1>3. ASSUME NEW m \in T PROVE n <= m
  <2>1. m \in Nat /\ n \in Nat /\ ~(m < n)
    BY <1>2 DEF OpToRel
  <2> QED
    BY <2>1
<1> QED
  BY <1>3

\* The greatest of some tabs' ids.
LEMMA GreatestId ==
    ASSUME NEW S \in SUBSET TabIds, S # {}
    PROVE  Max(S) \in S /\ \A id \in S : id <= Max(S)
<1> DEFINE U == {u \in Nat : \A id \in S : id <= u}
<1>1. /\ Cardinality(TabIds) \in Nat
      /\ \A id \in S : id \in Nat /\ 1 <= id /\ id <= Cardinality(TabIds)
  BY TabsAssumption, FS_CardinalityType
<1>2. Cardinality(TabIds) \in U
  BY <1>1
<1>3. PICK n \in U : \A u \in U : n <= u
  BY <1>2, LeastNumber
<1>4. n \in S
  <2>1. SUFFICES ASSUME n \notin S PROVE FALSE
    OBVIOUS
  <2>2. PICK id \in S : TRUE
    OBVIOUS
  <2>3. n - 1 \in Nat
    BY <1>1, <1>3, <2>2
  <2>4. \A i \in S : i <= n - 1
    BY <1>1, <1>3, <2>1
  <2>5. n - 1 \in U
    BY <2>3, <2>4
  <2> QED
    BY <1>3, <2>5
<1>5. \A id \in S : n >= id
  BY <1>1, <1>3
<1>6. Max(S) \in S /\ \A id \in S : Max(S) >= id
  BY <1>4, <1>5 DEF Max
<1>7. Max(S) \in Nat
  BY <1>1, <1>6
<1> QED
  BY <1>1, <1>6, <1>7

\* The window before it has a tab.
LEMMA EmptyOK ==
    /\ Well(EmptyWindow, NoTab, NoTab) /\ EmptyWindow.m = NoTabs
    /\ EmptyWindow.visible = NoTab /\ DOMAIN EmptyWindow = Fields
    /\ IsStrip(NoTabs)
<1> DEFINE x == EmptyWindow
<1>1. /\ DOMAIN x = Fields /\ x.m = NoTabs /\ x.visible = NoTab
      /\ x.ctl = [t \in TabIds |-> NoController]
      /\ x.jobs = << >> /\ x.events = << >> /\ x.sites = {}
  BY DEF EmptyWindow, Fields
<1>2. /\ DOMAIN NoTabs = {"tabs", "active", "closed", "nextId"}
      /\ NoTabs.tabs = << >> /\ NoTabs.active = 0
      /\ NoTabs.closed = << >> /\ NoTabs.nextId = 1
  BY DEF NoTabs
<1>3. MaxOpenTabs \in Nat
  BY TabsAssumption
<1>4. IsStrip(NoTabs)
  BY <1>2, <1>3 DEF IsStrip, Unique
<1> HIDE DEF x
<1>5. \A t : ~contains(x.m, t)
  BY <1>1, <1>2, <1>4, NoIndex DEF contains
<1>6. IsCtl(NoController)
  BY DEF IsCtl, NoController
<1>7. \A t \in TabIds : TabOK(x, t, NoTab, NoTab)
  BY <1>1, <1>5, <1>6 DEF TabOK, inMap
<1>8. IsQueue(<< >>) /\ \A e : e \notin ToSet(<< >>)
  BY DEF IsQueue, ToSet
<1>9. Queued(x)
  BY <1>1, <1>8 DEF Queued
<1>10. Well(x, NoTab, NoTab)
  BY <1>1, <1>4, <1>7, <1>9 DEF Well
<1> QED
  BY <1>1, <1>4, <1>10 DEF x

\* A first start makes one tab.
LEMMA CleanOK == Stable(cleanSession)
<1> DEFINE x == EmptyWindow
           m == NoTabs
           v == NoTab
           snap == NewSnapshot(NewTab)
           y == cleanSession
<1>1. /\ Well(x, v, NoTab) /\ v = x.visible /\ x.m = m /\ IsStrip(m)
  BY EmptyOK
<1>2. m.nextId = 1 /\ m.tabs = << >>
  BY DEF NoTabs
<1>3. 1 \in TabIds /\ v # 1 /\ v \in TabIds \cup {NoTab}
  BY TabsAssumption, FS_CardinalityType DEF NoTab
<1>4. ~full(m)
  BY <1>2, TabsAssumption DEF full
<1>5. y = insertTab(x, insert(m, snap))
  BY <1>4 DEF cleanSession, createTab
<1>6. snap \in Snaps
  BY NewSnapshotOK
<1> HIDE DEF x, m, v, snap, y
<1>7. /\ Rearranges(x.m, m) /\ Len(m.tabs) = Len(x.m.tabs)
      /\ m.nextId \in TabIds /\ v # x.m.nextId
  BY <1>1, <1>2, <1>3, RearrangesItself
<1>8. Stable(y)
  BY <1>1, <1>3, <1>4, <1>5, <1>6, <1>7, InsertOK
<1> QED
  BY <1>8 DEF y

\* What a saved session becomes: the same tabs, of the kinds of today.
LEMMA Resolved ==
    ASSUME NEW s \in Sessions, NEW r, r = resolvedSession(s)
    PROVE  /\ r = [tabs |-> r.tabs, active |-> s.active]
           /\ r.tabs \in Seq([id : TabIds, snap : Snaps])
           /\ DOMAIN r.tabs = DOMAIN s.tabs /\ Len(r.tabs) = Len(s.tabs)
           /\ \A i \in DOMAIN s.tabs : r.tabs[i].id = s.tabs[i].id
<1>1. /\ s.tabs \in Seq([id : TabIds, snap : Snapshots])
      /\ DOMAIN s = {"tabs", "active"}
  BY DEF Sessions
<1>2. /\ Len(s.tabs) \in Nat /\ DOMAIN s.tabs = 1 .. Len(s.tabs)
      /\ \A i \in DOMAIN s.tabs : s.tabs[i] \in [id : TabIds, snap : Snapshots]
  BY <1>1, LenProperties, ElementOfSeq
<1>3. /\ r = [tabs |-> r.tabs, active |-> s.active]
      /\ r.tabs = [i \in DOMAIN s.tabs |-> resolvedTab(s.tabs[i])]
  <2> DEFINE T == [i \in DOMAIN s.tabs |-> resolvedTab(s.tabs[i])]
  <2>1. r = [s EXCEPT !.tabs = T]
    BY DEF resolvedSession
  <2>2. s \in [tabs : Seq([id : TabIds, snap : Snapshots]), active : TabIds]
    BY DEF Sessions
  <2> HIDE DEF T
  <2>3. r = [tabs |-> T, active |-> s.active]
    BY <2>1, <2>2
  <2> QED
    BY <2>3 DEF T
<1>4. ASSUME NEW i \in DOMAIN s.tabs
      PROVE  /\ resolvedTab(s.tabs[i]) \in [id : TabIds, snap : Snaps]
             /\ resolvedTab(s.tabs[i]).id = s.tabs[i].id
  <2> DEFINE b == s.tabs[i]
             z == [b.snap EXCEPT !.kind = RestoredKind[b.snap.address]]
  <2>1. b \in [id : TabIds, snap : Snapshots]
    BY <1>2
  <2>2. resolvedTab(b) = [b EXCEPT !.snap = z]
    BY <2>1 DEF resolvedTab
  <2>3. z \in Snaps
    BY <2>1, ResolvedSnapshot
  <2> HIDE DEF b, z
  <2>4. resolvedTab(b) \in [id : TabIds, snap : Snaps] /\ resolvedTab(b).id = b.id
    BY <2>1, <2>2, <2>3
  <2> QED
    BY <2>4 DEF b
<1>5. r.tabs \in [1 .. Len(s.tabs) -> [id : TabIds, snap : Snaps]]
  BY <1>2, <1>3, <1>4
<1>6. r.tabs \in Seq([id : TabIds, snap : Snaps])
  <2> DEFINE S == [id : TabIds, snap : Snaps]
  <2>1. Len(s.tabs) \in Nat /\ r.tabs \in [1 .. Len(s.tabs) -> S]
    BY <1>2, <1>5
  <2> HIDE DEF S
  <2>2. r.tabs \in UNION {[1 .. n -> S] : n \in Nat}
    BY <2>1
  <2>3. r.tabs \in Seq(S)
    BY <2>2, SeqDef
  <2> QED
    BY <2>3 DEF S
<1>7. DOMAIN r.tabs = DOMAIN s.tabs /\ Len(r.tabs) = Len(s.tabs)
  BY <1>2, <1>5, <1>6, LenProperties
<1> QED
  BY <1>1, <1>3, <1>4, <1>6, <1>7

\* The strip it is restored to.
LEMMA RestoredStrip ==
    ASSUME NEW s \in Sessions, NEW r, r = resolvedSession(s),
           NEW m, m = restored(r)
    PROVE  /\ IsStrip(m) /\ m.active \in DOMAIN m.tabs
           /\ sessionSnapshot(m) = r
           /\ \A i \in DOMAIN m.tabs :
                /\ m.tabs[i].life = "Dormant" /\ m.tabs[i].loading = FALSE
<1> DEFINE ids == {r.tabs[i].id : i \in DOMAIN r.tabs}
<1>1. /\ r = [tabs |-> r.tabs, active |-> s.active]
      /\ r.tabs \in Seq([id : TabIds, snap : Snaps])
      /\ DOMAIN r.tabs = DOMAIN s.tabs /\ Len(r.tabs) = Len(s.tabs)
      /\ \A i \in DOMAIN s.tabs : r.tabs[i].id = s.tabs[i].id
  BY Resolved
<1>2. /\ Len(s.tabs) <= MaxOpenTabs
      /\ \E i \in DOMAIN s.tabs : s.tabs[i].id = s.active
      /\ \A i, j \in DOMAIN s.tabs : s.tabs[i].id = s.tabs[j].id => i = j
  BY DEF Sessions
<1>3. /\ Len(r.tabs) \in Nat /\ DOMAIN r.tabs = 1 .. Len(r.tabs)
      /\ \A i \in DOMAIN r.tabs : r.tabs[i] \in [id : TabIds, snap : Snaps]
      /\ r.tabs = [i \in DOMAIN r.tabs |-> r.tabs[i]] /\ r.active = s.active
  <2> DEFINE S == [id : TabIds, snap : Snaps]
             q == r.tabs
  <2>1. q \in Seq(S)
    BY <1>1
  <2>2. r.active = s.active
    BY <1>1
  <2> HIDE DEF S, q
  <2>3. Len(q) \in Nat /\ DOMAIN q = 1 .. Len(q) /\ q \in [1 .. Len(q) -> S]
    BY <2>1, LenProperties
  <2>4. \A i \in DOMAIN q : q[i] \in S
    BY <2>3
  <2>5. q = [i \in DOMAIN q |-> q[i]]
    BY <2>3
  <2> QED
    BY <2>2, <2>3, <2>4, <2>5 DEF S, q
<1>4. /\ DOMAIN m = {"tabs", "active", "closed", "nextId"}
      /\ m.tabs = [i \in DOMAIN r.tabs |->
                     dormantState(r.tabs[i].id, r.tabs[i].snap)]
      /\ m.active = CHOOSE i \in DOMAIN r.tabs : r.tabs[i].id = r.active
      /\ m.closed = << >> /\ m.nextId = 1 + Max(ids)
  BY DEF restored
<1>5. \A i \in DOMAIN r.tabs :
        /\ m.tabs[i] = dormantState(r.tabs[i].id, r.tabs[i].snap)
        /\ m.tabs[i] \in Tabs
        /\ m.tabs[i].id = r.tabs[i].id /\ m.tabs[i].snap = r.tabs[i].snap
        /\ m.tabs[i].life = "Dormant" /\ m.tabs[i].loading = FALSE
  BY <1>3, <1>4 DEF dormantState, Tabs, Lives
<1>6. m.tabs \in Seq(Tabs) /\ DOMAIN m.tabs = DOMAIN r.tabs
      /\ Len(m.tabs) = Len(r.tabs)
  <2>1. m.tabs \in [1 .. Len(r.tabs) -> Tabs]
    BY <1>3, <1>4, <1>5
  <2>2. m.tabs \in UNION {[1 .. n -> Tabs] : n \in Nat}
    BY <1>3, <2>1
  <2>3. m.tabs \in Seq(Tabs)
    BY <2>2, SeqDef
  <2> QED
    BY <1>3, <2>1, <2>3, LenProperties
<1>7. m.active \in DOMAIN r.tabs /\ r.tabs[m.active].id = r.active
  <2>1. \E i \in DOMAIN r.tabs : r.tabs[i].id = r.active
    BY <1>1, <1>2
  <2> QED
    BY <1>4, <2>1
<1>8. ids \in SUBSET TabIds /\ ids # {}
  BY <1>3, <1>7
<1>9. \A i \in DOMAIN r.tabs : r.tabs[i].id \in ids
  OBVIOUS
<1> HIDE DEF ids
<1>10. Max(ids) \in ids /\ \A id \in ids : id <= Max(ids)
  BY <1>8, GreatestId
<1>11. \A id \in TabIds : id \in Nat
  BY TabsAssumption, FS_CardinalityType
<1>12. /\ m.nextId \in Nat
       /\ \A i \in DOMAIN m.tabs : m.tabs[i].id < m.nextId
  <2> DEFINE greatest == Max(ids)
  <2>1. greatest \in Nat /\ m.nextId = 1 + greatest
    BY <1>4, <1>8, <1>10, <1>11
  <2>2. ASSUME NEW i \in DOMAIN m.tabs
        PROVE  m.tabs[i].id \in Nat /\ m.tabs[i].id <= greatest
    <3> DEFINE id == r.tabs[i].id
    <3>1. m.tabs[i].id = id /\ id \in ids
      BY <1>5, <1>6, <1>9, <2>2
    <3> HIDE DEF id
    <3> QED
      BY <1>8, <1>10, <1>11, <3>1
  <2> HIDE DEF greatest
  <2> QED
    BY <2>1, <2>2
<1>13. IsStrip(m)
  <2>1. Unique(m.tabs)
    BY <1>1, <1>2, <1>5, <1>6 DEF Unique
  <2>2. Len(m.tabs) <= MaxOpenTabs /\ m.closed \in Seq(Snaps)
    BY <1>1, <1>2, <1>4, <1>6
  <2> QED
    BY <1>4, <1>6, <1>7, <1>12, <2>1, <2>2 DEF IsStrip
<1>14. sessionSnapshot(m) = r
  <2>1. activeId(m) = r.active
    BY <1>3, <1>5, <1>6, <1>7 DEF activeId
  <2>2. ASSUME NEW i \in DOMAIN r.tabs
        PROVE  [id |-> m.tabs[i].id, snap |-> m.tabs[i].snap] = r.tabs[i]
    BY <1>3, <1>5
  <2>3. [i \in DOMAIN m.tabs |-> [id |-> m.tabs[i].id,
                                  snap |-> m.tabs[i].snap]] = r.tabs
    BY <1>3, <1>6, <2>2
  <2>4. sessionSnapshot(m) = [tabs |-> r.tabs, active |-> r.active]
    BY <2>1, <2>3 DEF sessionSnapshot
  <2> QED
    BY <1>1, <2>4
<1> QED
  BY <1>5, <1>6, <1>7, <1>13, <1>14

\* A start from a session: its tabs, none of them started but the active one.
LEMMA RestoredOK ==
    ASSUME NEW s \in Sessions, NEW y, y = restoredSession(s)
    PROVE  Stable(y) /\ sessionSnapshot(y.m) = resolvedSession(s)
<1> DEFINE r == resolvedSession(s)
           m == restored(r)
           x == [EmptyWindow EXCEPT
                   !.m = m,
                   !.ctl = [t \in TabIds |-> IF contains(m, t)
                                               THEN NewController
                                               ELSE NoController]]
           a == Post(x, [e |-> "activate", t |-> activeId(m)])
           v == NoTab
<1>1. y = activateStableTab(a, activeId(m))
  BY DEF restoredSession
<1>2. /\ IsStrip(m) /\ m.active \in DOMAIN m.tabs /\ sessionSnapshot(m) = r
      /\ \A i \in DOMAIN m.tabs : m.tabs[i].life = "Dormant"
  BY RestoredStrip
<1> HIDE DEF m, r
<1>3. /\ DOMAIN x = Fields /\ x.m = m /\ x.visible = NoTab
      /\ DOMAIN x.ctl = TabIds
      /\ \A t \in TabIds : x.ctl[t] = IF contains(m, t) THEN NewController
                                                         ELSE NoController
      /\ x.jobs = EmptyWindow.jobs /\ x.events = EmptyWindow.events
      /\ x.sites = EmptyWindow.sites
  BY DEF Fields, EmptyWindow
<1>4. x.jobs = << >> /\ x.events = << >> /\ x.sites = {}
  BY <1>3 DEF EmptyWindow
<1> HIDE DEF x
<1>5. NoTab \notin TabIds
  BY TabsAssumption, FS_CardinalityType DEF NoTab
<1>6. ASSUME NEW t \in TabIds PROVE TabOK(x, t, v, NoTab)
  <2>1. CASE contains(m, t)
    <3>1. TabOf(m, t).life = "Dormant"
      BY <1>2, <2>1, StripIndex DEF TabOf
    <3>2. /\ Agrees(TabOf(m, t), NewController)
          /\ Settled(TabOf(m, t), NewController)
      BY <3>1, NewControllerIs DEF Agrees, Settled, Placed, PageCounts
    <3> QED
      BY <1>3, <1>5, <2>1, <3>2, NewControllerIs DEF TabOK, inMap
  <2>2. CASE ~contains(m, t)
    <3>1. IsCtl(NoController)
      BY DEF IsCtl, NoController
    <3> QED
      BY <1>3, <2>2, <3>1 DEF TabOK, inMap
  <2> QED
    BY <2>1, <2>2
<1>7. IsQueue(<< >>) /\ \A e : e \notin ToSet(<< >>)
  BY DEF IsQueue, ToSet
<1>8. Queued(x)
  BY <1>4, <1>7 DEF Queued
<1>9. Well(x, v, NoTab)
  BY <1>2, <1>3, <1>6, <1>8 DEF Well
<1>10. a \in {x, Post(x, [e |-> "activate", t |-> activeId(x.m)])}
  BY <1>3
<1>11. v = x.visible /\ v \in TabIds \cup {NoTab}
  BY <1>3
<1> HIDE DEF a, v
<1>12. Stable(y) /\ sessionSnapshot(y.m) = sessionSnapshot(x.m)
  BY <1>1, <1>2, <1>3, <1>9, <1>10, <1>11, AnnouncedAndShown
<1> QED
  BY <1>2, <1>3, <1>12 DEF r

-----------------------------------------------------------------------------
\* A tab is closed.

\* What a tab does when it closes is not part of what is kept of it.
LEMMA ClosedAlike ==
    ASSUME NEW m, IsStrip(m), NEW i \in DOMAIN m.tabs, NEW b,
           b.id = m.tabs[i].id, b.snap = m.tabs[i].snap,
           NEW n, n = [m EXCEPT !.tabs[i] = b]
    PROVE  closeTab(n, i) = closeTab(m, i)
<1> DEFINE S == Tabs \cup {b}
           s == m.tabs
           q == [s EXCEPT ![i] = b]
<1>1. /\ DOMAIN m = {"tabs", "active", "closed", "nextId"}
      /\ s \in Seq(S) /\ m.active \in DOMAIN s \cup {0}
  BY SeqMonotonic DEF IsStrip
<1>2. /\ DOMAIN n = DOMAIN m /\ n.tabs = q /\ n.active = m.active
      /\ n.closed = m.closed /\ n.nextId = m.nextId
      /\ \A e, c : [n EXCEPT !.tabs = e, !.closed = c]
                     = [m EXCEPT !.tabs = e, !.closed = c]
  BY <1>1
<1>3. b \in S
  OBVIOUS
<1> HIDE DEF S
<1>4. /\ q \in Seq(S) /\ DOMAIN q = DOMAIN s /\ Len(q) = Len(s)
      /\ DOMAIN s = 1 .. Len(s) /\ Len(s) \in Nat /\ i \in 1 .. Len(s)
      /\ \A j \in DOMAIN s : q[j] = IF j = i THEN b ELSE s[j]
  <2>1. q \in Seq(S)
    BY <1>1, <1>3, ExceptSeq
  <2>2. DOMAIN q = DOMAIN s
    OBVIOUS
  <2>3. DOMAIN q = 1 .. Len(q) /\ DOMAIN s = 1 .. Len(s) /\ Len(q) \in Nat
        /\ Len(s) \in Nat
    BY <1>1, <2>1, LenProperties
  <2>4. Len(q) = Len(s)
    BY <2>2, <2>3
  <2> QED
    BY <2>1, <2>2, <2>3, <2>4
<1>5. /\ q[i].id = s[i].id /\ q[i].snap = s[i].snap
      /\ \A j \in DOMAIN s : q[j].id = s[j].id
  BY <1>4
<1>6. activeId(n) = activeId(m)
  BY <1>1, <1>2, <1>5 DEF activeId
<1>11. /\ q[i].snap = s[i].snap /\ n.tabs = q /\ m.tabs = s
  BY <1>2, <1>5
<1> HIDE DEF q, s
<1>7. RemoveAt(q, i) = RemoveAt(s, i)
  <2>1. /\ RemoveAt(s, i) \in Seq(S) /\ Len(RemoveAt(s, i)) = Len(s) - 1
        /\ \A j \in 1 .. Len(s) - 1 :
             RemoveAt(s, i)[j] = s[IF j < i THEN j ELSE j + 1]
    BY <1>1, <1>4, Removed
  <2>2. /\ RemoveAt(q, i) \in Seq(S) /\ Len(RemoveAt(q, i)) = Len(s) - 1
        /\ \A j \in 1 .. Len(s) - 1 :
             RemoveAt(q, i)[j] = q[IF j < i THEN j ELSE j + 1]
    <3> DEFINE k == Len(q)
    <3>1. i \in 1 .. k /\ q \in Seq(S) /\ k = Len(s)
      BY <1>4
    <3>2. /\ RemoveAt(q, i) \in Seq(S) /\ Len(RemoveAt(q, i)) = k - 1
          /\ \A j \in 1 .. k - 1 :
               RemoveAt(q, i)[j] = q[IF j < i THEN j ELSE j + 1]
      BY <3>1, Removed
    <3> HIDE DEF k
    <3> QED
      BY <3>1, <3>2
  <2>3. ASSUME NEW j \in 1 .. Len(s) - 1
        PROVE  RemoveAt(q, i)[j] = RemoveAt(s, i)[j]
    <3> DEFINE l == IF j < i THEN j ELSE j + 1
    <3>1. l \in 1 .. Len(s) /\ l # i
      BY <1>4
    <3>2. q[l] = s[l]
      BY <1>4, <3>1
    <3> QED
      BY <2>1, <2>2, <3>2
  <2> QED
    BY <1>4, <2>1, <2>2, <2>3, SeqEqual
<1> DEFINE r == RemoveAt(s, i)
           c == Append(m.closed, s[i].snap)
           d == IF Len(c) > MaxRecentlyClosed THEN Tail(c) ELSE c
           rest == [m EXCEPT !.tabs = r, !.closed = d]
           rn == RemoveAt(n.tabs, i)
           cn == Append(n.closed, n.tabs[i].snap)
           dn == IF Len(cn) > MaxRecentlyClosed THEN Tail(cn) ELSE cn
           restn == [n EXCEPT !.tabs = rn, !.closed = dn]
<1>9. closeTab(m, i) =
        [rest EXCEPT !.active =
           IF i # m.active THEN indexOfId(rest, activeId(m))
             ELSE IF i <= Len(rest.tabs) THEN i ELSE Len(rest.tabs)]
  BY <1>11 DEF closeTab
<1>10. closeTab(n, i) =
        [restn EXCEPT !.active =
           IF i # n.active THEN indexOfId(restn, activeId(n))
             ELSE IF i <= Len(restn.tabs) THEN i ELSE Len(restn.tabs)]
  BY DEF closeTab
<1>12. rn = r /\ cn = c
  BY <1>2, <1>7, <1>11
<1>13. dn = d
  BY <1>12
<1> HIDE DEF r, c, d, rn, cn, dn
<1>8. restn = rest
  BY <1>2, <1>12, <1>13
<1> HIDE DEF rest, restn
<1> QED
  BY <1>2, <1>6, <1>8, <1>9, <1>10

\* The records of a tab's Worker and the queues, when the tab closes.
Added(p, q, e) == q = p \/ q = Append(p, e)

\* handleTabClosing.
LEMMA TabClosingOK ==
    ASSUME NEW x, DOMAIN x = Fields, NEW t \in TabIds,
           NEW y, y = handleTabClosing(x, t)
    PROVE  /\ DOMAIN y = Fields /\ y.m = x.m /\ y.ctl = x.ctl
           /\ y.visible = x.visible /\ y.events = x.events /\ y.sites = x.sites
           /\ Added(x.jobs, y.jobs,
                    [j |-> "close", t |-> t, r |-> x.runtimeOf[t]])
<1> DEFINE w1 == [x EXCEPT !.runtimeOf[t] = 0, !.pendingNav[t] = 0]
           j == [j |-> "close", t |-> t, r |-> x.runtimeOf[t]]
<1>1. y = IF x.runtimeOf[t] = 0 THEN w1 ELSE Enqueue(w1, j)
  BY DEF handleTabClosing
<1>2. /\ DOMAIN w1 = Fields /\ w1.m = x.m /\ w1.ctl = x.ctl
      /\ w1.visible = x.visible /\ w1.events = x.events
      /\ w1.jobs = x.jobs /\ w1.sites = x.sites
  BY DEF Fields, EmptyWindow
<1> HIDE DEF w1, j
<1>3. CASE y = w1
  BY <1>2, <1>3 DEF Added
<1>4. CASE y = Enqueue(w1, j)
  BY <1>2, <1>4 DEF Added, Enqueue, Fields, EmptyWindow, j
<1> QED
  BY <1>1, <1>3, <1>4

\* closeRuntime.
LEMMA RuntimeClosed ==
    ASSUME NEW x, DOMAIN x = Fields, NEW t \in TabIds,
           NEW y, y = closeRuntime(x, t)
    PROVE  /\ DOMAIN y = Fields /\ y.m = x.m /\ y.ctl = x.ctl
           /\ y.visible = x.visible /\ y.jobs = x.jobs /\ y.sites = x.sites
           /\ Added(x.events, y.events, [e |-> "retired", t |-> t])
<1> DEFINE r == [x.rt[t] EXCEPT
                   !.closing = TRUE, !.target = NoTarget, !.pend = NoLaunch,
                   !.cur = NoLaunch, !.ctx = 0, !.ack = FALSE,
                   !.dying = x.rt[t].proc # 0]
           w1 == [x EXCEPT !.rt[t] = r]
           e == [e |-> "retired", t |-> t]
<1>1. y \in {x, w1, Post(w1, e)}
  BY DEF closeRuntime
<1> HIDE DEF r
<1>2. /\ DOMAIN w1 = Fields /\ w1.m = x.m /\ w1.ctl = x.ctl
      /\ w1.visible = x.visible /\ w1.events = x.events
      /\ w1.jobs = x.jobs /\ w1.sites = x.sites
  BY DEF Fields, EmptyWindow
<1> HIDE DEF w1, e
<1>3. CASE y = x
  BY <1>3 DEF Added
<1>4. CASE y = w1
  BY <1>2, <1>4 DEF Added
<1>5. CASE y = Post(w1, e)
  BY <1>2, <1>5 DEF Added, Post, Fields, EmptyWindow, e
<1> QED
  BY <1>1, <1>3, <1>4, <1>5

\* The strip with a tab that is closing.
Closing(m, n, t) ==
    \E b : /\ b.id = TabOf(m, t).id /\ b.snap = TabOf(m, t).snap
           /\ n = [m EXCEPT !.tabs[indexOfId(m, t)] = b]

\* beginClosing.
LEMMA ClosingBegun ==
    ASSUME NEW x, DOMAIN x = Fields, DOMAIN x.ctl = TabIds, IsStrip(x.m),
           NEW t \in TabIds, contains(x.m, t), NEW y, y = beginClosing(x, t)
    PROVE  /\ Leaves(x, y) /\ DOMAIN y.ctl = TabIds /\ Closing(x.m, y.m, t)
           /\ \A u \in TabIds : u # t => y.ctl[u] = x.ctl[u]
<1> DEFINE i == indexOfId(x.m, t)
           w0 == [x EXCEPT !.ctl[t].inc = @ + 1, !.ctl[t].active = FALSE]
           w1 == [w0 EXCEPT !.ctl[t].life = "Closing"]
           a == Loading(w0, t)
           b == [x.m.tabs[i] EXCEPT !.life = "Closing", !.loading = a]
<1>1. y = transitionTo(w0, t, "Closing")
  BY DEF beginClosing
<1>2. /\ w0.m = x.m /\ DOMAIN w0 = Fields /\ Leaves(x, w0)
      /\ DOMAIN w0.ctl = TabIds
      /\ \A u \in TabIds : u # t => w0.ctl[u] = x.ctl[u]
  BY DEF Leaves, Fields, EmptyWindow
<1> HIDE DEF w0
<1>3. y = SetModel(w1, t, "Closing", a)
  BY <1>1, <1>2 DEF transitionTo
<1>4. /\ w1.m = x.m /\ DOMAIN w1 = Fields /\ Leaves(x, w1)
      /\ DOMAIN w1.ctl = TabIds
      /\ \A u \in TabIds : u # t => w1.ctl[u] = x.ctl[u]
  BY <1>2 DEF Leaves, Fields, EmptyWindow
<1> HIDE DEF w1, a
<1>5. i # 0
  BY DEF contains
<1>6. y = [w1 EXCEPT !.m.tabs[i] = b]
  BY <1>3, <1>4, <1>5 DEF SetModel
<1>7. /\ i \in DOMAIN x.m.tabs /\ x.m.tabs[i] = TabOf(x.m, t)
      /\ TabOf(x.m, t) \in Tabs
  BY StripIndex DEF TabOf
<1>8. b.id = TabOf(x.m, t).id /\ b.snap = TabOf(x.m, t).snap
  BY <1>7 DEF Tabs
<1> HIDE DEF b
<1>9. /\ y.m = [x.m EXCEPT !.tabs[i] = b] /\ Leaves(x, y)
      /\ y.ctl = w1.ctl
  BY <1>4, <1>6 DEF Leaves, Fields, EmptyWindow
<1>10. Closing(x.m, y.m, t)
  BY <1>8, <1>9 DEF Closing
<1> QED
  BY <1>4, <1>9, <1>10

\* The tab t is gone; what its Worker still has to do is queued.
Retires(x, y, t) ==
    /\ DOMAIN y = Fields /\ y.visible = x.visible /\ y.sites = x.sites
    /\ DOMAIN y.ctl = TabIds /\ y.ctl[t] = NoController
    /\ \A u \in TabIds : u # t => y.ctl[u] = x.ctl[u]
    /\ Added(x.jobs, y.jobs, [j |-> "close", t |-> t, r |-> x.runtimeOf[t]])
    /\ Added(x.events, y.events, [e |-> "retired", t |-> t])

\* retireController.
LEMMA RetireOK ==
    ASSUME NEW x, DOMAIN x = Fields, DOMAIN x.ctl = TabIds, IsStrip(x.m),
           NEW t \in TabIds, contains(x.m, t), NEW y, y = retireController(x, t)
    PROVE  Retires(x, y, t) /\ Closing(x.m, y.m, t)
<1> DEFINE x1 == handleTabClosing(x, t)
           x2 == beginClosing(x1, t)
           x3 == closeRuntime(x2, t)
           r == IF x.rt[t].made THEN x3.retiring \cup {t} ELSE x3.retiring
<1>1. y = [x3 EXCEPT !.ctl[t] = NoController, !.retiring = r]
  BY DEF retireController
<1>2. /\ DOMAIN x1 = Fields /\ x1.m = x.m /\ x1.ctl = x.ctl
      /\ x1.visible = x.visible /\ x1.events = x.events /\ x1.sites = x.sites
      /\ Added(x.jobs, x1.jobs,
               [j |-> "close", t |-> t, r |-> x.runtimeOf[t]])
  BY TabClosingOK
<1> HIDE DEF r, x1
<1>3. /\ Leaves(x1, x2) /\ DOMAIN x2.ctl = TabIds /\ Closing(x1.m, x2.m, t)
      /\ \A u \in TabIds : u # t => x2.ctl[u] = x1.ctl[u]
  BY <1>2, ClosingBegun
<1> HIDE DEF x2
<1>4. DOMAIN x2 = Fields
  BY <1>2, <1>3 DEF Leaves
<1>5. /\ DOMAIN x3 = Fields /\ x3.m = x2.m /\ x3.ctl = x2.ctl
      /\ x3.visible = x2.visible /\ x3.jobs = x2.jobs /\ x3.sites = x2.sites
      /\ Added(x2.events, x3.events, [e |-> "retired", t |-> t])
  BY <1>4, RuntimeClosed
<1> HIDE DEF x3
<1>6. /\ DOMAIN y = Fields /\ y.m = x3.m /\ y.visible = x3.visible
      /\ y.jobs = x3.jobs /\ y.events = x3.events /\ y.sites = x3.sites
      /\ y.ctl = [x3.ctl EXCEPT ![t] = NoController]
  BY <1>1, <1>5 DEF Fields, EmptyWindow
<1>7. /\ DOMAIN y.ctl = TabIds /\ y.ctl[t] = NoController
      /\ \A u \in TabIds : u # t => y.ctl[u] = x.ctl[u]
  BY <1>2, <1>3, <1>5, <1>6
<1> QED
  BY <1>2, <1>3, <1>5, <1>6, <1>7 DEF Retires, Leaves

\* What was queued stays right when the tabs move on.
LEMMA AddedOK ==
    ASSUME NEW p, IsQueue(p), NEW e, NEW q, Added(p, q, e)
    PROVE  IsQueue(q) /\ ToSet(q) \subseteq ToSet(p) \cup {e}
<1>1. CASE q = p
  BY <1>1
<1>2. CASE q = Append(p, e)
  BY <1>2, Queueing
<1> QED
  BY <1>1, <1>2 DEF Added

\* What is queued stays good, with a job and an event more.
LEMMA QueuedGoesOn ==
    ASSUME NEW x, NEW y, Onward(x, y), Queued(x), y.sites = x.sites,
           NEW j, JobOK(x, j), Added(x.jobs, y.jobs, j),
           NEW e, EventOK(x, e), Added(x.events, y.events, e)
    PROVE  Queued(y)
<1>1. \A s : SiteOK(x, s) => SiteOK(y, s)
  BY SiteMovesOn
<1>2. \A k : JobOK(x, k) => JobOK(y, k)
  BY <1>1 DEF JobOK
<1>3. \A f : EventOK(x, f) => EventOK(y, f)
  BY <1>1 DEF EventOK
<1>4. IsQueue(y.jobs) /\ ToSet(y.jobs) \subseteq ToSet(x.jobs) \cup {j}
  BY AddedOK DEF Queued
<1>5. IsQueue(y.events) /\ ToSet(y.events) \subseteq ToSet(x.events) \cup {e}
  BY AddedOK DEF Queued
<1> QED
  BY <1>1, <1>2, <1>3, <1>4, <1>5 DEF Queued

\* A tab and its controller are gone together.
LEMMA GoneOK ==
    ASSUME NEW x, NEW v, Well(x, v, NoTab), x.m.active \in DOMAIN x.m.tabs,
           NEW t \in TabIds, contains(x.m, t),
           NEW n, n = closeTab(x.m, indexOfId(x.m, t)),
           NEW y, Retires(x, y, t), y.m = n
    PROVE  Well(y, v, NoTab)
<1>1. /\ IsStrip(n) /\ n.nextId = x.m.nextId
      /\ \A u : contains(n, u) <=> contains(x.m, u) /\ u # t
      /\ Others(x.m, n, t) /\ IsStrip(x.m)
  BY TabClosed DEF Well
<1>2. ASSUME NEW u \in TabIds
      PROVE  /\ TabOK(y, u, v, NoTab)
             /\ inMap(y, u) =>
                  /\ inMap(x, u) /\ x.ctl[u].inc \in Nat /\ y.ctl[u] = x.ctl[u]
                  /\ TabOf(y.m, u) = TabOf(x.m, u)
  <2>1. CASE u = t
    <3>1. y.ctl[u] = NoController /\ ~contains(y.m, u)
      BY <1>1, <2>1 DEF Retires
    <3>2. IsCtl(NoController)
      BY DEF IsCtl, NoController
    <3> QED
      BY <3>1, <3>2 DEF TabOK, inMap
  <2>2. CASE u # t
    <3>1. TabOK(x, u, v, NoTab) /\ y.ctl[u] = x.ctl[u]
      BY <2>2 DEF Well, Retires
    <3>2. contains(y.m, u) <=> contains(x.m, u)
      BY <1>1, <2>2
    <3>3. contains(x.m, u) => TabOf(y.m, u) = TabOf(x.m, u)
      BY <1>1, <2>2 DEF Others
    <3> QED
      BY <3>1, <3>2, <3>3 DEF TabOK, inMap, IsCtl
  <2> QED
    BY <2>1, <2>2
<1>3. Onward(x, y)
  <2>1. x.m.nextId \in Nat /\ y.m.nextId = x.m.nextId
    BY <1>1 DEF IsStrip
  <2> QED
    BY <1>2, <2>1 DEF Onward
<1>4. Queued(y)
  <2> DEFINE j == [j |-> "close", t |-> t, r |-> x.runtimeOf[t]]
             e == [e |-> "retired", t |-> t]
  <2>1. JobOK(x, j) /\ EventOK(x, e)
    BY DEF JobOK, EventOK
  <2>2. Added(x.jobs, y.jobs, j) /\ Added(x.events, y.events, e)
        /\ y.sites = x.sites /\ Queued(x)
    BY DEF Retires, Well
  <2> HIDE DEF j, e
  <2> QED
    BY <1>3, <2>1, <2>2, QueuedGoesOn
<1> QED
  BY <1>1, <1>2, <1>4 DEF Well, Retires

\* A tab is closed and its neighbour shown; the last one makes room for a new
\* one.
LEMMA CloseOK ==
    ASSUME NEW x, Stable(x), NEW t \in TabIds, contains(x.m, t),
           Len(x.m.tabs) = 1 => x.m.nextId \in TabIds,
           NEW y, y = closeStableTab(x, t)
    PROVE  Stable(y)
<1> DEFINE i == indexOfId(x.m, t)
           x1 == retireController(x, t)
           closed == [x1 EXCEPT !.m = closeTab(@, i)]
           replaced == [closed EXCEPT !.m = createTab(@)]
           n == closeTab(x.m, i)
           v == x.visible
<1>1. y = IF Len(x.m.tabs) = 1
            THEN LET k == activeId(replaced.m)
                 IN  activateStableTab(
                       announce(createController(replaced, k), x.m), k)
            ELSE activateStableTab(announce(closed, x.m), activeId(closed.m))
  BY DEF closeStableTab
<1>2. /\ Well(x, v, NoTab) /\ v \in TabIds /\ IsStrip(x.m)
      /\ x.m.active \in DOMAIN x.m.tabs /\ DOMAIN x = Fields
      /\ DOMAIN x.ctl = TabIds
  BY StableFacts DEF Well
<1>3. Retires(x, x1, t) /\ Closing(x.m, x1.m, t)
  BY <1>2, RetireOK
<1>4. closeTab(x1.m, i) = n
  <2>1. PICK b : /\ b.id = TabOf(x.m, t).id /\ b.snap = TabOf(x.m, t).snap
                 /\ x1.m = [x.m EXCEPT !.tabs[i] = b]
    BY <1>3 DEF Closing
  <2>2. i \in DOMAIN x.m.tabs /\ x.m.tabs[i] = TabOf(x.m, t)
    BY <1>2, StripIndex DEF TabOf
  <2> HIDE DEF i, x1
  <2> QED
    BY <1>2, <2>1, <2>2, ClosedAlike DEF n
<1> HIDE DEF x1
<1>5. closed.m = n /\ Retires(x, closed, t)
  BY <1>3, <1>4 DEF Retires, Fields, EmptyWindow
<1>6. n = closeTab(x.m, indexOfId(x.m, t))
  OBVIOUS
<1> HIDE DEF closed, n, i
<1>7. Well(closed, v, NoTab) /\ closed.visible = v
  <2>1. Well(closed, v, NoTab)
    BY <1>2, <1>5, <1>6, GoneOK
  <2> QED
    BY <1>5, <2>1 DEF Retires
<1>8. /\ IsStrip(n) /\ n.nextId = x.m.nextId
      /\ Len(x.m.tabs) # 1 => n.active \in DOMAIN n.tabs
      /\ Len(n.tabs) = Len(x.m.tabs) - 1
  BY <1>2, <1>6, TabClosed
<1>9. CASE Len(x.m.tabs) # 1
  <2> DEFINE a == announce(closed, x.m)
  <2>1. a \in {closed, Post(closed, [e |-> "activate",
                                     t |-> activeId(closed.m)])}
    BY AnnounceIs
  <2>2. y = activateStableTab(a, activeId(closed.m))
    BY <1>1, <1>9
  <2> HIDE DEF a, v
  <2> QED
    BY <1>2, <1>5, <1>7, <1>8, <1>9, <2>1, <2>2, AnnouncedAndShown
<1>10. CASE Len(x.m.tabs) = 1
  <2> DEFINE snap == NewSnapshot(NewTab)
             p == insert(n, snap)
             x2 == createController(replaced, activeId(replaced.m))
             a == announce(x2, x.m)
  <2>1. ~full(n)
    BY <1>8, <1>10, TabsAssumption DEF full
  <2>2. createTab(n) = p
    BY <2>1 DEF createTab
  <2>3. replaced = [closed EXCEPT !.m = p] /\ replaced.m = p
    BY <1>5, <2>2 DEF Retires, Fields, EmptyWindow
  <2>4. x2 = createController([closed EXCEPT !.m = p], activeId(p))
    BY <2>3
  <2>5. snap \in Snaps
    BY NewSnapshotOK
  <2>6. v # n.nextId
    BY <1>8, VisibleIsOld
  <2>7. Rearranges(closed.m, n) /\ n.nextId \in TabIds
    BY <1>5, <1>8, <1>10, RearrangesItself
  <2>8. y = activateStableTab(a, activeId(p)) /\ p = insert(n, snap)
    BY <1>1, <1>10, <2>3
  <2> HIDE DEF p, replaced, snap, v, x2
  <2>9. /\ Well(x2, v, NoTab) /\ x2.m = p /\ x2.visible = v
        /\ p.active \in DOMAIN p.tabs
    <3>1. Well(x2, v, NoTab)
      BY <1>7, <2>1, <2>4, <2>5, <2>6, <2>7, <2>8, TabAdded
    <3> QED
      BY <1>7, <2>1, <2>4, <2>5, <2>6, <2>7, <2>8, <3>1, TabAdded
  <2>10. a \in {x2, Post(x2, [e |-> "activate", t |-> activeId(x2.m)])}
    BY AnnounceIs
  <2> HIDE DEF a
  <2> QED
    BY <1>2, <2>8, <2>9, <2>10, AnnouncedAndShown
<1> QED
  BY <1>9, <1>10

-----------------------------------------------------------------------------
\* The handlers keep the window stable.

\* More that is queued leaves the window stable, ...
LEMMA AddsStable ==
    ASSUME NEW x, Stable(x), NEW y, Adds(x, y) PROVE Stable(y)
<1> DEFINE v == x.visible
           l == NoTab
<1>1. Well(x, v, l) /\ v = x.visible
  BY StableFacts
<1> HIDE DEF v, l
<1>2. Well(y, v, l) /\ Same(x, y)
  BY <1>1, AddsOK
<1> QED
  BY <1>1, <1>2, StableSame DEF l

\* ... and so does what is not the tabs'.
LEMMA BesideStable ==
    ASSUME NEW x, Stable(x), NEW y, Beside(x, y) PROVE Stable(y)
<1>1. Adds(x, y)
  BY StableFacts DEF Adds, Beside, Leaves, Well, Queued
<1> QED
  BY <1>1, AddsStable

\* The save timer.
LEMMA TouchOK == ASSUME NEW x, Stable(x) PROVE Stable(Touch(x))
<1> DEFINE b == x.timer \/ (saves /\ sessionSnapshot(x.m) # sessionSnapshot(w.m))
           y == [x EXCEPT !.timer = b]
<1>1. DOMAIN x = Fields
  BY DEF Stable, Well
<1> HIDE DEF b
<1>2. Beside(x, y)
  BY <1>1 DEF Beside, Leaves, Fields, EmptyWindow
<1>3. Stable(y)
  BY <1>2, BesideStable
<1> QED
  BY <1>3 DEF Touch, b

\* The next of what was posted is taken.
LEMMA EventTaken ==
    ASSUME NEW x, Stable(x), x.events # << >>,
           NEW y, y = [x EXCEPT !.events = Tail(@)]
    PROVE  Stable(y) /\ EventOK(y, Head(x.events))
<1>1. DOMAIN x = Fields /\ Queued(x)
  BY DEF Stable, Well
<1>2. /\ DOMAIN y = DOMAIN x /\ y.m = x.m /\ y.ctl = x.ctl
      /\ y.visible = x.visible /\ y.events = Tail(x.events)
      /\ y.jobs = x.jobs /\ y.sites = x.sites
  BY <1>1 DEF Fields, EmptyWindow
<1>3. /\ Head(x.events) \in ToSet(x.events) /\ IsQueue(Tail(x.events))
      /\ ToSet(Tail(x.events)) \subseteq ToSet(x.events)
  BY <1>1, Dequeueing DEF Queued
<1>4. Adds(x, y)
  BY <1>1, <1>2, <1>3 DEF Adds, Queued
<1>5. EventOK(x, Head(x.events))
  BY <1>1, <1>3 DEF Queued
<1>6. \A s : SiteOK(x, s) => SiteOK(y, s)
  BY <1>2 DEF SiteOK, inMap
<1>7. EventOK(y, Head(x.events))
  BY <1>5, <1>6 DEF EventOK
<1> QED
  BY <1>4, <1>7, AddsStable

\* What is posted to the GUI thread is handled.
LEMMA EventHandled ==
    ASSUME NEW x, Stable(x), NEW e, EventOK(x, e),
           NEW y, y = handleEvent(x, e)
    PROVE  Stable(y)
<1> DEFINE v == x.visible
<1>1. /\ Well(x, v, NoTab) /\ v = x.visible /\ v \in TabIds
      /\ x.m.active \in DOMAIN x.m.tabs /\ DOMAIN x = Fields
  BY StableFacts DEF Well
<1>2. e.t \in TabIds
  BY DEF EventOK
<1>3. CASE e.e = "activate"
  <2>1. y = activateStableTab(x, e.t)
    BY <1>3 DEF handleEvent
  <2>2. CASE e.t = activeId(x.m)
    BY <1>1, <2>1, <2>2, Activated
  <2>3. CASE e.t # activeId(x.m)
    BY <2>1, <2>3, NotActivated
  <2> QED
    BY <2>2, <2>3
<1>4. CASE e.e = "retired"
  <2>1. y = [x EXCEPT !.retiring = @ \ {e.t}, !.rt[e.t] = NoRuntime]
    BY <1>4 DEF handleEvent
  <2>2. Beside(x, y)
    BY <1>1, <2>1 DEF Beside, Leaves, Fields, EmptyWindow
  <2> QED
    BY <2>2, BesideStable
<1>5. ASSUME \/ y = x
             \/ \E nav : y = showTrustedErrorForNavigation(x, e.t, nav)
             \/ \E l : y = completeLaunch(x, e.t, l)
             \/ \E l : y = refuseAttach(x, e.t, l)
             \/ \E web : y = retireFailedWeb(x, e.t, web)
             \/ \E r : contains(x.m, e.t) /\ y = SetSurface(x, e.t, r)
      PROVE  Stable(y)
  <2> HIDE DEF v
  <2>1. Well(y, v, NoTab) /\ Same(x, y)
    BY <1>1, <1>2, <1>5, SameItself, NavigationErrorOK, CompleteOK, RefuseOK,
       RetireWebOK, SetSurfaceOK
  <2> QED
    BY <1>1, <2>1, StableSame
<1>6. CASE e.e = "rejected"
  <2>1. y = x \/ y = showTrustedErrorForNavigation(x, e.t, e.nav)
    BY <1>6 DEF handleEvent
  <2> QED
    BY <1>5, <2>1
<1>7. CASE e.e = "actions"
  <2>1. y = handleAppRuntimeResult(x, e.t, e.actions)
    BY <1>7 DEF handleEvent
  <2>2. /\ e.actions[1].kind \in {"Launch", "Stop", "Crash"}
        /\ ~(Len(e.actions) < 2) =>
             e.actions[2].kind \in {"Launch", "Stop", "Crash"}
    BY <1>7 DEF EventOK
  <2> HIDE DEF v
  <2>3. Well(y, v, NoTab) /\ Same(x, y)
    BY <1>1, <1>2, <2>1, <2>2, ResultOK
  <2> QED
    BY <1>1, <2>3, StableSame
<1>8. CASE e.e = "admitted"
  <2>1. y = completeLaunch(x, e.t, e.l)
    BY <1>8 DEF handleEvent
  <2> QED
    BY <1>5, <2>1
<1>9. CASE e.e = "refused"
  <2>1. y = x \/ y = refuseAttach(x, e.t, e.l)
    BY <1>9 DEF handleEvent
  <2> QED
    BY <1>5, <2>1
<1>10. CASE e.e = "installed"
  <2>1. SiteOK(x, e.site) /\ e.site.t \in TabIds
    BY <1>10 DEF EventOK, SiteOK
  <2>2. y = siteInstalled(x, e.site) \/ y = siteFails(x, e.site)
    BY <1>10 DEF handleEvent
  <2> HIDE DEF v
  <2>3. Well(y, v, NoTab) /\ Same(x, y)
    BY <1>1, <2>1, <2>2, SiteInstalledOK, SiteFailsOK
  <2> QED
    BY <1>1, <2>3, StableSame
<1>11. CASE e.e = "page"
  <2>1. \/ y = x
        \/ /\ inMap(x, e.t)
           /\ y = SetSurface(x, e.t, handleLoadingChange(x.ctl[e.t].ws, e))
    BY <1>11 DEF handleEvent
  <2>2. inMap(x, e.t) <=> contains(x.m, e.t)
    BY <1>1, <1>2, Mapped
  <2> QED
    BY <1>5, <2>1, <2>2
<1>12. CASE e.e = "renderer"
  <2>1. y = retireFailedWeb(x, e.t, e.web)
    BY <1>12 DEF handleEvent
  <2> QED
    BY <1>5, <2>1
<1> QED
  BY <1>3, <1>4, <1>6, <1>7, <1>8, <1>9, <1>10, <1>11, <1>12 DEF EventOK

\* What a job of the coordinator posts.
EventsOK(x, q) == IsQueue(q) /\ \A e \in ToSet(q) : EventOK(x, e)

\* No event, ...
LEMMA NoEvents == ASSUME NEW x PROVE EventsOK(x, << >>)
BY DEF EventsOK, IsQueue, ToSet

\* ... one, ...
LEMMA OneEvent ==
    ASSUME NEW x, NEW e, EventOK(x, e) PROVE EventsOK(x, <<e>>)
<1> DEFINE q == <<e>>
<1>1. q = Append(<< >>, e)
  OBVIOUS
<1>2. IsQueue(<< >>) /\ \A f : f \notin ToSet(<< >>)
  BY DEF IsQueue, ToSet
<1> HIDE DEF q
<1>3. IsQueue(q) /\ ToSet(q) \subseteq ToSet(<< >>) \cup {e}
  BY <1>1, <1>2, Queueing
<1>4. EventsOK(x, q)
  BY <1>2, <1>3 DEF EventsOK
<1> QED
  BY <1>4 DEF q

\* ... the coordinator's actions, ...
LEMMA ActionsOK ==
    ASSUME NEW x, NEW t \in TabIds, NEW actions,
           actions[1].kind \in {"Launch", "Stop", "Crash"},
           ~(Len(actions) < 2) =>
             actions[2].kind \in {"Launch", "Stop", "Crash"}
    PROVE  EventsOK(x, Actions(t, actions))
<1> DEFINE e == [e |-> "actions", t |-> t, actions |-> actions]
<1>1. EventOK(x, e)
  BY DEF EventOK
<1> HIDE DEF e
<1>2. EventsOK(x, <<e>>)
  BY <1>1, OneEvent
<1> QED
  BY <1>2 DEF Actions, e

\* ... and those of a launch are good.
LEMMA LaunchedOK ==
    ASSUME NEW x, NEW a, NEW job, job.t \in TabIds
    PROVE  EventsOK(x, launched(a, job).events)
<1> DEFINE b == StopAction(a.r)
           c == LaunchAction(epoch + 1, job.r, job.route, FALSE)
           q == IF a.open THEN <<b, c>> ELSE <<c>>
<1>1. launched(a, job).events = Actions(job.t, q)
  BY DEF launched
<1>2. c.kind = "Launch" /\ b.kind = "Stop"
  BY DEF LaunchAction, StopAction
<1> HIDE DEF b, c
<1>3. a.open => q[1] = b /\ q[2] = c
  OBVIOUS
<1>4. ~a.open => q[1] = c /\ Len(q) = 1
  OBVIOUS
<1> HIDE DEF q
<1>5. /\ q[1].kind \in {"Launch", "Stop", "Crash"}
      /\ ~(Len(q) < 2) => q[2].kind \in {"Launch", "Stop", "Crash"}
  BY <1>2, <1>3, <1>4
<1>6. EventsOK(x, Actions(job.t, q))
  BY <1>5, ActionsOK
<1> QED
  BY <1>1, <1>6

\* Whatever the coordinator answers is good.
LEMMA CoordinatorOK ==
    ASSUME NEW x, NEW a, NEW job, JobOK(x, job),
           NEW r \in coordinatorJob(a, job)
    PROVE  EventsOK(x, r.events)
<1>1. job.t \in TabIds
  BY DEF JobOK
<1>2. CASE job.j = "launch"
  <2> DEFINE e == [e |-> "rejected", t |-> job.t, nav |-> job.nav]
  <2>1. EventOK(x, e)
    BY <1>1 DEF EventOK
  <2> DEFINE no(b) == Answer(b, <<e>>)
             fails(b) == [no(b) EXCEPT !.faults = 1]
  <2>2. \A b : no(b).events = <<e>> /\ fails(b).events = <<e>>
    BY DEF Answer
  <2>3. \A b : Answer(b, << >>).events = << >>
    BY DEF Answer
  <2>4. \/ \E b : r = no(b) \/ r = fails(b) \/ r = Answer(b, << >>)
        \/ r = launched(a, job)
    BY <1>2 DEF coordinatorJob, requestTabLaunch
  <2> HIDE DEF e, no, fails
  <2>5. r.events \in {<<e>>, << >>, launched(a, job).events}
    BY <2>2, <2>3, <2>4
  <2> QED
    BY <1>1, <2>1, <2>5, NoEvents, OneEvent, LaunchedOK
<1>3. CASE job.j = "close"
  <2> DEFINE q == <<StopAction(a.r)>>
  <2>1. r.events \in {<< >>, Actions(job.t, q)}
    BY <1>3 DEF coordinatorJob, Answer
  <2>2. q[1].kind = "Stop" /\ Len(q) = 1
    BY DEF StopAction
  <2> HIDE DEF q
  <2>3. EventsOK(x, Actions(job.t, q))
    BY <1>1, <2>2, ActionsOK
  <2> QED
    BY <2>1, <2>3, NoEvents
<1>4. CASE job.j = "cancel"
  BY <1>4, NoEvents DEF coordinatorJob, Answer
<1>5. CASE job.j = "exited"
  <2> DEFINE p == <<StopAction(a.r), CrashAction(a.r)>>
             q == <<LaunchAction(epoch + 1, a.r, a.route, TRUE)>>
  <2>1. r.events \in {<< >>, Actions(job.t, p), Actions(job.t, q)}
    BY <1>5 DEF coordinatorJob, workerExited, Answer
  <2>2. p[1].kind = "Stop" /\ p[2].kind = "Crash"
    BY DEF StopAction, CrashAction
  <2>3. q[1].kind = "Launch" /\ Len(q) = 1
    BY DEF LaunchAction
  <2> HIDE DEF p, q
  <2>4. EventsOK(x, Actions(job.t, p)) /\ EventsOK(x, Actions(job.t, q))
    BY <1>1, <2>2, <2>3, ActionsOK
  <2> QED
    BY <2>1, <2>4, NoEvents
<1>6. CASE job.j = "install"
  <2> DEFINE e(done) == [e |-> "installed", t |-> job.t, site |-> job.site,
                         done |-> done]
  <2>1. SiteOK(x, job.site)
    BY <1>6 DEF JobOK
  <2>2. \A done \in BOOLEAN : EventOK(x, e(done))
    BY <1>1, <2>1 DEF EventOK
  <2> DEFINE answer(done) == Answer(a, <<e(done)>>)
             fails == [answer(FALSE) EXCEPT !.faults = 1]
  <2>3. /\ answer(TRUE).events = <<e(TRUE)>>
        /\ fails.events = <<e(FALSE)>>
    BY DEF Answer
  <2>4. r \in {answer(TRUE), fails}
    BY <1>6 DEF coordinatorJob, installSitePackage
  <2>5. EventOK(x, e(TRUE)) /\ EventOK(x, e(FALSE))
    BY <2>2
  <2> HIDE DEF e, answer, fails
  <2>6. r.events = <<e(TRUE)>> \/ r.events = <<e(FALSE)>>
    BY <2>3, <2>4
  <2> QED
    BY <2>5, <2>6, OneEvent
<1>7. CASE job.j = "admit"
  <2> DEFINE e == [e |-> "admitted", t |-> job.t, l |-> job.l]
             f == [e |-> "refused", t |-> job.t, l |-> job.l]
  <2>1. EventOK(x, e) /\ EventOK(x, f)
    BY <1>1 DEF EventOK
  <2>2. r.events \in {<<e>>, <<f>>}
    BY <1>7 DEF coordinatorJob, Answer
  <2> HIDE DEF e, f
  <2> QED
    BY <2>1, <2>2, OneEvent
<1> QED
  BY <1>2, <1>3, <1>4, <1>5, <1>6, <1>7 DEF JobOK

\* The coordinator takes a job and answers.
LEMMA Answered ==
    ASSUME NEW x, Stable(x), x.jobs # << >>, NEW q, EventsOK(x, q),
           NEW y, y = [x EXCEPT !.jobs = Tail(@), !.events = @ \o q]
    PROVE  Stable(y)
<1>1. DOMAIN x = Fields /\ Queued(x)
  BY DEF Stable, Well
<1>2. /\ DOMAIN y = DOMAIN x /\ y.m = x.m /\ y.ctl = x.ctl
      /\ y.visible = x.visible /\ y.events = x.events \o q
      /\ y.jobs = Tail(x.jobs) /\ y.sites = x.sites
  BY <1>1 DEF Fields, EmptyWindow
<1>3. /\ IsQueue(Tail(x.jobs)) /\ ToSet(Tail(x.jobs)) \subseteq ToSet(x.jobs)
  BY <1>1, Dequeueing DEF Queued
<1>4. /\ IsQueue(y.events)
      /\ ToSet(y.events) \subseteq ToSet(x.events) \cup ToSet(q)
  BY <1>1, <1>2, Queues DEF Queued, EventsOK
<1>5. Adds(x, y)
  BY <1>1, <1>2, <1>3, <1>4 DEF Adds, Queued, EventsOK
<1> QED
  BY <1>5, AddsStable

-----------------------------------------------------------------------------
\* The pages and the Workers act.

\* A page reports.
LEMMA NotifyOK ==
    ASSUME NEW x, Stable(x), NEW t \in TabIds, NEW status, NEW url,
           NEW y, y = Notify(x, t, status, url)
    PROVE  Stable(y)
<1> DEFINE e == [e |-> "page", t |-> t, web |-> x.ctl[t].web,
                 status |-> status, url |-> url, nav |-> x.ctl[t].ws.nav]
           v == x.visible
<1>1. EventOK(x, e) /\ y = Post(x, e)
  BY DEF EventOK, Notify
<1>2. Well(x, v, NoTab)
  BY StableFacts
<1> HIDE DEF e, v
<1>3. Well(y, v, NoTab) /\ Same(x, y)
  BY <1>1, <1>2, PostOK
<1> QED
  BY <1>3, StableSame DEF v

\* A page that is live changes.
LEMMA PageChanged ==
    ASSUME NEW x, Stable(x), NEW t \in TabIds, inMap(x, t), NEW y,
           \/ \E s : y = [x EXCEPT !.ctl[t].ws = s]
           \/ \E r : y = SetSurface(x, t, r)
    PROVE  Stable(y) /\ inMap(y, t)
<1> DEFINE v == x.visible
<1>1. Well(x, v, NoTab)
  BY StableFacts
<1> HIDE DEF v
<1>2. contains(x.m, t)
  BY <1>1, Mapped
<1>3. Well(y, v, NoTab) /\ Same(x, y)
  BY <1>1, <1>2, SurfaceSet, SetSurfaceOK
<1>4. inMap(y, t)
  BY <1>2, <1>3, Mapped DEF Same, SameIds
<1> QED
  BY <1>3, <1>4, StableSame DEF v

\* The renderer of the page that counts fails.
LEMMA FailedSet ==
    ASSUME NEW x, Stable(x), NEW t \in TabIds, webIsCurrent(x, t),
           NEW y, y = [x EXCEPT !.ctl[t].failed = TRUE]
    PROVE  Stable(y) /\ inMap(y, t)
<1> DEFINE v == x.visible
           b == x.ctl[t]
           c == [b EXCEPT !.failed = TRUE]
<1>1. Well(x, v, NoTab)
  BY StableFacts
<1>2. inMap(x, t) /\ b.web # 0 /\ b.webInc = b.inc
  BY DEF webIsCurrent
<1>3. t # NoTab
  BY TabsAssumption, FS_CardinalityType DEF NoTab
<1> HIDE DEF v
<1>4. contains(x.m, t)
  BY <1>1, <1>2, Mapped
<1>5. /\ IsCtl(b) /\ Agrees(TabOf(x.m, t), b) /\ (b.active <=> t = v)
      /\ Settled(TabOf(x.m, t), b)
      /\ DOMAIN x = Fields /\ DOMAIN x.ctl = TabIds /\ IsStrip(x.m)
  BY <1>1, <1>3, <1>4, TabFacts
<1> DEFINE z == SetCtl(x, t, c)
<1>6. y = z
  BY <1>5 DEF SetCtl, Fields, EmptyWindow
<1> HIDE DEF b, z
<1>7. /\ IsCtl(c) /\ c.inc = b.inc /\ c.web = b.web /\ c.webInc = b.webInc
      /\ c.pkg = b.pkg /\ c.life = b.life
      /\ c.active = b.active /\ c.kind = b.kind
  BY <1>5 DEF IsCtl, NoController
<1> HIDE DEF c
<1>8. Fits(x, x, t, v, NoTab, c)
  BY <1>2, <1>5, <1>7 DEF Fits, IsCtl, Agrees, Settled, Placed, PageCounts, b
<1>9. Well(z, v, NoTab) /\ Same(x, z) /\ inMap(z, t)
  BY <1>1, <1>4, <1>8, SetCtlOK DEF z
<1> QED
  BY <1>6, <1>9, StableSame DEF v

\* What a page does.
LEMMA PageActs ==
    ASSUME Stable(w), NEW t \in TabIds,
           \/ \E own \in BOOLEAN : PageStarts(t, own)
           \/ \E status : PageEnds(t, status)
           \/ ReplacedLoadEnds(t) \/ handleDeniedMainFrameNavigation(t)
    PROVE  Stable(w')
<1>1. inMap(w, t)
  BY DEF PageStarts, PageEnds, ReplacedLoadEnds,
         handleDeniedMainFrameNavigation, Page
<1>2. ASSUME NEW s, NEW url, NEW status PROVE Stable(observed(t, s, url, status))
  <2> DEFINE x == [w EXCEPT !.ctl[t].ws = s]
             z == [x EXCEPT !.ctl[t].ws = observeEnd(s)]
  <2>1. Stable(x) /\ inMap(x, t)
    BY <1>1, PageChanged
  <2> HIDE DEF x
  <2>2. Stable(z)
    BY <2>1, PageChanged
  <2> HIDE DEF z
  <2>3. Stable(Notify(z, t, status, url))
    BY <2>2, NotifyOK
  <2> QED
    BY <2>1, <2>3 DEF observed, x, z
<1>3. ASSUME NEW own \in BOOLEAN, PageStarts(t, own) PROVE Stable(w')
  <2> DEFINE page == [ws(t).page EXCEPT !.load = "started", !.old = "none"]
             r == observeStart([ws(t) EXCEPT !.page = page])
             x == SetSurface(w, t, r)
  <2>1. w' = Touch(Notify(x, t, "Started", page.url))
    BY <1>3 DEF PageStarts, Environment, Gui
  <2> HIDE DEF page, r
  <2>2. Stable(x)
    BY <1>1, PageChanged
  <2> HIDE DEF x
  <2>3. Stable(Notify(x, t, "Started", page.url))
    BY <2>2, NotifyOK
  <2> QED
    BY <2>1, <2>3, TouchOK
<1>4. ASSUME NEW status, PageEnds(t, status) PROVE Stable(w')
  <2>1. \E s, url : w' = Touch(observed(t, s, url, status))
    BY <1>4 DEF PageEnds, Environment, Gui
  <2> QED
    BY <1>2, <2>1, TouchOK
<1>5. CASE ReplacedLoadEnds(t)
  <2>1. \E s, url : w' = Touch(observed(t, s, url, "Stopped"))
    BY <1>5 DEF ReplacedLoadEnds, Environment, Gui
  <2> QED
    BY <1>2, <2>1, TouchOK
<1>6. CASE handleDeniedMainFrameNavigation(t)
  <2>1. w' = Touch(Notify(w, t, "Denied", "entry"))
    BY <1>6 DEF handleDeniedMainFrameNavigation, Environment, Gui
  <2>2. Stable(Notify(w, t, "Denied", "entry"))
    BY NotifyOK
  <2> QED
    BY <2>1, <2>2, TouchOK
<1> QED
  BY <1>3, <1>4, <1>5, <1>6

\* A renderer fails.
LEMMA RendererActs ==
    ASSUME Stable(w), NEW t \in TabIds, RendererFails(t) PROVE Stable(w')
<1> DEFINE f == [w EXCEPT !.ctl[t].failed = TRUE]
           e == [e |-> "renderer", t |-> t, web |-> w.ctl[t].web]
           x == IF webIsCurrent(w, t) THEN Post(f, e) ELSE w
           r == loadTrustedError(ws(t))
<1>1. w' = Touch(SetSurface(x, t, r)) /\ inMap(w, t)
  BY DEF RendererFails, Environment, Gui, Page
<1> HIDE DEF r
<1>2. Stable(x) /\ inMap(x, t)
  <2>1. CASE webIsCurrent(w, t)
    <3> DEFINE v == f.visible
               p == Post(f, e)
    <3>1. Stable(f) /\ inMap(f, t)
      BY <2>1, FailedSet
    <3> HIDE DEF f
    <3>2. EventOK(f, e)
      BY DEF EventOK
    <3> HIDE DEF e
    <3>3. Well(f, v, NoTab)
      BY <3>1, StableFacts
    <3> HIDE DEF v
    <3>4. Well(p, v, NoTab) /\ Same(f, p) /\ p.ctl = f.ctl
      BY <3>2, <3>3, PostOK
    <3>5. x = p
      BY <2>1
    <3> HIDE DEF p, x
    <3> QED
      BY <3>1, <3>4, <3>5, StableSame DEF inMap, v
  <2>2. CASE ~webIsCurrent(w, t)
    BY <1>1, <2>2
  <2> QED
    BY <2>1, <2>2
<1> HIDE DEF x
<1>3. Stable(SetSurface(x, t, r))
  BY <1>2, PageChanged
<1> QED
  BY <1>1, <1>3, TouchOK

\* What a Worker does.
LEMMA WorkerActs ==
    ASSUME Stable(w), NEW t \in TabIds,
           \/ Handshake(t) \/ WorkerGone(t) \/ WorkerCrashes(t)
           \/ RouteLoadAcknowledged(t)
    PROVE  Stable(w')
<1> DEFINE v == w.visible
<1>1. Well(w, v, NoTab) /\ v = w.visible /\ DOMAIN w = Fields
  BY StableFacts DEF Well
<1> HIDE DEF v
<1>2. CASE Handshake(t)
  <2> DEFINE x == [w EXCEPT !.rt[t].asked = TRUE]
             job == [j |-> "admit", t |-> t, l |-> w.rt[t].proc]
  <2>1. w' = Touch(Enqueue(x, job))
    BY <1>2 DEF Handshake, Environment, Gui
  <2>2. Beside(w, x)
    BY <1>1 DEF Beside, Leaves, Fields, EmptyWindow
  <2>3. JobOK(x, job)
    BY PlainJob
  <2> HIDE DEF x, job
  <2>4. Well(x, v, NoTab) /\ Same(w, x)
    BY <1>1, <2>2, BesideOK
  <2>5. Well(Enqueue(x, job), v, NoTab) /\ Same(x, Enqueue(x, job))
    BY <2>3, <2>4, EnqueueOK
  <2>6. Stable(Enqueue(x, job))
    BY <1>1, <2>4, <2>5, SameTwice, StableSame
  <2> QED
    BY <2>1, <2>6, TouchOK
<1>3. CASE WorkerGone(t) \/ WorkerCrashes(t)
  <2> DEFINE y == processGone(w, t)
  <2>1. w' = Touch(y)
    BY <1>3 DEF WorkerGone, WorkerCrashes, Environment, Gui
  <2>2. Well(y, v, NoTab) /\ Same(w, y)
    BY <1>1, ProcessGoneOK
  <2> HIDE DEF y
  <2>3. Stable(y)
    BY <1>1, <2>2, StableSame
  <2> QED
    BY <2>1, <2>3, TouchOK
<1>4. CASE RouteLoadAcknowledged(t)
  <2> DEFINE x == [w EXCEPT !.rt[t].ack = FALSE]
             y == acknowledged(x, t)
  <2>1. w' = Touch(y)
    BY <1>4 DEF RouteLoadAcknowledged, Environment, Gui
  <2>2. Beside(w, x)
    BY <1>1 DEF Beside, Leaves, Fields, EmptyWindow
  <2> HIDE DEF x
  <2>3. Well(x, v, NoTab) /\ Same(w, x)
    BY <1>1, <2>2, BesideOK
  <2>4. y \in {x, setLoadState(x, t, FALSE)}
    BY DEF acknowledged
  <2> HIDE DEF y
  <2>5. Well(y, v, NoTab) /\ Same(x, y)
    BY <2>3, <2>4, SameItself, LoadStateOK
  <2>6. Stable(y)
    BY <1>1, <2>3, <2>5, SameTwice, StableSame
  <2> QED
    BY <2>1, <2>6, TouchOK
<1> QED
  BY <1>2, <1>3, <1>4

-----------------------------------------------------------------------------
\* The user acts.

\* What the active tab is.
LEMMA ActiveTab ==
    ASSUME Stable(w), NEW v, v = w.visible
    PROVE  /\ Well(w, v, NoTab) /\ active = v /\ v \in TabIds
           /\ contains(w.m, v) /\ Fronts(w, v, v)
           /\ TabOf(w.m, v).snap \in Snapshots
<1>1. /\ Well(w, v, NoTab) /\ v \in TabIds /\ v = activeId(w.m)
      /\ contains(w.m, v) /\ IsStrip(w.m) /\ Fronts(w, v, v)
  BY StableFacts
<1>2. TabOf(w.m, v) \in Tabs
  BY <1>1, StripIndex
<1>3. TabOf(w.m, v).snap \in Snapshots
  BY <1>2 DEF Tabs, Snaps
<1> QED
  BY <1>1, <1>3 DEF active

\* A command that leaves the window stable.
LEMMA CommandLeaves ==
    ASSUME NEW x, Stable(x), Command(x) PROVE Stable(w')
BY TouchOK DEF Command, Gui

\* The commands for the active tab, ...
LEMMA TabCommands ==
    ASSUME Stable(w), visits \subseteq Addresses,
           \/ \E address \in visits : Navigate(address)
           \/ GoBack \/ GoForward \/ Reload \/ Stop
    PROVE  Stable(w')
<1> DEFINE v == w.visible
           s == TabOf(w.m, v).snap
<1>1. /\ Well(w, v, NoTab) /\ active = v /\ v \in TabIds
      /\ contains(w.m, v) /\ Fronts(w, v, v) /\ s \in Snapshots
      /\ v = w.visible
  BY ActiveTab
<1>2. activeSnap = s
  BY <1>1 DEF activeSnap, snapshotOf, TabOf
<1>3. s.at \in Nat /\ s.at \in 1 .. Len(s.history) /\ Len(s.history) \in Nat
  <2>1. s.history \in Seq(Addresses) /\ s.at \in DOMAIN s.history /\ s.at \in Nat
    BY <1>1 DEF Snapshots
  <2> QED
    BY <2>1
<1>4. DOMAIN s.history = 1 .. Len(s.history)
  BY <1>1 DEF Snapshots
<1> HIDE DEF v
<1>5. ASSUME NEW y, Command(y), Well(y, v, NoTab), Alike(w, y)
      PROVE  Stable(w')
  BY <1>1, <1>5, StableAlike, CommandLeaves
<1>6. ASSUME NEW y, Command(y), Well(y, v, NoTab), Same(w, y)
      PROVE  Stable(w')
  BY <1>1, <1>6, StableSame, CommandLeaves
<1>7. ASSUME NEW address \in visits, Navigate(address) PROVE Stable(w')
  <2> DEFINE y == navigateTab(w, v, address)
  <2>1. Command(y)
    BY <1>1, <1>7 DEF Navigate
  <2>2. address \in Addresses
    OBVIOUS
  <2>3. Well(y, v, NoTab) /\ Alike(w, y)
    BY <1>1, <2>2, NavigateOK
  <2> HIDE DEF y
  <2> QED
    BY <1>5, <2>1, <2>3
<1>8. ASSUME NEW n \in DOMAIN s.history, Command(traverseHistory(w, active, n))
      PROVE  Stable(w')
  <2> DEFINE y == traverseHistory(w, v, n)
  <2>1. Command(y)
    BY <1>1, <1>8
  <2>2. n \in DOMAIN TabOf(w.m, v).snap.history
    OBVIOUS
  <2>3. Well(y, v, NoTab) /\ Alike(w, y)
    BY <1>1, <2>2, TraverseOK
  <2> HIDE DEF y
  <2> QED
    BY <1>5, <2>1, <2>3
<1> HIDE DEF s
<1>9. CASE GoBack
  <2>1. s.at > 1 /\ Command(traverseHistory(w, active, s.at - 1))
    BY <1>2, <1>9 DEF GoBack
  <2>2. s.at - 1 \in DOMAIN s.history
    BY <1>3, <1>4, <2>1
  <2> QED
    BY <1>8, <2>1, <2>2
<1>10. CASE GoForward
  <2>1. /\ s.at < Len(s.history)
        /\ Command(traverseHistory(w, active, s.at + 1))
    BY <1>2, <1>10 DEF GoForward
  <2>2. s.at + 1 \in DOMAIN s.history
    BY <1>3, <1>4, <2>1
  <2> QED
    BY <1>8, <2>1, <2>2
<1>11. CASE Reload
  <2> DEFINE y == startCurrentDescriptor(w, v, TRUE)
  <2>1. Command(y)
    BY <1>1, <1>11 DEF Reload
  <2>2. Well(y, v, NoTab) /\ Same(w, y)
    BY <1>1, StartCurrentOK
  <2> HIDE DEF y
  <2> QED
    BY <1>6, <2>1, <2>2
<1>12. CASE Stop
  <2> DEFINE y == stopCommand(w, v)
  <2>1. Command(y)
    BY <1>1, <1>12 DEF Stop
  <2>2. Well(y, v, NoTab) /\ Same(w, y)
    BY <1>1, StopCommandOK
  <2> HIDE DEF y
  <2> QED
    BY <1>6, <2>1, <2>2
<1> QED
  BY <1>7, <1>9, <1>10, <1>11, <1>12

\* ... and those for the strip.
LEMMA StripCommands ==
    ASSUME Stable(w),
           \/ OpenTab \/ ReopenTab
           \/ \E t \in TabIds : CloseTab(t)
           \/ \E i, j \in 1 .. MaxOpenTabs : SelectTab(i) \/ MoveTab(i, j)
    PROVE  Stable(w')
<1>1. CASE OpenTab
  <2> DEFINE y == insertTab(w, createTab(w.m))
  <2>1. Stable(y)
    BY <1>1, OpenOK DEF OpenTab
  <2>2. Command(y)
    BY <1>1 DEF OpenTab
  <2> HIDE DEF y
  <2> QED
    BY <2>1, <2>2, CommandLeaves
<1>2. CASE ReopenTab
  <2> DEFINE y == insertTab(w, reopenMostRecentlyClosed(w.m))
  <2>1. Stable(y)
    BY <1>2, ReopenOK DEF ReopenTab
  <2>2. Command(y)
    BY <1>2 DEF ReopenTab
  <2> HIDE DEF y
  <2> QED
    BY <2>1, <2>2, CommandLeaves
<1>3. ASSUME NEW t \in TabIds, CloseTab(t) PROVE Stable(w')
  <2> DEFINE y == closeStableTab(w, t)
  <2>1. Stable(y)
    BY <1>3, CloseOK DEF CloseTab
  <2>2. Command(y)
    BY <1>3 DEF CloseTab
  <2> HIDE DEF y
  <2> QED
    BY <2>1, <2>2, CommandLeaves
<1>4. ASSUME NEW i, SelectTab(i) PROVE Stable(w')
  <2> DEFINE y == selectTab(w, i)
  <2>1. Stable(y)
    BY <1>4, SelectOK DEF SelectTab
  <2>2. Command(y)
    BY <1>4 DEF SelectTab
  <2> HIDE DEF y
  <2> QED
    BY <2>1, <2>2, CommandLeaves
<1>5. ASSUME NEW i, NEW j, MoveTab(i, j) PROVE Stable(w')
  <2> DEFINE y == moveStableTab(w, i, j)
  <2>1. i \in DOMAIN w.m.tabs /\ j \in DOMAIN w.m.tabs /\ Command(y)
    BY <1>5 DEF MoveTab
  <2>2. Stable(y)
    BY <2>1, MoveOK
  <2> HIDE DEF y
  <2> QED
    BY <2>1, <2>2, CommandLeaves
<1> QED
  BY <1>1, <1>2, <1>3, <1>4, <1>5

\* A Worker asks for a route, or to go back to the gallery.
LEMMA WorkerCommands ==
    ASSUME Stable(w), visits \subseteq Addresses, NEW t \in TabIds,
           \/ \E address \in visits : WorkerNavigates(t, address)
           \/ WorkerGoesHome(t)
    PROVE  Stable(w')
<1> DEFINE v == w.visible
<1>1. Well(w, v, NoTab) /\ v = w.visible /\ Fronts(w, t, v)
  BY StableFacts
<1> HIDE DEF v
<1>2. inMap(w, t)
  BY DEF WorkerNavigates, WorkerGoesHome
<1>3. contains(w.m, t)
  BY <1>1, <1>2, Mapped
<1>4. ASSUME NEW y, Command(y), Well(y, v, NoTab), Alike(w, y)
      PROVE  Stable(w')
  BY <1>1, <1>4, StableAlike, CommandLeaves
<1>5. ASSUME NEW address \in visits, WorkerNavigates(t, address)
      PROVE  Stable(w')
  <2> DEFINE y == navigateFromWorker(w, t, address)
  <2>1. /\ Command(y) /\ w.ctl[t].kind = "worker" /\ KindOf[address] = "app"
        /\ address \in Addresses
    BY <1>5 DEF WorkerNavigates
  <2>2. Well(y, v, NoTab) /\ Alike(w, y)
    BY <1>1, <1>3, <2>1, WorkerNavigatesOK
  <2> HIDE DEF y
  <2> QED
    BY <1>4, <2>1, <2>2
<1>6. CASE WorkerGoesHome(t)
  <2> DEFINE y == navigateTab(w, t, NewTab)
  <2>1. Command(y)
    BY <1>6 DEF WorkerGoesHome
  <2>2. NewTab \in Addresses
    BY TabsAssumption
  <2>3. Well(y, v, NoTab) /\ Alike(w, y)
    BY <1>1, <1>3, <2>2, NavigateOK
  <2> HIDE DEF y
  <2> QED
    BY <1>4, <2>1, <2>3
<1> QED
  BY <1>5, <1>6

\* A site's loader brings something.
LEMMA SiteActs ==
    ASSUME Stable(w), NEW site \in w.sites, SiteReplies(site)
    PROVE  Stable(w')
<1> DEFINE v == w.visible
           x == [w EXCEPT !.sites = @ \ {site}]
           next == [site EXCEPT !.step = "archive"]
           y == [x EXCEPT !.sites = @ \cup {next}]
<1>1. Well(w, v, NoTab) /\ v = w.visible /\ DOMAIN w = Fields
  BY StableFacts DEF Well
<1>2. Queued(w) /\ SiteOK(w, site)
  BY <1>1 DEF Well, Queued
<1>3. SiteOK(w, next)
  <2>1. next.t = site.t /\ next.nav = site.nav /\ DOMAIN next = DOMAIN site
    BY <1>2 DEF SiteOK
  <2> HIDE DEF next
  <2> QED
    BY <1>2, <2>1 DEF SiteOK
<1>4. /\ DOMAIN x = DOMAIN w /\ x.m = w.m /\ x.ctl = w.ctl
      /\ x.visible = w.visible /\ x.events = w.events /\ x.jobs = w.jobs
      /\ x.sites = w.sites \ {site}
  BY <1>1 DEF Fields, EmptyWindow
<1> HIDE DEF next, x
<1>5. /\ DOMAIN y = DOMAIN w /\ y.m = w.m /\ y.ctl = w.ctl
      /\ y.visible = w.visible /\ y.events = w.events /\ y.jobs = w.jobs
      /\ y.sites = (w.sites \ {site}) \cup {next}
  BY <1>1, <1>4 DEF Fields, EmptyWindow
<1> HIDE DEF v, y
<1>6. Adds(w, x) /\ Adds(w, y)
  BY <1>2, <1>3, <1>4, <1>5 DEF Adds, Queued
<1>7. Stable(x) /\ Stable(y)
  BY <1>6, AddsStable
<1>8. SiteOK(x, site) /\ site.t \in TabIds
  BY <1>2, <1>4 DEF SiteOK, inMap
<1>9. ASSUME NEW z, z = siteArrives(x, site) \/ z = siteFails(x, site)
      PROVE  Stable(z)
  <2>1. Well(x, x.visible, NoTab)
    BY <1>7, StableFacts
  <2>2. Well(z, x.visible, NoTab) /\ Same(x, z)
    BY <1>8, <1>9, <2>1, SiteArrivesOK, SiteFailsOK
  <2> QED
    BY <1>7, <2>2, StableSame
<1>10. \E z \in {y, siteArrives(x, site), siteFails(x, site)} : w' = Touch(z)
  BY DEF SiteReplies, Environment, Gui, x, y, next
<1>11. \A z \in {y, siteArrives(x, site), siteFails(x, site)} : Stable(z)
  BY <1>7, <1>9
<1> QED
  BY <1>10, <1>11, TouchOK

\* The GUI thread handles the next event.
LEMMA EventTakenUp == ASSUME Stable(w), GuiEvent PROVE Stable(w')
<1> DEFINE x == [w EXCEPT !.events = Tail(@)]
           y == handleEvent(x, Head(w.events))
<1>1. w.events # << >> /\ w' = Touch(y)
  BY DEF GuiEvent, Gui
<1>2. Stable(x) /\ EventOK(x, Head(w.events))
  BY <1>1, EventTaken
<1> HIDE DEF x
<1>3. Stable(y)
  BY <1>2, EventHandled
<1> HIDE DEF y
<1> QED
  BY <1>1, <1>3, TouchOK

\* The coordinator does the next job.
LEMMA JobTakenUp == ASSUME Stable(w), CoordinatorJob PROVE Stable(w')
<1> DEFINE job == Head(w.jobs)
           a == auth[job.t]
<1>1. PICK r \in coordinatorJob(a, job) :
        w' = Touch([w EXCEPT !.jobs = Tail(@), !.events = @ \o r.events])
  BY DEF CoordinatorJob, Gui
<1>2. w.jobs # << >>
  BY DEF CoordinatorJob
<1>3. JobOK(w, job)
  <2>1. Queued(w)
    BY DEF Stable, Well
  <2>2. job \in ToSet(w.jobs)
    BY <1>2, <2>1, Dequeueing DEF Queued
  <2> QED
    BY <2>1, <2>2 DEF Queued
<1> HIDE DEF job, a
<1>4. EventsOK(w, r.events)
  BY <1>3, CoordinatorOK
<1> DEFINE q == r.events
           y == [w EXCEPT !.jobs = Tail(@), !.events = @ \o q]
<1>5. w' = Touch(y) /\ EventsOK(w, q)
  BY <1>1, <1>4
<1> HIDE DEF q
<1>6. Stable(y)
  BY <1>2, <1>5, Answered
<1> HIDE DEF y
<1> QED
  BY <1>5, <1>6, TouchOK

\* Whatever happens to an open window, it goes on showing its active tab.
LEMMA WindowGoesOn ==
    ASSUME Stable(w), visits \subseteq Addresses,
           \/ UserCommand \/ GuiEvent \/ CoordinatorJob
           \/ \E t \in TabIds : OutsideEvent(t)
           \/ \E site \in w.sites : SiteReplies(site)
    PROVE  Stable(w')
<1>1. CASE UserCommand
  BY <1>1, TabCommands, StripCommands DEF UserCommand
<1>2. CASE GuiEvent
  BY <1>2, EventTakenUp
<1>3. CASE CoordinatorJob
  BY <1>3, JobTakenUp
<1>4. ASSUME NEW t \in TabIds, OutsideEvent(t) PROVE Stable(w')
  BY <1>4, WorkerActs, WorkerCommands, PageActs, RendererActs
     DEF OutsideEvent
<1>5. CASE \E site \in w.sites : SiteReplies(site)
  BY <1>5, SiteActs
<1> QED
  BY <1>1, <1>2, <1>3, <1>4, <1>5

-----------------------------------------------------------------------------
\* The session on the disk.

\* What the window saves is a session a start reads.
LEMMA SnapshotIsSession ==
    ASSUME NEW x, Stable(x) PROVE sessionSnapshot(x.m) \in Sessions
<1> DEFINE m == x.m
           S == [id : TabIds, snap : Snapshots]
           q == [i \in DOMAIN m.tabs |-> [id |-> m.tabs[i].id,
                                          snap |-> m.tabs[i].snap]]
           s == [tabs |-> q, active |-> activeId(m)]
<1>1. /\ IsStrip(m) /\ m.active \in DOMAIN m.tabs
      /\ activeId(m) = m.tabs[m.active].id /\ activeId(m) \in TabIds
  BY StableFacts, ActiveIsThere
<1> HIDE DEF m
<1>2. /\ m.tabs \in Seq(Tabs) /\ Unique(m.tabs) /\ Len(m.tabs) <= MaxOpenTabs
  BY <1>1 DEF IsStrip
<1>3. /\ Len(m.tabs) \in Nat /\ DOMAIN m.tabs = 1 .. Len(m.tabs)
      /\ \A i \in DOMAIN m.tabs : m.tabs[i] \in Tabs
  BY <1>2, LenProperties, ElementOfSeq
<1>4. \A i \in DOMAIN m.tabs : q[i] \in S /\ q[i].id = m.tabs[i].id
  BY <1>3 DEF Tabs, Snaps
<1>5. q \in [1 .. Len(m.tabs) -> S]
  BY <1>3, <1>4
<1> HIDE DEF S
<1>6. q \in Seq(S)
  <2>1. q \in UNION {[1 .. n -> S] : n \in Nat}
    BY <1>3, <1>5
  <2> QED
    BY <2>1, SeqDef
<1>7. DOMAIN q = DOMAIN m.tabs
  OBVIOUS
<1> HIDE DEF q
<1>8. Len(q) = Len(m.tabs)
  BY <1>3, <1>6, <1>7, LenProperties
<1>9. /\ s.tabs = q /\ s.active = m.tabs[m.active].id
      /\ s \in [tabs : Seq(S), active : TabIds]
  BY <1>1, <1>6
<1> HIDE DEF s
<1>10. s \in Sessions
  <2>1. Len(s.tabs) <= MaxOpenTabs
    BY <1>2, <1>8, <1>9
  <2>2. \E i \in DOMAIN s.tabs : s.tabs[i].id = s.active
    BY <1>1, <1>4, <1>7, <1>9
  <2>3. \A i, j \in DOMAIN s.tabs : s.tabs[i].id = s.tabs[j].id => i = j
    BY <1>2, <1>4, <1>7, <1>9 DEF Unique
  <2> QED
    BY <1>9, <2>1, <2>2, <2>3 DEF Sessions, S
<1> QED
  BY <1>10 DEF sessionSnapshot, s, q, m

\* The files of the state directory.
Leaf == {"session", "temp", "corrupt", "corruptTemp"}

\* What a file holds is of one sort.
LEMMA FilesDiffer ==
    /\ NoFile # Garbage /\ NoFile # Huge /\ Garbage # Huge
    /\ \A s : File(s) \notin {NoFile, Garbage, Huge} /\ File(s).snapshot = s
BY DEF NoFile, Garbage, Huge, File

\* A publication replaces its leaf, or leaves it, and touches no other but the
\* temporary one.
LEMMA Published ==
    ASSUME NEW d, DOMAIN d = Leaf, NEW leaf \in Leaf, NEW temporary \in Leaf,
           temporary # leaf, NEW bytes,
           NEW o \in publish(d, leaf, temporary, bytes)
    PROVE  /\ DOMAIN o.disk = Leaf /\ o.disk[leaf] \in {d[leaf], bytes}
           /\ o.status \in {"Saved", "Failed"}
           /\ o.status = "Saved" => o.disk[leaf] = bytes
           /\ \A other \in Leaf \ {leaf, temporary} : o.disk[other] = d[other]
<1> DEFINE cleared == [d EXCEPT ![temporary] = NoFile]
           new == [cleared EXCEPT ![leaf] = bytes]
           torn == [d EXCEPT ![temporary] = Torn]
           filled == [d EXCEPT ![temporary] = bytes]
           Left(e) == /\ DOMAIN e = Leaf /\ e[leaf] = d[leaf]
                      /\ \A other \in Leaf \ {leaf, temporary} :
                           e[other] = d[other]
<1>1. Left(d) /\ Left(cleared) /\ Left(torn) /\ Left(filled)
  OBVIOUS
<1>2. /\ DOMAIN new = Leaf /\ new[leaf] = bytes
      /\ \A other \in Leaf \ {leaf, temporary} : new[other] = d[other]
  OBVIOUS
<1>3. \/ o.status = "Failed" /\ o.disk \in {d, cleared, torn, filled}
      \/ o.status \in {"Saved", "Failed"} /\ o.disk = new
  <2>1. o \in {Fails(d), Fails(cleared), DiesAt(torn), DiesAt(filled),
               Outcome(new, "Saved", FALSE), Fails(new), DiesAt(new)}
    BY DEF publish, verifyPublishedBytes, removeSafeTemporary
  <2> HIDE DEF cleared, new, torn, filled
  <2>2. \A e : /\ Fails(e).disk = e /\ Fails(e).status = "Failed"
               /\ DiesAt(e).disk = e /\ DiesAt(e).status = "Failed"
               /\ Outcome(e, "Saved", FALSE).disk = e
               /\ Outcome(e, "Saved", FALSE).status = "Saved"
    BY DEF Fails, DiesAt, Outcome
  <2> QED
    BY <2>1, <2>2
<1> HIDE DEF cleared, new, torn, filled
<1>4. CASE o.status = "Failed" /\ o.disk \in {d, cleared, torn, filled}
  <2>1. Left(o.disk)
    BY <1>1, <1>4
  <2> QED
    BY <1>4, <2>1
<1>5. CASE o.status \in {"Saved", "Failed"} /\ o.disk = new
  BY <1>2, <1>5
<1> QED
  BY <1>3, <1>4, <1>5

\* A save.
LEMMA SaveOK ==
    ASSUME NEW d, DOMAIN d = Leaf, NEW s, NEW o \in save(d, s)
    PROVE  /\ DOMAIN o.disk = Leaf /\ o.disk.session \in {d.session, File(s)}
           /\ o.status = "Saved" => o.disk.session = File(s)
<1>1. CASE s.tabs = << >>
  BY <1>1 DEF save, Fails, Outcome
<1>2. CASE s.tabs # << >>
  <2>1. o \in publish(d, "session", "temp", File(s))
    BY <1>2 DEF save, saveAtomically
  <2> QED
    BY <2>1, Published DEF Leaf
<1> QED
  BY <1>1, <1>2

\* What a start does with bytes that are no session.
Preserved(d, o) ==
    /\ DOMAIN o.disk = Leaf /\ o.disk.session \in {d.session, NoFile}
    /\ o.status \in {"Corrupt", "IoFailure"}
    /\ o.status = "Corrupt" => o.disk.session = NoFile
\* preserveAndRemoveCorrupt.
LEMMA PreserveOK ==
    ASSUME NEW d, DOMAIN d = Leaf, NEW bytes \in BOOLEAN,
           NEW o \in preserveAndRemoveCorrupt(d, bytes)
    PROVE  /\ Preserved(d, o)
           /\ bytes /\ d.session # NoFile /\ o.disk.session # d.session =>
                o.disk.corrupt # NoFile
<1> DEFINE copy == bytes /\ d.corrupt = NoFile
           kept == IF copy THEN writeNewCorruptCopy(d)
                           ELSE {Outcome(d, "Saved", FALSE)}
<1>1. PICK k \in kept :
        IF k.status # "Saved" THEN o = [k EXCEPT !.status = "IoFailure"]
          ELSE o \in {Outcome([k.disk EXCEPT !.session = NoFile], "Corrupt", FALSE),
                      Outcome(k.disk, "IoFailure", FALSE),
                      Outcome([k.disk EXCEPT !.session = NoFile], "IoFailure", FALSE),
                      Outcome(k.disk, "IoFailure", TRUE),
                      Outcome([k.disk EXCEPT !.session = NoFile], "IoFailure", TRUE)}
  BY DEF preserveAndRemoveCorrupt
<1>2. /\ DOMAIN k.disk = Leaf /\ k.disk.session = d.session
      /\ k.status = "Saved" /\ copy => k.disk.corrupt = d.session
      /\ ~copy => k.disk.corrupt = d.corrupt /\ k.status = "Saved"
      /\ DOMAIN k = {"disk", "status", "dies"}
  <2>1. CASE copy
    <3>1. k \in publish(d, "corrupt", "corruptTemp", d.session)
      BY <2>1 DEF writeNewCorruptCopy
    <3>2. DOMAIN k = {"disk", "status", "dies"}
      BY <3>1 DEF publish, verifyPublishedBytes, Fails, DiesAt, Outcome
    <3> QED
      BY <2>1, <3>1, <3>2, Published DEF Leaf
  <2>2. CASE ~copy
    BY <2>2 DEF Outcome
  <2> QED
    BY <2>1, <2>2
<1> HIDE DEF kept
<1> DEFINE gone == [k.disk EXCEPT !.session = NoFile]
<1>3. /\ DOMAIN gone = Leaf /\ gone.session = NoFile
      /\ gone.corrupt = k.disk.corrupt
  BY <1>2 DEF Leaf
<1> HIDE DEF gone
<1>4. CASE k.status # "Saved"
  <2>1. o.disk = k.disk /\ o.status = "IoFailure"
    BY <1>1, <1>2, <1>4
  <2> QED
    BY <1>2, <2>1 DEF Preserved
<1>5. CASE k.status = "Saved"
  <2>1. \/ o.disk = k.disk /\ o.status = "IoFailure"
        \/ o.disk = gone /\ o.status \in {"Corrupt", "IoFailure"}
    BY <1>1, <1>5 DEF Outcome, gone
  <2>2. Preserved(d, o)
    BY <1>2, <1>3, <2>1 DEF Preserved
  <2>3. bytes /\ d.session # NoFile => k.disk.corrupt # NoFile
    BY <1>2, <1>5
  <2> QED
    BY <1>2, <1>3, <2>1, <2>2, <2>3
<1> QED
  BY <1>4, <1>5

\* A start reads the session, sets it aside, finds none, or fails.
LEMMA LoadOK ==
    ASSUME NEW d, DOMAIN d = Leaf, isSessionFile(d.session), NEW o \in load(d)
    PROVE  /\ DOMAIN o.disk = Leaf /\ o.disk.session \in {d.session, NoFile}
           /\ o.status \in {"IoFailure", "Loaded", "Corrupt", "Missing"}
           /\ o.status # "IoFailure" => o.disk.session # Garbage
           /\ d.session = Garbage /\ o.disk.session # Garbage =>
                o.disk.corrupt # NoFile
           /\ o.status = "Loaded" =>
                /\ d.session = File(d.session.snapshot)
                /\ d.session.snapshot \in Sessions
           /\ d.session \notin {NoFile, Garbage, Huge} =>
                /\ o.disk.session = d.session
                /\ o.status \in {"Loaded", "IoFailure"}
<1>1. CASE o = Outcome(d, "IoFailure", FALSE)
  BY <1>1 DEF Outcome
<1>2. CASE d.session = NoFile /\ o = Outcome(d, "Missing", FALSE)
  <2>1. o.disk = d /\ o.status = "Missing"
    BY <1>2 DEF Outcome
  <2> QED
    BY <1>2, <2>1, FilesDiffer
<1>3. CASE d.session = Huge /\ o \in preserveAndRemoveCorrupt(d, FALSE)
  <2>1. Preserved(d, o)
    BY <1>3, PreserveOK
  <2> QED
    BY <1>3, <2>1, FilesDiffer DEF Preserved
<1>4. CASE d.session = Garbage /\ o \in preserveAndRemoveCorrupt(d, TRUE)
  <2>1. /\ Preserved(d, o)
        /\ d.session # NoFile /\ o.disk.session # d.session =>
             o.disk.corrupt # NoFile
    BY <1>4, PreserveOK
  <2> QED
    BY <1>4, <2>1, FilesDiffer DEF Preserved
<1>5. CASE /\ d.session \notin {NoFile, Garbage, Huge}
           /\ o = Outcome(d, "Loaded", FALSE)
  <2>1. o.disk = d /\ o.status = "Loaded"
    BY <1>5 DEF Outcome
  <2>2. d.session = File(d.session.snapshot) /\ d.session.snapshot \in Sessions
    BY <1>5 DEF isSessionFile
  <2> QED
    BY <1>5, <2>1, <2>2
<1>6. \/ o = Outcome(d, "IoFailure", FALSE)
      \/ d.session = NoFile /\ o = Outcome(d, "Missing", FALSE)
      \/ d.session = Huge /\ o \in preserveAndRemoveCorrupt(d, FALSE)
      \/ d.session = Garbage /\ o \in preserveAndRemoveCorrupt(d, TRUE)
      \/ /\ d.session \notin {NoFile, Garbage, Huge}
         /\ o = Outcome(d, "Loaded", FALSE)
  BY DEF load
<1> QED
  BY <1>1, <1>2, <1>3, <1>4, <1>5, <1>6

-----------------------------------------------------------------------------
\* The inductive invariant: an open window is Stable, what the disk holds for
\* a session can be read or is known not to be one, and a run that may not
\* write is the one that could not read.
DiskInv == DOMAIN disk = Leaf /\ isSessionFile(disk.session)
\* When the session is written, and what a clean exit left is there.
LeftInv ==
    /\ life \in {"start", "running", "closing"}
    /\ saves \in BOOLEAN /\ left.on \in BOOLEAN
    /\ running /\ left.on => ~saves
    /\ life = "start" => ~saves
    /\ running /\ saves => disk.session # Garbage
    /\ left.on /\ ~running =>
         left.is = disk.session /\ left.is \notin {NoFile, Garbage, Huge}
\* The invariant.
WindowInv ==
    /\ running => Stable(w)
    /\ DiskInv /\ LeftInv /\ visits \subseteq Addresses

\* An event of the GUI thread, the coordinator or the world outside.
Handles ==
    \/ UserCommand \/ GuiEvent \/ CoordinatorJob
    \/ \E t \in TabIds : OutsideEvent(t)
    \/ \E site \in w.sites : SiteReplies(site)

\* A handler leaves the disk alone, ...
LEMMA HandlesLeave ==
    ASSUME Handles PROVE UNCHANGED <<disk, life, saves, left>>
<1> DEFINE F == UNCHANGED <<disk, life, saves, left>>
<1>1. \A x : Gui(x) => F
  BY DEF Gui
<1>2. \A x : Command(x) => F
  BY <1>1 DEF Command
<1>3. \A x, n : Environment(x, n) => F
  BY <1>1 DEF Environment
<1> HIDE DEF F
<1>4. ASSUME UserCommand PROVE F
  BY <1>2, <1>4 DEF UserCommand, Navigate, GoBack, GoForward, Reload, Stop,
     OpenTab, ReopenTab, CloseTab, SelectTab, MoveTab
<1>5. ASSUME GuiEvent \/ CoordinatorJob PROVE F
  BY <1>1, <1>5 DEF GuiEvent, CoordinatorJob
<1>6. ASSUME NEW t, OutsideEvent(t) PROVE F
  BY <1>2, <1>3, <1>6
     DEF OutsideEvent, Handshake, WorkerGone, WorkerCrashes,
         RouteLoadAcknowledged, WorkerNavigates, WorkerGoesHome, PageStarts,
         PageEnds, ReplacedLoadEnds, handleDeniedMainFrameNavigation,
         RendererFails
<1>7. ASSUME NEW site, SiteReplies(site) PROVE F
  BY <1>3, <1>7 DEF SiteReplies
<1>8. F
  BY <1>4, <1>5, <1>6, <1>7 DEF Handles
<1> QED
  BY <1>8 DEF F

\* ... and keeps the invariant.
LEMMA HandlesKeep ==
    ASSUME WindowInv, Handles, UNCHANGED visits PROVE WindowInv'
<1>1. UNCHANGED <<disk, life, saves, left, visits>>
  BY HandlesLeave
<1>2. running' => Stable(w)'
  <2>1. running => Stable(w')
    BY WindowGoesOn DEF WindowInv, Handles
  <2> QED
    BY <1>1, <2>1 DEF running, Stable, Well, TabOK, Queued, JobOK, EventOK,
       SiteOK, IsStrip
<1> QED
  BY <1>1, <1>2 DEF WindowInv, DiskInv, LeftInv, isSessionFile, running

\* A start: the session it reads is restored, and bytes that are no session
\* leave their place only for a copy.
LEMMA StartKeeps ==
    ASSUME WindowInv, Start, UNCHANGED visits
    PROVE  /\ WindowInv'
           /\ disk.session = Garbage /\ disk'.session # Garbage =>
                disk'.corrupt # NoFile
           /\ disk'.session = Garbage => disk.session = Garbage
           /\ life' = "running" /\ left.on /\ saves' =>
                sessionSnapshot(w'.m) = resolvedSession(left.is.snapshot)
<1>1. /\ DOMAIN disk = Leaf /\ isSessionFile(disk.session)
      /\ life = "start" /\ left.on \in BOOLEAN /\ visits \subseteq Addresses
      /\ left.on => /\ left.is = disk.session
                    /\ left.is \notin {NoFile, Garbage, Huge}
  BY DEF WindowInv, DiskInv, LeftInv, Start, running
<1>2. PICK o \in load(disk) :
        /\ disk' = o.disk
        /\ IF o.dies
             THEN /\ Fault("die") /\ Die
                  /\ UNCHANGED left
             ELSE /\ o.status = "IoFailure" => Fault("disk")
                  /\ w' = IF o.status = "Loaded"
                            THEN restoredSession(disk.session.snapshot)
                            ELSE cleanSession
                  /\ life' = "running" /\ saves' = mayWrite(o.status)
                  /\ faults' = faults + (IF o.status = "IoFailure" THEN 1 ELSE 0)
                  /\ left' = IF o.status = "IoFailure"
                               THEN [on |-> TRUE, is |-> o.disk.session]
                               ELSE Nothing
                  /\ UNCHANGED <<auth, epoch>>
  BY DEF Start
<1>3. /\ DOMAIN o.disk = Leaf /\ o.disk.session \in {disk.session, NoFile}
      /\ o.status \in {"IoFailure", "Loaded", "Corrupt", "Missing"}
      /\ o.status # "IoFailure" => o.disk.session # Garbage
      /\ disk.session = Garbage /\ o.disk.session # Garbage =>
           o.disk.corrupt # NoFile
      /\ o.status = "Loaded" => /\ disk.session = File(disk.session.snapshot)
                                /\ disk.session.snapshot \in Sessions
      /\ disk.session \notin {NoFile, Garbage, Huge} =>
           /\ o.disk.session = disk.session
           /\ o.status \in {"Loaded", "IoFailure"}
  BY <1>1, LoadOK
<1>4. DiskInv' /\ (visits \subseteq Addresses)'
  BY <1>1, <1>2, <1>3 DEF DiskInv, isSessionFile
<1>5. disk'.session = Garbage => disk.session = Garbage
  BY <1>2, <1>3, FilesDiffer
<1>6. CASE o.dies
  <2>1. life' = "start" /\ saves' = FALSE /\ left' = left /\ disk' = o.disk
    BY <1>2, <1>6 DEF Die
  <2>2. LeftInv'
    BY <1>1, <1>3, <2>1 DEF LeftInv, running
  <2> QED
    BY <1>2, <1>3, <1>4, <1>5, <2>1, <2>2 DEF WindowInv, running
<1>7. CASE ~o.dies
  <2>1. /\ life' = "running" /\ saves' = mayWrite(o.status) /\ disk' = o.disk
        /\ left' = IF o.status = "IoFailure"
                     THEN [on |-> TRUE, is |-> o.disk.session] ELSE Nothing
        /\ w' = IF o.status = "Loaded"
                  THEN restoredSession(disk.session.snapshot)
                  ELSE cleanSession
    BY <1>2, <1>7
  <2>2. LeftInv'
    BY <1>3, <2>1 DEF LeftInv, running, mayWrite, Nothing
  <2>3. /\ Stable(w')
        /\ o.status = "Loaded" =>
             sessionSnapshot(w'.m) = resolvedSession(disk.session.snapshot)
    BY <1>3, <2>1, RestoredOK, CleanOK
  <2>4. (running => Stable(w))'
    BY <2>3 DEF Stable, Well, TabOK, Queued, JobOK, EventOK, SiteOK, IsStrip
  <2>5. left.on /\ saves' =>
          sessionSnapshot(w'.m) = resolvedSession(left.is.snapshot)
    BY <1>1, <1>3, <2>1, <2>3 DEF mayWrite
  <2> QED
    BY <1>2, <1>3, <1>4, <1>5, <2>2, <2>4, <2>5 DEF WindowInv
<1> QED
  BY <1>6, <1>7

\* What a save leaves for a session.
LEMMA SaveLeaves ==
    ASSUME WindowInv, running, NEW o \in performBrowserSessionSave(w)
    PROVE  /\ DOMAIN o.disk = Leaf /\ isSessionFile(o.disk.session)
           /\ o.disk.session = Garbage => disk.session = Garbage
           /\ o.status = "Saved" =>
                /\ o.disk.session = File(sessionSnapshot(w.m))
                /\ o.disk.session \notin {NoFile, Garbage, Huge}
<1> DEFINE s == sessionSnapshot(w.m)
<1>1. s \in Sessions
  BY SnapshotIsSession DEF WindowInv
<1>2. /\ DOMAIN o.disk = Leaf /\ o.disk.session \in {disk.session, File(s)}
      /\ o.status = "Saved" => o.disk.session = File(s)
  BY SaveOK DEF performBrowserSessionSave, WindowInv, DiskInv
<1> HIDE DEF s
<1>3. isSessionFile(File(s))
  BY <1>1, FilesDiffer DEF isSessionFile, File
<1>4. isSessionFile(disk.session)
  BY DEF WindowInv, DiskInv
<1> QED
  BY <1>2, <1>3, <1>4, FilesDiffer DEF s

\* A save.
LEMMA SaveKeeps ==
    ASSUME WindowInv, SaveTimer, UNCHANGED visits
    PROVE  /\ WindowInv' /\ saves /\ disk.session # Garbage
           /\ disk'.session # Garbage
<1>1. /\ running /\ saves /\ disk.session # Garbage /\ ~left.on
      /\ visits \subseteq Addresses /\ Stable(w)
      /\ saves \in BOOLEAN /\ left.on \in BOOLEAN
  BY DEF WindowInv, LeftInv, SaveTimer, running
<1>2. PICK o \in performBrowserSessionSave(w) :
        /\ disk' = o.disk
        /\ IF o.dies
             THEN Fault("die") /\ Die
             ELSE /\ o.status = "Failed" => Fault("disk")
                  /\ w' = [w EXCEPT !.timer = FALSE]
                  /\ faults' = faults + Failures(o)
                  /\ UNCHANGED <<auth, epoch, life, saves>>
  BY DEF SaveTimer
<1>3. left' = left
  BY DEF SaveTimer
<1>4. DiskInv' /\ disk'.session # Garbage /\ (visits \subseteq Addresses)'
  BY <1>1, <1>2, SaveLeaves DEF DiskInv, isSessionFile
<1>5. CASE o.dies
  <2>1. life' = "start" /\ saves' = FALSE
    BY <1>2, <1>5 DEF Die
  <2> QED
    BY <1>1, <1>3, <1>4, <2>1 DEF WindowInv, LeftInv, running
<1>6. CASE ~o.dies
  <2>1. life' = "running" /\ saves' = saves /\ w' = [w EXCEPT !.timer = FALSE]
    BY <1>1, <1>2, <1>6 DEF running
  <2>2. Beside(w, w')
    <3>1. DOMAIN w = Fields
      BY <1>1, StableFacts DEF Well
    <3> QED
      BY <2>1, <3>1 DEF Beside, Leaves, Fields, EmptyWindow
  <2>3. Stable(w')
    BY <1>1, <2>2, BesideStable
  <2>4. (running => Stable(w))'
    BY <2>3 DEF Stable, Well, TabOK, Queued, JobOK, EventOK, SiteOK, IsStrip
  <2>5. LeftInv'
    BY <1>1, <1>3, <1>4, <2>1 DEF LeftInv, running
  <2> QED
    BY <1>1, <1>4, <2>4, <2>5 DEF WindowInv
<1> QED
  BY <1>5, <1>6

\* The end of a run: what it saved last is what the ghost says it left.
LEMMA ShutdownKeeps ==
    ASSUME WindowInv, Shutdown, UNCHANGED visits
    PROVE  /\ WindowInv'
           /\ ~saves => disk' = disk
           /\ saves => disk.session # Garbage /\ disk'.session # Garbage
<1>1. /\ running /\ saves \in BOOLEAN /\ (saves => disk.session # Garbage)
      /\ DiskInv /\ visits \subseteq Addresses /\ life' = "closing"
      /\ saves' = saves
  BY DEF WindowInv, LeftInv, Shutdown, running
<1>2. CASE ~saves
  <2>1. left' = Nothing /\ disk' = disk
    BY <1>2 DEF Shutdown, freezeBrowserSessionAndFlush
  <2> QED
    BY <1>1, <1>2, <2>1
       DEF WindowInv, DiskInv, LeftInv, isSessionFile, running, Nothing
<1>3. CASE saves
  <2>1. PICK o \in performBrowserSessionSave(w) :
          /\ disk' = o.disk
          /\ left' = IF o.status = "Saved"
                       THEN [on |-> TRUE, is |-> File(sessionSnapshot(w.m))]
                       ELSE Nothing
    BY <1>3 DEF Shutdown, freezeBrowserSessionAndFlush
  <2>2. DiskInv' /\ disk'.session # Garbage
    BY <1>1, <1>3, <2>1, SaveLeaves DEF DiskInv, isSessionFile
  <2>3. LeftInv'
    BY <1>1, <2>1, SaveLeaves DEF LeftInv, running, Nothing
  <2> QED
    BY <1>1, <1>3, <2>2, <2>3 DEF WindowInv, running
<1> QED
  BY <1>1, <1>2, <1>3

\* The end of the Host's process.
LEMMA EndKeeps ==
    ASSUME WindowInv, FinishShutdown \/ HostDies, UNCHANGED visits
    PROVE  WindowInv' /\ disk' = disk /\ life' = "start"
<1>1. /\ disk' = disk /\ life' = "start" /\ saves' = FALSE
      /\ left' = left \/ left' = Nothing
      /\ running => left' = Nothing
  BY DEF FinishShutdown, HostDies, Die, running
<1>2. LeftInv /\ DiskInv /\ visits \subseteq Addresses
  BY DEF WindowInv
<1>3. DiskInv' /\ (visits \subseteq Addresses)' /\ ~running'
  BY <1>1, <1>2 DEF DiskInv, isSessionFile, running
<1>4. CASE left' = Nothing
  BY <1>1, <1>3, <1>4 DEF WindowInv, LeftInv, running, Nothing
<1>5. CASE left' = left /\ ~running
  <2>1. LeftInv'
    BY <1>1, <1>2, <1>5 DEF LeftInv, running
  <2> QED
    BY <1>1, <1>3, <2>1 DEF WindowInv
<1> QED
  BY <1>1, <1>4, <1>5

\* The invariant holds at first, ...
LEMMA WindowInit == ASSUME Init PROVE WindowInv
<1>1. PICK s \in Starts : disk = s.disk /\ visits = s.visits
  BY DEF Init
<1>2. DOMAIN EmptyDisk = Leaf
  BY DEF EmptyDisk, Leaf
<1> QED
  BY <1>1, <1>2, StartsAssumption
     DEF Init, WindowInv, DiskInv, LeftInv, running, Nothing

\* The two things said of a step that ends or begins a run.
KeepsUnread ==
    /\ running /\ left.on => disk'.session = disk.session
    /\ disk.session = Garbage /\ disk'.session # Garbage =>
         disk'.corrupt # NoFile
    /\ disk'.session = Garbage => disk.session = Garbage
Restores ==
    life = "start" /\ life' = "running" /\ left.on /\ saves' =>
      sessionSnapshot(w'.m) = resolvedSession(left.is.snapshot)

\* ... every step keeps it, and does what is said of the session.
LEMMA WindowStep ==
    ASSUME WindowInv, [Next]_vars
    PROVE  WindowInv' /\ KeepsUnread /\ Restores
<1>1. running /\ left.on => ~saves
  BY DEF WindowInv, LeftInv
<1>2. CASE Next
  <2>1. UNCHANGED visits
    BY <1>2 DEF Next
  <2>2. CASE Start
    <3>1. life = "start"
      BY <2>2 DEF Start
    <3> QED
      BY <2>1, <2>2, <3>1, StartKeeps DEF KeepsUnread, Restores, running
  <2>3. CASE SaveTimer
    <3>1. running
      BY <2>3 DEF SaveTimer, running
    <3> QED
      BY <1>1, <2>1, <2>3, <3>1, SaveKeeps DEF KeepsUnread, Restores, running
  <2>4. CASE Shutdown
    <3>1. running /\ life' = "closing"
      BY <2>4 DEF Shutdown, running
    <3> QED
      BY <1>1, <2>1, <2>4, <3>1, ShutdownKeeps
         DEF KeepsUnread, Restores, running
  <2>5. CASE FinishShutdown \/ HostDies
    BY <2>1, <2>5, EndKeeps DEF KeepsUnread, Restores
  <2>6. CASE Handles
    <3>1. UNCHANGED <<disk, life>>
      BY <2>6, HandlesLeave
    <3> QED
      BY <2>1, <2>6, <3>1, HandlesKeep DEF KeepsUnread, Restores
  <2> QED
    BY <1>2, <2>2, <2>3, <2>4, <2>5, <2>6 DEF Next, Handles
<1>3. CASE UNCHANGED vars
  <2>1. UNCHANGED <<w, disk, life, saves, left, visits>>
    BY <1>3 DEF vars
  <2>2. WindowInv'
    BY <2>1 DEF WindowInv, DiskInv, LeftInv, isSessionFile, running, Stable,
       Well, TabOK, Queued, JobOK, EventOK, SiteOK, IsStrip
  <2> QED
    BY <2>1, <2>2 DEF KeepsUnread, Restores
<1> QED
  BY <1>2, <1>3

\* The window and what it leaves on the disk are always in order.
THEOREM WindowInvariant == Spec => []WindowInv
<1>1. Init => WindowInv
  BY WindowInit
<1>2. WindowInv /\ [Next]_vars => WindowInv'
  BY WindowStep
<1> QED
  BY <1>1, <1>2, PTL DEF Spec

\* What the invariant says of the window.
LEMMA StableShows ==
    ASSUME WindowInv PROVE WindowShowsTheActiveTab
<1> SUFFICES ASSUME running PROVE WindowShowsTheActiveTab!2
  BY DEF WindowShowsTheActiveTab
<1> DEFINE v == w.visible
<1>1. /\ Well(w, v, NoTab) /\ active = v /\ v \in TabIds
      /\ w.ctl[v].life # "Dormant"
  BY ActiveTab DEF WindowInv, Stable
<1> HIDE DEF v
<1>2. ASSUME NEW t \in TabIds
      PROVE  /\ inMap(w, t) <=> contains(w.m, t)
             /\ inMap(w, t) =>
                  /\ w.ctl[t].active <=> t = active
                  /\ w.ctl[t].life = w.m.tabs[indexOfId(w.m, t)].life
                  /\ t = active => w.ctl[t].life # "Dormant"
  BY <1>1, TabFacts DEF Agrees, TabOf
<1> QED
  BY <1>1, <1>2 DEF v

\* While the window is open it shows the active tab, its controller is the
\* only active one, and model and controllers agree, whatever was queued when
\* a tab was opened, closed, moved or selected.
THEOREM ShowsTheActiveTab == Spec => []WindowShowsTheActiveTab
<1>1. WindowInv => WindowShowsTheActiveTab
  BY StableShows
<1> QED
  BY <1>1, WindowInvariant, PTL

\* A start restores what a clean exit saved, and no session that could not be
\* read is lost, wherever the process dies.
THEOREM KeepsTheSession == Spec => SessionIsKept
<1>1. WindowInv /\ [Next]_vars => [KeepsUnread]_vars /\ [Restores]_vars
  BY WindowStep
<1>2. Spec => [][KeepsUnread]_vars /\ [][Restores]_vars
  BY <1>1, WindowInvariant, PTL DEF Spec
<1> QED
  BY <1>2 DEF SessionIsKept, UnreadSessionIsKept, RestartRestoresTheSession,
     KeepsUnread, Restores

================================================================================
