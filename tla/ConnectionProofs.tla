--------------------------- MODULE ConnectionProofs --------------------------
(* Proofs about DeviceFiles and Connection: the files of the device stay a   *)
(* tree and every variable of Connection keeps its type, whoever calls it.   *)
EXTENDS Connection, TLAPS

-----------------------------------------------------------------------------
(* Paths.                                                                  *)

Names == Seq(STRING)

LEMMA Prefix ==
  ASSUME NEW p \in Names, NEW n \in 0..Len(p)
  PROVE  /\ SubSeq(p, 1, n) \in Names /\ Len(SubSeq(p, 1, n)) = n
         /\ \A i \in 1..n : SubSeq(p, 1, n)[i] = p[i]
BY DEF Names

LEMMA Suffix ==
  ASSUME NEW p \in Names, NEW n \in 0..Len(p)
  PROVE  /\ SubSeq(p, n + 1, Len(p)) \in Names /\ Len(SubSeq(p, n + 1, Len(p))) = Len(p) - n
         /\ \A i \in 1..(Len(p) - n) : SubSeq(p, n + 1, Len(p))[i] = p[n + i]
BY DEF Names

LEMMA SameNames ==
  ASSUME NEW p \in Names, NEW q \in Names, Len(p) = Len(q), \A i \in 1..Len(p) : p[i] = q[i]
  PROVE  p = q
BY DEF Names

LEMMA Joined ==
  ASSUME NEW d \in Names, NEW s \in Names
  PROVE  /\ d \o s \in Names /\ Len(d \o s) = Len(d) + Len(s) /\ Len(d) \in Nat /\ Len(s) \in Nat
         /\ \A i \in 1..(Len(d) + Len(s)) : (d \o s)[i] = IF i <= Len(d) THEN d[i] ELSE s[i - Len(d)]
BY DEF Names

LEMMA Root ==
  /\ << >> \in Names /\ Len(<< >>) = 0
  /\ \A p \in Names : /\ p \o << >> = p /\ << >> \o p = p
                      /\ Len(p) \in Nat /\ (p # << >> => Len(p) # 0)
BY DEF Names

LEMMA ParentOf ==
  ASSUME NEW p \in Names, p # << >>
  PROVE  /\ Parent(p) \in Names /\ Len(Parent(p)) = Len(p) - 1 /\ Len(p) \in Nat \ {0}
         /\ \A i \in 1..(Len(p) - 1) : Parent(p)[i] = p[i]
<1>1. Len(p) \in Nat \ {0} /\ Len(p) - 1 \in 0..Len(p)
  BY Root
<1> QED
  BY <1>1, Prefix DEF Parent

\* The path s taken from d on.
LEMMA Below ==
  ASSUME NEW d \in Names, NEW s \in Names
  PROVE  Within(d \o s, d) /\ SubSeq(d \o s, Len(d) + 1, Len(d \o s)) = s
<1>1. /\ d \o s \in Names /\ Len(d \o s) = Len(d) + Len(s) /\ Len(d) \in Nat /\ Len(s) \in Nat
      /\ \A i \in 1..(Len(d) + Len(s)) : (d \o s)[i] = IF i <= Len(d) THEN d[i] ELSE s[i - Len(d)]
  BY Joined
<1>2. Len(d) \in 0..Len(d \o s)
  BY <1>1
<1>3. SubSeq(d \o s, 1, Len(d)) = d
  <2>1. /\ SubSeq(d \o s, 1, Len(d)) \in Names /\ Len(SubSeq(d \o s, 1, Len(d))) = Len(d)
        /\ \A i \in 1..Len(d) : SubSeq(d \o s, 1, Len(d))[i] = (d \o s)[i]
    BY Zenon, <1>1, <1>2, Prefix
  <2>2. \A i \in 1..Len(d) : SubSeq(d \o s, 1, Len(d))[i] = d[i]
    BY <1>1, <2>1
  <2> QED
    BY Zenon, <2>1, <2>2, SameNames
<1>4. SubSeq(d \o s, Len(d) + 1, Len(d \o s)) = s
  <2> DEFINE u == SubSeq(d \o s, Len(d) + 1, Len(d \o s))
  <2>1. /\ u \in Names /\ Len(u) = Len(d \o s) - Len(d)
        /\ \A i \in 1..(Len(d \o s) - Len(d)) : u[i] = (d \o s)[Len(d) + i]
    BY Zenon, <1>1, <1>2, Suffix
  <2> HIDE DEF u
  <2>2. Len(u) = Len(s) /\ \A i \in 1..Len(u) : u[i] = s[i]
    BY <1>1, <2>1
  <2>3. u = s
    BY <2>1, <2>2, SameNames
  <2> QED
    BY <2>3 DEF u
<1> QED
  BY <1>1, <1>3, <1>4 DEF Within

LEMMA SplitAt ==
  ASSUME NEW p \in Names, NEW d \in Names, Within(p, d)
  PROVE  \E s \in Names : p = d \o s
<1> DEFINE s == SubSeq(p, Len(d) + 1, Len(p))
<1>0. Len(d) \in Nat /\ Len(p) \in Nat /\ Len(d) <= Len(p) /\ SubSeq(p, 1, Len(d)) = d
  BY Root DEF Within
<1>1. Len(d) \in 0..Len(p)
  BY <1>0
<1>2. /\ s \in Names /\ Len(s) = Len(p) - Len(d) /\ \A i \in 1..(Len(p) - Len(d)) : s[i] = p[Len(d) + i]
  BY <1>1, Suffix
<1>3. \A i \in 1..Len(d) : d[i] = p[i]
  BY <1>0, <1>1, Prefix
<1> HIDE DEF s
<1>4. /\ d \o s \in Names /\ Len(d \o s) = Len(p)
      /\ \A i \in 1..Len(p) : (d \o s)[i] = IF i <= Len(d) THEN d[i] ELSE s[i - Len(d)]
  <2>1. /\ d \o s \in Names /\ Len(d \o s) = Len(d) + Len(s)
        /\ \A i \in 1..(Len(d) + Len(s)) : (d \o s)[i] = IF i <= Len(d) THEN d[i] ELSE s[i - Len(d)]
    BY Zenon, <1>2, Joined
  <2> QED
    BY <1>0, <1>2, <2>1
<1>5. \A i \in 1..Len(p) : (d \o s)[i] = p[i]
  BY <1>0, <1>2, <1>3, <1>4
<1>6. d \o s = p
  BY Zenon, <1>4, <1>5, SameNames
<1> QED
  BY <1>2, <1>6

-----------------------------------------------------------------------------
(* The way to a path.                                                      *)

LEMMA OnTheWay ==
  ASSUME NEW p \in Names, NEW q \in Above(p)
  PROVE  /\ q \in Names /\ Len(q) < Len(p) /\ Len(q) \in Nat /\ q = SubSeq(p, 1, Len(q))
         /\ \A i \in 1..Len(q) : q[i] = p[i]
<1>1. PICK n \in 0..(Len(p) - 1) : q = SubSeq(p, 1, n)
  BY DEF Above
<1>2. n \in 0..Len(p)
  BY Root
<1>3. q \in Names /\ Len(q) = n /\ \A i \in 1..n : q[i] = p[i]
  BY <1>1, <1>2, Prefix
<1> QED
  BY <1>1, <1>3, Root

\* A path that agrees with a longer one is on the way to it.
LEMMA IsOnTheWay ==
  ASSUME NEW p \in Names, NEW q \in Names, Len(q) < Len(p), \A i \in 1..Len(q) : q[i] = p[i]
  PROVE  q \in Above(p)
<1>1. Len(q) \in 0..Len(p) /\ Len(q) \in 0..(Len(p) - 1)
  BY Root
<1>2. /\ SubSeq(p, 1, Len(q)) \in Names /\ Len(SubSeq(p, 1, Len(q))) = Len(q)
      /\ \A i \in 1..Len(q) : SubSeq(p, 1, Len(q))[i] = p[i]
  BY <1>1, Prefix
<1>3. SubSeq(p, 1, Len(q)) = q
  BY Zenon, <1>2, SameNames
<1> QED
  BY Zenon, <1>1, <1>3 DEF Above

\* What lies below a path within d lies within d.
LEMMA WithinAbove ==
  ASSUME NEW p \in Names, NEW q \in Above(p), NEW d \in Names, Within(q, d)
  PROVE  Within(p, d)
<1>1. /\ q \in Names /\ Len(q) < Len(p) /\ Len(q) \in Nat /\ Len(p) \in Nat /\ Len(d) \in Nat
      /\ \A i \in 1..Len(q) : q[i] = p[i]
  BY OnTheWay, Root
<1>2. Len(d) <= Len(q) /\ SubSeq(q, 1, Len(d)) = d
  BY DEF Within
<1>3. Len(d) \in 0..Len(q) /\ Len(d) \in 0..Len(p)
  BY <1>1, <1>2
<1>4. \A i \in 1..Len(d) : d[i] = q[i]
  BY <1>1, <1>2, <1>3, Prefix
<1>5. /\ SubSeq(p, 1, Len(d)) \in Names /\ Len(SubSeq(p, 1, Len(d))) = Len(d)
      /\ \A i \in 1..Len(d) : SubSeq(p, 1, Len(d))[i] = p[i]
  BY <1>3, Prefix
<1>6. \A i \in 1..Len(d) : SubSeq(p, 1, Len(d))[i] = d[i]
  BY <1>1, <1>2, <1>4, <1>5
<1>7. SubSeq(p, 1, Len(d)) = d
  BY Zenon, <1>5, <1>6, SameNames
<1> QED
  BY <1>1, <1>2, <1>7 DEF Within

\* The way to d \o s leads through d.
LEMMA WayBelow ==
  ASSUME NEW d \in Names, NEW s \in Names
  PROVE  /\ \A q \in Above(d \o s) : q \in Above(d) \/ \E u \in Above(s) : u \in Names /\ q = d \o u
         /\ \A u \in Above(s) : d \o u \in Above(d \o s)
<1>1. /\ d \o s \in Names /\ Len(d \o s) = Len(d) + Len(s) /\ Len(d) \in Nat /\ Len(s) \in Nat
      /\ \A i \in 1..(Len(d) + Len(s)) : (d \o s)[i] = IF i <= Len(d) THEN d[i] ELSE s[i - Len(d)]
  BY Joined
<1>2. ASSUME NEW q \in Above(d \o s), q \notin Above(d)
      PROVE  \E u \in Above(s) : u \in Names /\ q = d \o u
  <2>1. /\ q \in Names /\ Len(q) < Len(d) + Len(s) /\ Len(q) \in Nat
        /\ \A i \in 1..Len(q) : q[i] = (d \o s)[i]
    BY Zenon, <1>1, OnTheWay
  <2>2. Len(d) <= Len(q)
    <3> SUFFICES ASSUME Len(q) < Len(d) PROVE FALSE
      BY <1>1, <2>1
    <3>1. \A i \in 1..Len(q) : q[i] = d[i]
      BY <1>1, <2>1
    <3> QED
      BY <1>2, <2>1, <3>1, IsOnTheWay
  <2>3. \A i \in 1..Len(d) : q[i] = d[i]
    BY <1>1, <2>1, <2>2
  <2>4. Within(q, d)
    <3>1. Len(d) \in 0..Len(q)
      BY <1>1, <2>1, <2>2
    <3>2. /\ SubSeq(q, 1, Len(d)) \in Names /\ Len(SubSeq(q, 1, Len(d))) = Len(d)
          /\ \A i \in 1..Len(d) : SubSeq(q, 1, Len(d))[i] = q[i]
      BY <2>1, <3>1, Prefix
    <3>3. SubSeq(q, 1, Len(d)) = d
      BY Zenon, <2>3, <3>2, SameNames
    <3> QED
      BY <2>2, <3>3 DEF Within
  <2>5. PICK u \in Names : q = d \o u
    BY <2>1, <2>4, SplitAt
  <2>6. /\ Len(q) = Len(d) + Len(u) /\ Len(u) \in Nat
        /\ \A i \in 1..(Len(d) + Len(u)) : q[i] = IF i <= Len(d) THEN d[i] ELSE u[i - Len(d)]
    BY <2>5, Joined
  <2>7. ASSUME NEW i \in 1..Len(u) PROVE u[i] = s[i]
    <3>1. /\ Len(d) + i \in 1..Len(q) /\ Len(d) + i \in 1..(Len(d) + Len(s)) /\ ~(Len(d) + i <= Len(d))
          /\ (Len(d) + i) - Len(d) = i
      BY <1>1, <2>1, <2>6
    <3> QED
      BY <1>1, <2>1, <2>6, <3>1
  <2>8. u \in Above(s)
    <3>1. Len(u) < Len(s)
      BY <1>1, <2>1, <2>6
    <3> QED
      BY <2>7, <3>1, IsOnTheWay
  <2> QED
    BY <2>5, <2>8
<1>3. ASSUME NEW u \in Above(s) PROVE d \o u \in Above(d \o s)
  <2>1. u \in Names /\ Len(u) < Len(s) /\ Len(u) \in Nat /\ \A i \in 1..Len(u) : u[i] = s[i]
    BY OnTheWay
  <2>2. /\ d \o u \in Names /\ Len(d \o u) = Len(d) + Len(u)
        /\ \A i \in 1..(Len(d) + Len(u)) : (d \o u)[i] = IF i <= Len(d) THEN d[i] ELSE u[i - Len(d)]
    BY <2>1, Joined
  <2>3. \A i \in 1..Len(d \o u) : (d \o u)[i] = (d \o s)[i]
    BY <1>1, <2>1, <2>2
  <2>4. Len(d \o u) < Len(d \o s)
    BY <1>1, <2>1, <2>2
  <2> QED
    BY Zenon, <1>1, <2>2, <2>3, <2>4, IsOnTheWay
<1> QED
  BY <1>2, <1>3

-----------------------------------------------------------------------------
(* Trees.                                                                  *)

\* A directory on the way to an entry of a tree has a child there.
LEMMA HasChild ==
  ASSUME NEW m, IsTree(m), NEW p \in DOMAIN m, NEW q \in Above(p)
  PROVE  \E c \in DOMAIN m : c # << >> /\ Parent(c) = q
<1>0. p \in Names /\ q \in Names /\ Len(q) < Len(p) /\ Len(q) \in Nat /\ Len(p) \in Nat
      /\ \A i \in 1..Len(q) : q[i] = p[i]
  <2>1. p \in Names
    BY PathsAssumption DEF IsTree, Names
  <2> QED
    BY <2>1, OnTheWay, Root
<1> DEFINE c == SubSeq(p, 1, Len(q) + 1)
<1>1. c \in Names /\ Len(c) = Len(q) + 1 /\ \A i \in 1..(Len(q) + 1) : c[i] = p[i]
  <2>1. Len(q) + 1 \in 0..Len(p)
    BY <1>0
  <2> QED
    BY <1>0, <2>1, Prefix
<1> HIDE DEF c
<1>2. c \in DOMAIN m
  <2>1. CASE Len(c) < Len(p)
    <3>1. c \in Above(p)
      BY <1>0, <1>1, <2>1, IsOnTheWay
    <3> QED
      BY Zenon, <3>1 DEF IsTree
  <2>2. CASE Len(c) = Len(p)
    <3>1. c = p
      BY <1>0, <1>1, <2>2, SameNames
    <3> QED
      BY <3>1
  <2> QED
    BY <1>0, <1>1, <2>1, <2>2
<1>3. c # << >>
  BY <1>0, <1>1, Root
<1>4. /\ Parent(c) \in Names /\ Len(Parent(c)) = Len(c) - 1
      /\ \A i \in 1..(Len(c) - 1) : Parent(c)[i] = c[i]
  BY Zenon, <1>1, <1>3, ParentOf
<1>5. Len(Parent(c)) = Len(q) /\ \A i \in 1..Len(Parent(c)) : Parent(c)[i] = q[i]
  BY <1>0, <1>1, <1>4
<1>6. Parent(c) = q
  BY <1>0, <1>4, <1>5, SameNames
<1> QED
  BY <1>2, <1>3, <1>6

\* The entries of m were made by the first n changes.
MadeBy(m, n) == \A p \in DOMAIN m : m[p].ino <= n

LEMMA EntryTyped ==
  ASSUME NEW dir \in BOOLEAN, NEW n \in Nat
  PROVE  Entry(dir, n) \in Entries /\ Entry(dir, n).dir = dir /\ Entry(dir, n).ino = n
BY DEF Entry, Entries

LEMMA TreeWith ==
  ASSUME IsTree(tree), MadeBy(tree, changes), changes \in Nat, NEW dir \in BOOLEAN,
         NEW p \in Paths, ~Exists(p), Resolve(p) = "Success"
  PROVE  LET m == With(tree, p, Entry(dir, changes + 1)) IN IsTree(m) /\ MadeBy(m, changes + 1)
<1> DEFINE e == Entry(dir, changes + 1)
           m == With(tree, p, e)
<1>0. e \in Entries /\ e.ino = changes + 1 /\ changes + 1 \in Nat
  BY EntryTyped
<1>1. p # << >> /\ p \notin DOMAIN tree
  BY DEF IsTree, Exists
<1>2. \A q \in Above(p) : q \in DOMAIN tree /\ tree[q].dir
  BY DEF Resolve, Exists
<1> HIDE DEF e
<1>3. /\ DOMAIN m = DOMAIN tree \cup {p} /\ m[p] = e
      /\ \A q \in DOMAIN tree : m[q] = tree[q]
  BY <1>1 DEF With
<1> HIDE DEF m
<1>4. \A q \in DOMAIN tree : tree[q] \in Entries /\ tree[q].ino \in Nat /\ tree[q].ino <= changes
  BY DEF IsTree, Entries, MadeBy
<1>5. DOMAIN m \subseteq Paths /\ \A q \in DOMAIN m : m[q] \in Entries
  BY <1>0, <1>3, <1>4 DEF IsTree
<1>6. << >> \in DOMAIN m /\ m[<< >>].dir
  BY <1>3 DEF IsTree
<1>7. \A q \in DOMAIN m : \A a \in Above(q) : a \in DOMAIN m /\ m[a].dir
  <2>1. \A q \in DOMAIN tree : \A a \in Above(q) : a \in DOMAIN tree /\ tree[a].dir
    BY DEF IsTree
  <2> QED
    BY <1>2, <1>3, <2>1
<1>8. \A q, r \in DOMAIN m : m[q].ino = m[r].ino => q = r
  <2>1. \A q, r \in DOMAIN tree : tree[q].ino = tree[r].ino => q = r
    BY DEF IsTree
  <2>2. \A q \in DOMAIN tree : tree[q].ino # changes + 1
    BY <1>4
  <2> QED
    BY <1>0, <1>3, <2>1, <2>2
<1>9. MadeBy(m, changes + 1)
  BY <1>0, <1>3, <1>4 DEF MadeBy
<1> QED
  BY <1>5, <1>6, <1>7, <1>8, <1>9 DEF IsTree, m, e

LEMMA TreeWithout ==
  ASSUME IsTree(tree), MadeBy(tree, changes), changes \in Nat, NEW p, p # << >>, Children(p) = {}
  PROVE  LET m == Without(tree, {p}) IN IsTree(m) /\ MadeBy(m, changes)
<1> DEFINE m == Without(tree, {p})
<1>1. DOMAIN m = DOMAIN tree \ {p} /\ \A q \in DOMAIN m : m[q] = tree[q]
  BY DEF Without, Restrict
<1> HIDE DEF m
<1>2. ASSUME NEW q \in DOMAIN m, NEW a \in Above(q) PROVE a \in DOMAIN m /\ m[a].dir
  <2>1. a \in DOMAIN tree /\ tree[a].dir /\ q \in DOMAIN tree
    BY <1>1 DEF IsTree
  <2>2. a # p
    BY <2>1, HasChild DEF Children
  <2> QED
    BY <1>1, <2>1, <2>2
<1>3. DOMAIN m \subseteq Paths /\ \A q \in DOMAIN m : m[q] \in Entries
  BY <1>1 DEF IsTree
<1>4. << >> \in DOMAIN m /\ m[<< >>].dir
  BY <1>1 DEF IsTree
<1>5. \A q, r \in DOMAIN m : m[q].ino = m[r].ino => q = r
  BY <1>1 DEF IsTree
<1>6. MadeBy(m, changes)
  BY <1>1 DEF MadeBy
<1> QED
  BY Zenon, <1>2, <1>3, <1>4, <1>5, <1>6 DEF IsTree, m

LEMMA TreeModified ==
  ASSUME IsTree(tree), MadeBy(tree, changes), changes \in Nat, NEW i
  PROVE  IsTree(Modified(i)) /\ MadeBy(Modified(i), changes)
<1> DEFINE m == Modified(i)
<1>1. DOMAIN m = DOMAIN tree
  BY DEF Modified
<1>2. ASSUME NEW q \in DOMAIN tree
      PROVE  m[q] \in Entries /\ m[q].dir = tree[q].dir /\ m[q].ino = tree[q].ino
  <2>1. tree[q] \in Entries
    BY DEF IsTree
  <2> DEFINE e == [tree[q] EXCEPT !.changed = changes + 1]
  <2>2. e \in Entries /\ e.dir = tree[q].dir /\ e.ino = tree[q].ino
    BY <2>1 DEF Entries
  <2>3. m[q] \in {e, tree[q]}
    BY DEF Modified
  <2> QED
    BY Zenon, <2>1, <2>2, <2>3
<1> HIDE DEF m
<1>3. DOMAIN m \subseteq Paths /\ \A q \in DOMAIN m : m[q] \in Entries
  BY <1>1, <1>2 DEF IsTree
<1>4. << >> \in DOMAIN m /\ m[<< >>].dir
  BY <1>1, <1>2 DEF IsTree
<1>5. \A q \in DOMAIN m : \A a \in Above(q) : a \in DOMAIN m /\ m[a].dir
  BY <1>1, <1>2 DEF IsTree
<1>6. \A q, r \in DOMAIN m : m[q].ino = m[r].ino => q = r
  BY <1>1, <1>2 DEF IsTree
<1>7. MadeBy(m, changes)
  BY <1>1, <1>2 DEF MadeBy
<1> QED
  BY <1>3, <1>4, <1>5, <1>6, <1>7 DEF IsTree, m

\* Nothing lies below a path without children.
LEMMA NothingBelow ==
  ASSUME IsTree(tree), NEW d \in Names, Children(d) = {}, NEW s \in Names, s # << >>
  PROVE  d \o s \notin DOMAIN tree
<1> SUFFICES ASSUME d \o s \in DOMAIN tree PROVE FALSE
  OBVIOUS
<1>1. << >> \in Above(s)
  <2>1. Len(<< >>) < Len(s) /\ << >> \in Names
    BY Root
  <2> QED
    BY <2>1, Root, IsOnTheWay
<1>2. d \o << >> \in Above(d \o s)
  BY Zenon, <1>1, WayBelow
<1>3. d \in Above(d \o s)
  BY <1>2, Root
<1> QED
  BY <1>3, HasChild DEF Children

\* Only a directory has children.
LEMMA FileHasNoChildren ==
  ASSUME IsTree(tree), NEW p, ~(p \in DOMAIN tree /\ tree[p].dir)
  PROVE  Children(p) = {}
<1> SUFFICES ASSUME NEW c \in DOMAIN tree, c # << >>, Parent(c) = p PROVE FALSE
  BY DEF Children
<1>1. c \in Names
  BY PathsAssumption DEF IsTree, Names
<1>2. Len(c) - 1 \in 0..(Len(c) - 1)
  BY <1>1, Root
<1>3. p \in Above(c)
  BY Zenon, <1>2 DEF Parent, Above
<1> QED
  BY Zenon, <1>3 DEF IsTree

\* Rename moves what lies within from to the same place within to, and leaves the
\* rest where it is.
LEMMA RenamedEntries ==
  ASSUME IsTree(tree), NEW from \in Names, NEW to \in Names, Children(to) = {}
  PROVE  LET m == Renamed(from, to)
             kept == {q \in DOMAIN tree : ~Within(q, from) /\ q # to}
         IN  /\ \A q \in kept : q \in DOMAIN m /\ m[q] = tree[q]
             /\ \A s \in Names : from \o s \in DOMAIN tree =>
                  to \o s \in DOMAIN m /\ to \o s \notin kept /\ m[to \o s] = tree[from \o s]
             /\ \A q \in DOMAIN m : q \in kept \/ \E s \in Names : from \o s \in DOMAIN tree /\ q = to \o s
<1> DEFINE moved == {p \in DOMAIN tree : Within(p, from)}
           new(p) == to \o SubSeq(p, Len(from) + 1, Len(p))
           old(q) == from \o SubSeq(q, Len(to) + 1, Len(q))
           kept == {q \in DOMAIN tree : ~Within(q, from) /\ q # to}
           m == [q \in kept \cup {new(p) : p \in moved} |-> IF q \in kept THEN tree[q] ELSE tree[old(q)]]
<1>1. m = Renamed(from, to)
  <2>1. DOMAIN tree \ (moved \cup {to}) = kept
    OBVIOUS
  <2> QED
    BY <2>1, Zenon DEF Renamed
<1>2. ASSUME NEW s \in Names
      PROVE  new(from \o s) = to \o s /\ old(to \o s) = from \o s
  <2>1. SubSeq(from \o s, Len(from) + 1, Len(from \o s)) = s
    BY Below
  <2>2. SubSeq(to \o s, Len(to) + 1, Len(to \o s)) = s
    BY Below
  <2> QED
    BY Zenon, <2>1, <2>2
<1>3. \A p \in moved : \E s \in Names : p = from \o s
  <2>1. DOMAIN tree \subseteq Names
    BY PathsAssumption DEF IsTree, Names
  <2> QED
    BY <2>1, SplitAt
<1>4. \A s \in Names : from \o s \in DOMAIN tree => from \o s \in moved
  BY Below
<1>5. ASSUME NEW s \in Names PROVE to \o s \notin kept
  <2>1. CASE s = << >>
    <3>1. to \o << >> = to
      BY Root
    <3> QED
      BY <2>1, <3>1
  <2>2. CASE s # << >>
    BY <2>2, NothingBelow
  <2> QED
    BY <2>1, <2>2
<1> HIDE DEF moved, new, old, kept
<1>6. ASSUME NEW q \in kept PROVE q \in DOMAIN m /\ m[q] = tree[q]
  OBVIOUS
<1>7. ASSUME NEW s \in Names, from \o s \in DOMAIN tree
      PROVE  to \o s \in DOMAIN m /\ m[to \o s] = tree[from \o s]
  <2>1. to \o s \in {new(p) : p \in moved}
    <3>1. from \o s \in moved /\ new(from \o s) = to \o s
      BY <1>2, <1>4, <1>7
    <3> QED
      BY <3>1
  <2>2. to \o s \notin kept /\ old(to \o s) = from \o s
    BY <1>2, <1>5
  <2> QED
    BY Zenon, <2>1, <2>2
<1>8. ASSUME NEW q \in DOMAIN m, q \notin kept
      PROVE  \E s \in Names : from \o s \in DOMAIN tree /\ q = to \o s
  <2>1. PICK p \in moved : q = new(p)
    BY <1>8
  <2>2. PICK s \in Names : p = from \o s
    BY <1>3
  <2>3. from \o s \in DOMAIN tree
    BY <2>2 DEF moved
  <2> QED
    BY Zenon, <1>2, <2>1, <2>2, <2>3
<1> HIDE DEF m
<1>9. /\ \A q \in kept : q \in DOMAIN m /\ m[q] = tree[q]
      /\ \A s \in Names : from \o s \in DOMAIN tree =>
           to \o s \in DOMAIN m /\ to \o s \notin kept /\ m[to \o s] = tree[from \o s]
      /\ \A q \in DOMAIN m : q \in kept \/ \E s \in Names : from \o s \in DOMAIN tree /\ q = to \o s
  BY Zenon, <1>5, <1>6, <1>7, <1>8
<1> QED
  BY <1>1, <1>9 DEF kept

LEMMA TreeRenamed ==
  ASSUME IsTree(tree), MadeBy(tree, changes), changes \in Nat, NEW from \in Paths, NEW to \in Paths,
         stat_file(from) = "Success", Resolve(to) = "Success", ~Within(to, from), Children(to) = {},
         DOMAIN Renamed(from, to) \subseteq Paths
  PROVE  IsTree(Renamed(from, to)) /\ MadeBy(Renamed(from, to), changes)
<1> DEFINE kept == {q \in DOMAIN tree : ~Within(q, from) /\ q # to}
<1>0. from \in Names /\ to \in Names /\ from \in DOMAIN tree
  BY PathsAssumption DEF Names, stat_file, Exists
<1>1. PICK m \in {Renamed(from, to)} :
        /\ m = Renamed(from, to)
        /\ \A q \in kept : q \in DOMAIN m /\ m[q] = tree[q]
        /\ \A s \in Names : from \o s \in DOMAIN tree =>
             to \o s \in DOMAIN m /\ to \o s \notin kept /\ m[to \o s] = tree[from \o s]
        /\ \A q \in DOMAIN m : q \in kept \/ \E s \in Names : from \o s \in DOMAIN tree /\ q = to \o s
  <2>1. LET m == Renamed(from, to)
        IN  /\ \A q \in kept : q \in DOMAIN m /\ m[q] = tree[q]
            /\ \A s \in Names : from \o s \in DOMAIN tree =>
                 to \o s \in DOMAIN m /\ to \o s \notin kept /\ m[to \o s] = tree[from \o s]
            /\ \A q \in DOMAIN m : q \in kept \/ \E s \in Names : from \o s \in DOMAIN tree /\ q = to \o s
    BY <1>0, RenamedEntries, Zenon
  <2> HIDE DEF kept
  <2> QED
    BY <2>1, Zenon
<1>2. << >> \in DOMAIN tree /\ tree[<< >>].dir /\ << >> \in Names
  BY Root DEF IsTree
<1>3. from # << >>
  <2> SUFFICES ASSUME from = << >> PROVE FALSE
    OBVIOUS
  <2>1. << >> \o to = to
    BY <1>0, Root
  <2>2. Within(<< >> \o to, << >>)
    BY Zenon, <1>0, <1>2, Below
  <2> QED
    BY <2>1, <2>2
<1>4. to # << >>
  <2> SUFFICES ASSUME to = << >> PROVE FALSE
    OBVIOUS
  <2>1. << >> \o from = from
    BY <1>0, Root
  <2>2. << >> \o from \notin DOMAIN tree
    BY Zenon, <1>0, <1>2, <1>3, NothingBelow
  <2> QED
    BY <1>0, <2>1, <2>2
<1>5. << >> \in kept
  <2>1. ~Within(<< >>, from)
    <3>1. Len(from) \in Nat \ {0} /\ Len(<< >>) = 0
      BY <1>0, <1>3, Root
    <3> QED
      BY <3>1 DEF Within
  <2> QED
    BY <1>2, <1>4, <2>1
<1>6. \A q \in DOMAIN tree : q \in Names /\ \A a \in Above(q) : a \in DOMAIN tree /\ tree[a].dir
  BY PathsAssumption DEF IsTree, Names
<1>7. ASSUME NEW q \in kept, NEW a \in Above(q)
      PROVE  a \in DOMAIN m /\ m[a].dir
  <2>1. a \in DOMAIN tree /\ tree[a].dir /\ q \in Names
    BY <1>6
  <2>2. ~Within(a, from)
    BY <1>0, <2>1, WithinAbove
  <2>3. a # to
    BY HasChild DEF Children
  <2> QED
    BY <1>1, <2>1, <2>2, <2>3
<1>8. ASSUME NEW s \in Names, from \o s \in DOMAIN tree, NEW a \in Above(to \o s)
      PROVE  a \in DOMAIN m /\ m[a].dir
  <2>1. CASE a \in Above(to)
    <3>1. a \in DOMAIN tree /\ tree[a].dir
      BY <2>1 DEF Resolve, Exists
    <3>2. a # to
      BY <1>0, <2>1, OnTheWay
    <3>3. ~Within(a, from)
      BY <1>0, <2>1, WithinAbove
    <3> QED
      BY <1>1, <3>1, <3>2, <3>3
  <2>2. CASE a \notin Above(to)
    <3>1. PICK u \in Above(s) : u \in Names /\ a = to \o u
      BY Zenon, <1>0, <2>2, WayBelow
    <3>2. from \o u \in Above(from \o s)
      BY Zenon, <1>0, WayBelow
    <3>3. from \o u \in DOMAIN tree /\ tree[from \o u].dir
      BY Zenon, <1>6, <1>8, <3>2
    <3> QED
      BY <1>1, <3>1, <3>3
  <2> QED
    BY <2>1, <2>2
<1>9. ASSUME NEW q \in DOMAIN m
      PROVE  \E p \in DOMAIN tree : /\ m[q] = tree[p]
                                    /\ \/ q \in kept /\ p = q
                                       \/ \E s \in Names : p = from \o s /\ q = to \o s
  BY Zenon, <1>1
<1>10. ASSUME NEW q \in DOMAIN m, NEW r \in DOMAIN m, m[q].ino = m[r].ino PROVE q = r
  <2>1. PICK p \in DOMAIN tree : /\ m[q] = tree[p]
                                 /\ \/ q \in kept /\ p = q
                                    \/ \E s \in Names : p = from \o s /\ q = to \o s
    BY Zenon, <1>9
  <2>2. PICK u \in DOMAIN tree : /\ m[r] = tree[u]
                                 /\ \/ r \in kept /\ u = r
                                    \/ \E s \in Names : u = from \o s /\ r = to \o s
    BY Zenon, <1>9
  <2>3. p = u
    BY <1>10, <2>1, <2>2 DEF IsTree
  <2>4. \A s \in Names : from \o s \notin kept
    BY <1>0, Below
  <2>5. ASSUME NEW s \in Names, NEW v \in Names, from \o s = from \o v PROVE s = v
    <3>1. SubSeq(from \o s, Len(from) + 1, Len(from \o s)) = s
      BY <1>0, Below
    <3>2. SubSeq(from \o v, Len(from) + 1, Len(from \o v)) = v
      BY <1>0, Below
    <3> QED
      BY <2>5, <3>1, <3>2, Zenon
  <2> QED
    BY Zenon, <2>1, <2>2, <2>3, <2>4, <2>5
<1>11. \A q \in DOMAIN m : m[q] \in Entries /\ m[q].ino <= changes
  BY <1>9 DEF IsTree, MadeBy
<1>12. << >> \in DOMAIN m /\ m[<< >>].dir
  BY <1>1, <1>2, <1>5
<1>13. ASSUME NEW q \in DOMAIN m, NEW a \in Above(q)
       PROVE  a \in DOMAIN m /\ m[a].dir
  BY Zenon, <1>1, <1>7, <1>8
<1>14. IsTree(m) /\ MadeBy(m, changes)
  BY <1>1, <1>10, <1>11, <1>12, <1>13 DEF IsTree, MadeBy
<1> QED
  BY <1>1, <1>14

-----------------------------------------------------------------------------
(* The handlers of the daemon.                                             *)

\* A response that can be updated field by field.
IsResponse(r) ==
  r = [status |-> r.status, stats |-> r.stats, seen |-> r.seen, fd |-> r.fd, ino |-> r.ino,
       made |-> r.made]

TypedResponse(r) ==
  /\ IsResponse(r) /\ r.status \in Statuses /\ IsStats(r.stats)
  /\ r.seen \in Nat /\ r.fd \in Nat \cup {NoFd}

IsFds(m) == \A f \in DOMAIN m : f \in Fds /\ m[f] \in [ino : Nat, read : BOOLEAN, write : BOOLEAN]

\* The files of the device, with the history that keeps inodes apart.
DeviceOK == IsTree(tree) /\ MadeBy(tree, changes) /\ changes \in Nat /\ IsFds(fds)

\* The entries of a directory that can be there.
EntriesOf(d) == {p \in Paths \ {<< >>} : Parent(p) = d}

\* What the proofs need to know of the outcome o of the handler for r.
Sound(r, o) ==
  /\ IsTree(o.tree) /\ (o.tree = tree \/ MadeBy(o.tree, changes + 1))
  /\ IsFds(o.fds)
  /\ TypedResponse(o.response)
  /\ r.type = "ListDirectory" => DOMAIN o.response.stats \subseteq EntriesOf(r.path)

LEMMA EmptyMapTyped == DOMAIN EmptyMap = {} /\ IsStats(EmptyMap)
BY DEF EmptyMap, IsStats

LEMMA OutcomeSound ==
  ASSUME DeviceOK, NEW r, NEW s \in Statuses
  PROVE  Sound(r, Outcome(s))
<1>1. TypedResponse(Outcome(s).response)
  BY EmptyMapTyped DEF TypedResponse, IsResponse, Outcome, DeviceOK
<1>2. Outcome(s).tree = tree /\ Outcome(s).fds = fds /\ DOMAIN Outcome(s).response.stats = {}
  BY EmptyMapTyped DEF Outcome
<1> QED
  BY <1>1, <1>2 DEF Sound, DeviceOK

LEMMA ChangedSound ==
  ASSUME DeviceOK, NEW r, NEW t, IsTree(t), MadeBy(t, changes + 1) \/ MadeBy(t, changes)
  PROVE  Sound(r, Changed(t))
<1>1. /\ Changed(t).tree = t /\ Changed(t).fds = fds
      /\ Changed(t).response = Outcome("Success").response
  BY DEF Changed, Success, Outcome
<1>2. Sound(r, Outcome("Success"))
  BY OutcomeSound DEF Statuses
<1>3. MadeBy(t, changes + 1)
  <2>1. ASSUME MadeBy(t, changes) PROVE MadeBy(t, changes + 1)
    <3>1. \A p \in DOMAIN t : t[p].ino \in Nat
      BY DEF IsTree, Entries
    <3> QED
      BY <2>1, <3>1 DEF MadeBy, DeviceOK
  <2> QED
    BY <2>1
<1> QED
  BY <1>1, <1>2, <1>3 DEF Sound, DeviceOK

LEMMA ToldSound ==
  ASSUME DeviceOK, NEW r, NEW S \in SUBSET DOMAIN tree, r.type = "ListDirectory" => S \subseteq EntriesOf(r.path)
  PROVE  Sound(r, Told(S))
<1> DEFINE m == [p \in S |-> [stat |-> tree[p], seen |-> changes]]
<1>1. /\ Told(S).tree = tree /\ Told(S).fds = fds
      /\ Told(S).response = [status |-> "Success", stats |-> m, seen |-> changes, fd |-> NoFd, ino |-> 0,
                             made |-> FALSE]
  BY Zenon DEF Told, Success, Outcome
<1>2. DOMAIN m = S /\ IsStats(m)
  <2>1. \A p \in S : p \in Paths /\ [stat |-> tree[p], seen |-> changes] \in SeenStat
    BY DEF DeviceOK, IsTree, SeenStat
  <2> QED
    BY Zenon, <2>1 DEF IsStats
<1> HIDE DEF m
<1>3. TypedResponse(Told(S).response)
  BY <1>1, <1>2 DEF TypedResponse, IsResponse, Statuses, DeviceOK
<1> QED
  BY <1>1, <1>2, <1>3 DEF Sound, DeviceOK

\* The status of a lookup is a status.
LEMMA LookupStatus ==
  ASSUME NEW p
  PROVE  /\ Resolve(p) \in Statuses /\ stat_file(p) \in Statuses /\ DirStatus(p) \in Statuses
         /\ OpenDir(p) \in Statuses /\ can_remove_directory_entry(p) \in Statuses
<1>1. \A q : Resolve(q) \in Statuses
  BY DEF Resolve, Statuses
<1>2. \A q : stat_file(q) \in Statuses
  BY <1>1 DEF stat_file, Statuses
<1>3. DirStatus(p) \in Statuses /\ OpenDir(p) \in Statuses
  BY <1>2 DEF DirStatus, OpenDir, Statuses
<1>4. can_remove_directory_entry(p) \in Statuses
  BY <1>2 DEF can_remove_directory_entry, Statuses
<1> QED
  BY <1>1, <1>2, <1>3, <1>4

\* The descriptor that open gives is free.
LEMMA LowestIsFree ==
  ASSUME ~NoFdLeft
  PROVE  LowestFree \in Fds /\ LowestFree \in Nat /\ LowestFree \notin DOMAIN fds
<1>1. LowestFree \in Fds /\ Lowest(LowestFree)
  BY DEF LowestFree, NoFdLeft
<1> QED
  BY <1>1, FdsAssumption DEF Fds, Lowest

\* The fields of the outcome of a request.
LEMMA Fields ==
  ASSUME NEW o, NEW a, NEW b, NEW d, o = [tree |-> a, fds |-> b, response |-> d]
  PROVE  o.tree = a /\ o.fds = b /\ o.response = d
OBVIOUS

LEMMA OpenedSound ==
  ASSUME DeviceOK, ~NoFdLeft, NEW r, r.type = "OpenHandle", r.read \in BOOLEAN, r.write \in BOOLEAN,
         NEW t, IsTree(t), t = tree \/ MadeBy(t, changes + 1), r.path \in DOMAIN t, NEW made
  PROVE  Sound(r, Opened(r, t, made))
<1> DEFINE e == [ino |-> t[r.path].ino, read |-> r.read, write |-> r.write]
           m == With(fds, LowestFree, e)
<1>1. LowestFree \in Fds /\ LowestFree \in Nat
  BY LowestIsFree
<1>2. e \in [ino : Nat, read : BOOLEAN, write : BOOLEAN]
  BY DEF IsTree, Entries
<1> HIDE DEF e
<1>3. IsFds(m)
  <2>1. DOMAIN m = DOMAIN fds \cup {LowestFree} /\ \A f \in DOMAIN m : m[f] = e \/ (f \in DOMAIN fds /\ m[f] = fds[f])
    BY DEF With
  <2> QED
    BY <1>1, <1>2, <2>1 DEF DeviceOK, IsFds
<1> HIDE DEF m
<1>4. /\ Opened(r, t, made).tree = t /\ Opened(r, t, made).fds = m
      /\ Opened(r, t, made).response = [status |-> "Success", stats |-> EmptyMap, seen |-> changes,
                                        fd |-> LowestFree, ino |-> t[r.path].ino, made |-> made]
  <2> DEFINE a == [status |-> "Success", stats |-> EmptyMap, seen |-> changes,
                   fd |-> LowestFree, ino |-> t[r.path].ino, made |-> made]
  <2>1. Opened(r, t, made) = [tree |-> t, fds |-> m, response |-> a]
    BY Zenon DEF Opened, m, e
  <2> HIDE DEF a
  <2>2. Opened(r, t, made).tree = t /\ Opened(r, t, made).fds = m /\ Opened(r, t, made).response = a
    BY <2>1, Fields
  <2> QED
    BY <2>2 DEF a
<1>5. TypedResponse(Opened(r, t, made).response)
  BY <1>1, <1>4, EmptyMapTyped DEF TypedResponse, IsResponse, Statuses, DeviceOK
<1> QED
  BY <1>3, <1>4, <1>5 DEF Sound

LEMMA MoveSound ==
  ASSUME DeviceOK, NEW r, IsRequest(r), r.type = "MoveEntry"
  PROVE  Sound(r, handle_move_entry(r))
<1>0. r.path \in Paths /\ r.to \in Paths
  BY DEF IsRequest, PathRequests
<1>1. \A s \in Statuses : Sound(r, Outcome(s))
  BY OutcomeSound
<1>2. \A q : stat_file(q) \in Statuses /\ Resolve(q) \in Statuses
  BY LookupStatus
<1>3. ASSUME Resolve(r.to) = "Success" PROVE Sound(r, Rename(r.path, r.to))
  <2>1. ASSUME stat_file(r.path) = "Success", ~Within(r.to, r.path), Children(r.to) = {},
               DOMAIN Renamed(r.path, r.to) \subseteq Paths
        PROVE  Sound(r, Changed(Renamed(r.path, r.to)))
    BY <1>0, <1>3, <2>1, TreeRenamed, ChangedSound DEF DeviceOK
  <2> QED
    BY <1>1, <1>2, <2>1 DEF Rename, Success, Statuses
<1> QED
  BY <1>1, <1>2, <1>3 DEF handle_move_entry, Statuses

LEMMA RemoveSound ==
  ASSUME DeviceOK, NEW r, IsRequest(r)
  PROVE  Sound(r, handle_remove_file(r)) /\ Sound(r, handle_remove_directory(r))
<1>1. \A s \in Statuses : Sound(r, Outcome(s))
  BY OutcomeSound
<1>2. \A q : stat_file(q) \in Statuses /\ DirStatus(q) \in Statuses
  BY LookupStatus
<1>3. ASSUME r.path # << >>, Children(r.path) = {} PROVE Sound(r, Changed(Without(tree, {r.path})))
  <2>1. IsTree(Without(tree, {r.path})) /\ MadeBy(Without(tree, {r.path}), changes)
    BY <1>3, TreeWithout DEF DeviceOK
  <2> QED
    BY <2>1, ChangedSound
<1>4. ASSUME stat_file(r.path) = "Success", ~tree[r.path].dir
      PROVE  r.path # << >> /\ Children(r.path) = {}
  BY <1>4, FileHasNoChildren DEF DeviceOK, IsTree
<1>5. "NotAFile" \in Statuses /\ "GenericFailure" \in Statuses /\ "DirectoryNotEmpty" \in Statuses
  BY DEF Statuses
<1>6. Sound(r, handle_remove_file(r))
  BY <1>1, <1>2, <1>3, <1>4, <1>5 DEF handle_remove_file
<1>7. Sound(r, handle_remove_directory(r))
  BY <1>1, <1>2, <1>3, <1>5 DEF handle_remove_directory
<1> QED
  BY <1>6, <1>7

LEMMA OpenSound ==
  ASSUME DeviceOK, NEW r, IsRequest(r), r.type = "OpenHandle"
  PROVE  Sound(r, handle_open_handle(r))
<1>0. r.path \in Paths /\ r.read \in BOOLEAN /\ r.write \in BOOLEAN
  BY DEF IsRequest, PathRequests
<1>1. \A s \in Statuses : Sound(r, Outcome(s))
  BY OutcomeSound
<1>2. stat_file(r.path) \in Statuses
  BY LookupStatus
<1>3. ASSUME ~NoFdLeft, stat_file(r.path) = "FileNotFound", Resolve(r.path) = "Success"
      PROVE  Sound(r, Opened(r, With(tree, r.path, Entry(FALSE, changes + 1)), TRUE))
  <2> DEFINE t == With(tree, r.path, Entry(FALSE, changes + 1))
  <2>1. ~Exists(r.path)
    BY <1>3 DEF stat_file
  <2>2. IsTree(t) /\ MadeBy(t, changes + 1)
    BY Zenon, <1>0, <1>3, <2>1, TreeWith DEF DeviceOK
  <2>3. r.path \in DOMAIN t
    BY DEF With
  <2> HIDE DEF t
  <2>4. Sound(r, Opened(r, t, TRUE))
    BY Zenon, <1>0, <1>3, <2>2, <2>3, OpenedSound
  <2> QED
    BY Zenon, <2>4 DEF t
<1>4. ASSUME ~NoFdLeft, stat_file(r.path) = "Success"
      PROVE  Sound(r, Opened(r, tree, FALSE)) /\ Sound(r, Opened(r, Modified(tree[r.path].ino), FALSE))
  <2>1. r.path \in DOMAIN tree
    BY <1>4 DEF stat_file, Exists
  <2>2. PICK t : t = Modified(tree[r.path].ino)
    OBVIOUS
  <2>3. IsTree(t) /\ MadeBy(t, changes) /\ DOMAIN t = DOMAIN tree
    BY Zenon, <2>2, TreeModified DEF DeviceOK, Modified
  <2>4. MadeBy(t, changes + 1)
    <3>1. \A p \in DOMAIN t : t[p].ino \in Nat
      BY <2>3 DEF IsTree, Entries
    <3> QED
      BY <2>3, <3>1 DEF MadeBy, DeviceOK
  <2>5. Sound(r, Opened(r, t, FALSE))
    BY Zenon, <1>0, <1>4, <2>1, <2>3, <2>4, OpenedSound
  <2>6. Sound(r, Opened(r, tree, FALSE))
    BY Zenon, <1>0, <1>4, <2>1, OpenedSound DEF DeviceOK
  <2> QED
    BY Zenon, <2>2, <2>5, <2>6
<1>5. "NotAFile" \in Statuses /\ "GenericFailure" \in Statuses /\ "FileExists" \in Statuses
  BY DEF Statuses
<1> QED
  BY Zenon, <1>1, <1>2, <1>3, <1>4, <1>5 DEF handle_open_handle

\* Every handler leaves a tree, whatever the request.
LEMMA HandledSound ==
  ASSUME DeviceOK, NEW r, IsRequest(r)
  PROVE  Sound(r, Handled(r))
<1>1. \A s \in Statuses : Sound(r, Outcome(s))
  BY OutcomeSound
<1>2. \A q : /\ stat_file(q) \in Statuses /\ OpenDir(q) \in Statuses /\ Resolve(q) \in Statuses
             /\ can_remove_directory_entry(q) \in Statuses
  BY LookupStatus
<1>3. /\ "Success" \in Statuses /\ "GenericFailure" \in Statuses /\ "FileExists" \in Statuses
      /\ "DirectoryNotEmpty" \in Statuses
  BY DEF Statuses
<1>4. Sound(r, Success)
  BY <1>1, <1>3 DEF Success
<1>5. CASE r.type = "StatFile"
  <2>1. stat_file(r.path) = "Success" => Sound(r, Told({r.path}))
    <3>1. stat_file(r.path) = "Success" => {r.path} \in SUBSET DOMAIN tree
      BY DEF stat_file, Exists
    <3> QED
      BY <1>5, <3>1, ToldSound
  <2> QED
    BY <1>1, <1>2, <1>5, <2>1 DEF Handled, handle_stat_file
<1>6. CASE r.type = "ListDirectory"
  <2> DEFINE S == {p \in Children(r.path) : stat_file(p) = "Success"}
  <2>1. S \in SUBSET DOMAIN tree /\ S \subseteq EntriesOf(r.path)
    BY DEF Children, EntriesOf, DeviceOK, IsTree
  <2>2. Sound(r, Told(S))
    <3> HIDE DEF S
    <3> QED
      BY <2>1, ToldSound
  <2> QED
    BY <1>1, <1>2, <1>6, <2>2 DEF Handled, handle_list_dir_stats
<1>7. CASE r.type = "MoveEntry"
  BY <1>7, MoveSound DEF Handled
<1>8. CASE r.type = "RemoveFile"
  BY <1>8, RemoveSound DEF Handled
<1>9. CASE r.type = "RemoveDirectory"
  BY <1>9, RemoveSound DEF Handled
<1>10. CASE r.type = "CreateDirectory"
  <2>1. r.path \in Paths
    BY <1>10 DEF IsRequest, PathRequests
  <2>2. ASSUME ~Exists(r.path), Resolve(r.path) = "Success"
        PROVE  Sound(r, Changed(With(tree, r.path, Entry(TRUE, changes + 1))))
    BY Zenon, <2>1, <2>2, TreeWith, ChangedSound DEF DeviceOK
  <2> QED
    BY <1>1, <1>2, <1>3, <1>10, <2>2, Zenon DEF Handled, handle_create_directory_request
<1>11. CASE r.type = "OpenHandle"
  BY <1>11, OpenSound DEF Handled
<1>12. CASE r.type = "ReadHandle"
  BY <1>1, <1>3, <1>4, <1>12 DEF Handled, handle_read_file
<1>13. ASSUME NEW i PROVE Sound(r, Changed(Modified(i)))
  BY TreeModified, ChangedSound DEF DeviceOK
<1>14. CASE r.type \in {"WriteHandle", "TruncateHandle"}
  BY <1>1, <1>3, <1>13, <1>14 DEF Handled, handle_write_file
<1>15. CASE r.type = "CloseHandle"
  <2> DEFINE m == Without(fds, {r.fd})
  <2>1. /\ handle_close(r).tree = tree /\ handle_close(r).fds = m
        /\ handle_close(r).response = Outcome("Success").response
    BY DEF handle_close, Success, Outcome
  <2>2. IsFds(m)
    <3>1. DOMAIN m = DOMAIN fds \ {r.fd} /\ \A f \in DOMAIN m : m[f] = fds[f]
      BY DEF Without, Restrict
    <3> QED
      BY Zenon, <3>1 DEF DeviceOK, IsFds
  <2>3. Sound(r, handle_close(r))
    BY <1>1, <1>3, <1>15, <2>1, <2>2 DEF Sound, DeviceOK
  <2> QED
    BY <1>15, <2>3 DEF Handled
<1>16. CASE r.type = "SetFileTime"
  BY <1>1, <1>2, <1>13, <1>16 DEF Handled, handle_set_file_time
<1>17. CASE r.type = "CheckRemoveFile"
  BY <1>1, <1>2, <1>17 DEF Handled, handle_check_remove_file
<1>18. CASE r.type = "CheckRemoveDirectory"
  BY <1>1, <1>2, <1>3, <1>18 DEF Handled, handle_check_remove_directory
<1>19. CASE r.type = "GetDiskStats"
  BY <1>4, <1>19 DEF Handled
<1> QED
  BY <1>5, <1>6, <1>7, <1>8, <1>9, <1>10, <1>11, <1>12, <1>14, <1>15, <1>16, <1>17, <1>18, <1>19
     DEF IsRequest, PathRequests, HandleRequests

-----------------------------------------------------------------------------
(* The inductive invariant: types, and what keeps them.                    *)

\* A cached listing names entries there can be.
ListingsOK ==
  \A d \in DOMAIN dir_list_cache :
    /\ d \in Paths /\ dir_list_cache[d].seen \in Nat
    /\ dir_list_cache[d].names \subseteq {n \in STRING : Append(d, n) \in Paths}

\* The caller passes requests, and what the daemon tells of a directory is in it.
CallOK(r, p, a) ==
  /\ IsRequest(r) /\ TypedResponse(a)
  /\ p = "reply" /\ r.type = "ListDirectory" => DOMAIN a.stats \subseteq EntriesOf(r.path)

ConnInv ==
  /\ DeviceOK /\ app_changes \in 0..MaxAppChanges
  /\ IsStats(stat_cache) /\ ListingsOK
  /\ request_mutex \in Threads \cup {NoThread}
  /\ pc \in [Threads -> {"idle", "check", "walk", "lock", "wire", "reply", "done"}]
  /\ call = [t \in Threads |-> call[t]] /\ response = [t \in Threads |-> response[t]]
  /\ \A t \in Threads : CallOK(call[t], pc[t], response[t])
  /\ walk \in [Threads -> SUBSET Paths]
  /\ expiries \in 0..MaxExpiries
  /\ lastop \in [Paths -> Nat] /\ lastdir \in [Paths -> Nat] /\ shown \in [Paths -> Nat]

LEMMA ConnTypes == ConnInv => ConnTypeOK
<1> SUFFICES ASSUME ConnInv PROVE ConnTypeOK
  OBVIOUS
<1>1. DeviceTypeOK
  BY DEF ConnInv, DeviceOK, IsFds, DeviceTypeOK
<1>2. /\ DOMAIN dir_list_cache \subseteq Paths
      /\ \A d \in DOMAIN dir_list_cache :
           dir_list_cache[d].names \subseteq STRING /\ dir_list_cache[d].seen \in Nat
  BY DEF ConnInv, ListingsOK
<1>3. \A t \in Threads :
        /\ response[t].status \in Statuses /\ IsStats(response[t].stats)
        /\ response[t].fd \in Nat \cup {NoFd}
  BY DEF ConnInv, CallOK, TypedResponse
<1> QED
  BY <1>1, <1>2, <1>3 DEF ConnInv, ConnTypeOK

LEMMA NothingTyped == IsRequest(NoRequest) /\ TypedResponse(NoResponse)
<1>1. IsRequest(NoRequest)
  BY DEF IsRequest, NoRequest, PathRequests
<1>2. TypedResponse(NoResponse)
  BY EmptyMapTyped DEF TypedResponse, IsResponse, NoResponse, Statuses
<1> QED
  BY <1>1, <1>2

LEMMA ConnInitial == ConnInit => ConnInv
<1> SUFFICES ASSUME ConnInit PROVE ConnInv
  OBVIOUS
<1>1. DeviceOK /\ app_changes \in 0..MaxAppChanges
  <2>1. IsFds(EmptyMap)
    BY EmptyMapTyped DEF IsFds
  <2> QED
    BY <2>1, TreeAssumption, AppAssumption DEF ConnInit, DeviceInit, DeviceOK, MadeBy
<1>2. IsStats(stat_cache) /\ ListingsOK
  BY EmptyMapTyped DEF ConnInit, ListingsOK
<1>3. \A t \in Threads : CallOK(call[t], pc[t], response[t])
  BY NothingTyped DEF ConnInit, CallOK
<1>4. expiries \in 0..MaxExpiries
  BY ThreadAssumption DEF ConnInit
<1>5. /\ request_mutex \in Threads \cup {NoThread}
      /\ pc \in [Threads -> {"idle", "check", "walk", "lock", "wire", "reply", "done"}]
      /\ call = [t \in Threads |-> call[t]] /\ response = [t \in Threads |-> response[t]]
      /\ walk \in [Threads -> SUBSET Paths]
  BY DEF ConnInit
<1>6. lastop \in [Paths -> Nat] /\ lastdir \in [Paths -> Nat] /\ shown \in [Paths -> Nat]
  BY DEF ConnInit
<1> QED
  BY <1>1, <1>2, <1>3, <1>4, <1>5, <1>6 DEF ConnInv

-----------------------------------------------------------------------------
(* The steps.                                                              *)

Shared ==
  /\ DeviceOK /\ app_changes \in 0..MaxAppChanges
  /\ IsStats(stat_cache) /\ ListingsOK
  /\ request_mutex \in Threads \cup {NoThread}
  /\ expiries \in 0..MaxExpiries

ThreadsOK ==
  /\ walk \in [Threads -> SUBSET Paths]
  /\ lastop \in [Paths -> Nat] /\ lastdir \in [Paths -> Nat] /\ shown \in [Paths -> Nat]

\* Thread t goes to step p with the request r and the response a.
Moves(t, p, r, a) ==
  /\ p \in {"idle", "check", "walk", "lock", "wire", "reply", "done"} /\ CallOK(r, p, a)
  /\ pc' = [pc EXCEPT ![t] = p] /\ call' = [call EXCEPT ![t] = r]
  /\ response' = [response EXCEPT ![t] = a]

LEMMA ConnParts == ConnInv => Shared /\ ThreadsOK
BY DEF ConnInv, Shared, ThreadsOK

LEMMA Moved ==
  ASSUME ConnInv, NEW t \in Threads, NEW p, NEW r, NEW a, Moves(t, p, r, a), Shared', ThreadsOK'
  PROVE  ConnInv'
<1>1. /\ pc \in [Threads -> {"idle", "check", "walk", "lock", "wire", "reply", "done"}]
      /\ call = [u \in Threads |-> call[u]] /\ response = [u \in Threads |-> response[u]]
      /\ \A u \in Threads : CallOK(call[u], pc[u], response[u])
  BY DEF ConnInv
<1>2. /\ pc' \in [Threads -> {"idle", "check", "walk", "lock", "wire", "reply", "done"}]
      /\ call' = [u \in Threads |-> call'[u]] /\ response' = [u \in Threads |-> response'[u]]
  BY Zenon, <1>1 DEF Moves
<1>3. ASSUME NEW u \in Threads PROVE CallOK(call'[u], pc'[u], response'[u])
  <2>1. CASE u = t
    <3>1. call'[t] = r /\ pc'[t] = p /\ response'[t] = a
      BY <1>1 DEF Moves
    <3> QED
      BY <2>1, <3>1 DEF Moves
  <2>2. CASE u # t
    <3>1. call'[u] = call[u] /\ pc'[u] = pc[u] /\ response'[u] = response[u]
      BY Zenon, <1>1, <2>2 DEF Moves
    <3> QED
      BY <1>1, <3>1
  <2> QED
    BY <2>1, <2>2
<1> QED
  BY <1>2, <1>3 DEF ConnInv, Shared, ThreadsOK

LEMMA AnswerUpdated ==
  ASSUME NEW x, IsResponse(x), NEW status, NEW m
  PROVE  [x EXCEPT !.status = status, !.stats = m]
           = [status |-> status, stats |-> m, seen |-> x.seen, fd |-> x.fd, ino |-> x.ino, made |-> x.made]
<1>1. PICK a, b, c, d, e, f :
        x = [status |-> a, stats |-> b, seen |-> c, fd |-> d, ino |-> e, made |-> f]
  BY DEF IsResponse
<1>2. [x EXCEPT !.status = status]
        = [status |-> status, stats |-> b, seen |-> c, fd |-> d, ino |-> e, made |-> f]
  BY <1>1
<1>3. [[status |-> status, stats |-> b, seen |-> c, fd |-> d, ino |-> e, made |-> f] EXCEPT !.stats = m]
        = [status |-> status, stats |-> m, seen |-> c, fd |-> d, ino |-> e, made |-> f]
  OBVIOUS
<1> QED
  BY Zenon, <1>1, <1>2, <1>3

LEMMA ShowTyped ==
  ASSUME ConnInv, NEW t \in Threads, NEW status \in Statuses, NEW m, IsStats(m), Show(t, status, m)
  PROVE  /\ \E a : response' = [response EXCEPT ![t] = a] /\ TypedResponse(a) /\ a.stats = m
         /\ shown' \in [Paths -> Nat]
<1> DEFINE a == [response[t] EXCEPT !.status = status, !.stats = m]
<1>1. response = [u \in Threads |-> response[u]] /\ TypedResponse(response[t]) /\ shown \in [Paths -> Nat]
  BY DEF ConnInv, CallOK
<1>2. a = [status |-> status, stats |-> m, seen |-> response[t].seen, fd |-> response[t].fd,
           ino |-> response[t].ino, made |-> response[t].made]
  BY Zenon, <1>1, AnswerUpdated DEF TypedResponse
<1>3. response' = [response EXCEPT ![t] = a]
  BY Zenon, <1>1 DEF Show
<1> HIDE DEF a
<1>4. TypedResponse(a) /\ a.stats = m
  BY <1>1, <1>2 DEF TypedResponse, IsResponse
<1>5. \A p \in DOMAIN m : m[p].seen \in Nat
  BY DEF IsStats, SeenStat
<1>6. shown' \in [Paths -> Nat]
  BY <1>1, <1>5 DEF Show
<1> QED
  BY Zenon, <1>3, <1>4, <1>6

LEMMA StatMaps ==
  ASSUME NEW m, IsStats(m), NEW n, IsStats(n), NEW S
  PROVE  IsStats(Only(m, S)) /\ IsStats(Without(m, S)) /\ IsStats(Overlaid(m, n))
<1>1. IsStats(Only(m, S))
  BY DEF Only, Restrict, IsStats
<1>2. IsStats(Without(m, S))
  BY DEF Without, Restrict, IsStats
<1>3. IsStats(Overlaid(m, n))
  BY DEF Overlaid, IsStats
<1> QED
  BY <1>1, <1>2, <1>3

LEMMA ListingsErased ==
  ASSUME ListingsOK, NEW D, dir_list_cache' = Without(dir_list_cache, D)
  PROVE  ListingsOK'
<1>1. /\ DOMAIN dir_list_cache' \subseteq DOMAIN dir_list_cache
      /\ \A d \in DOMAIN dir_list_cache' : dir_list_cache'[d] = dir_list_cache[d]
  BY DEF Without, Restrict
<1> QED
  BY <1>1 DEF ListingsOK

LEMMA NameOf ==
  ASSUME NEW p \in Names, p # << >>
  PROVE  Name(p) \in STRING /\ Append(Parent(p), Name(p)) = p
<1>1. /\ Parent(p) \in Names /\ Len(Parent(p)) = Len(p) - 1 /\ Len(p) \in Nat \ {0}
      /\ \A i \in 1..(Len(p) - 1) : Parent(p)[i] = p[i]
  BY ParentOf
<1>2. Len(p) \in 1..Len(p)
  BY <1>1
<1>3. Name(p) \in STRING
  BY <1>2 DEF Name, Names
<1>4. /\ Append(Parent(p), Name(p)) \in Names /\ Len(Append(Parent(p), Name(p))) = Len(Parent(p)) + 1
      /\ \A i \in 1..Len(Parent(p)) : Append(Parent(p), Name(p))[i] = Parent(p)[i]
      /\ Append(Parent(p), Name(p))[Len(Parent(p)) + 1] = Name(p)
  BY <1>1, <1>3 DEF Names
<1>5. Len(Append(Parent(p), Name(p))) = Len(p)
  BY <1>1, <1>4
<1>6. \A i \in 1..Len(p) : Append(Parent(p), Name(p))[i] = p[i]
  <2> SUFFICES ASSUME NEW i \in 1..Len(p) PROVE Append(Parent(p), Name(p))[i] = p[i]
    OBVIOUS
  <2>1. CASE i = Len(p)
    BY <1>1, <1>4, <2>1 DEF Name
  <2>2. CASE i # Len(p)
    BY <1>1, <1>4, <2>2
  <2> QED
    BY Zenon, <2>1, <2>2
<1> QED
  BY Zenon, <1>3, <1>4, <1>5, <1>6, SameNames

\* A step that changes neither the arguments nor the response of t.
LEMMA GoesTo ==
  ASSUME ConnInv, NEW t \in Threads, NEW p \in {"check", "walk", "lock", "wire", "done"},
         Goes(t, p), UNCHANGED <<call, response>>
  PROVE  Moves(t, p, call[t], response[t])
<1>1. /\ call = [u \in Threads |-> call[u]] /\ response = [u \in Threads |-> response[u]]
      /\ CallOK(call[t], pc[t], response[t])
  BY DEF ConnInv
<1>2. CallOK(call[t], p, response[t])
  BY <1>1 DEF CallOK
<1>3. call' = [call EXCEPT ![t] = call[t]] /\ response' = [response EXCEPT ![t] = response[t]]
  BY Zenon, <1>1
<1> QED
  BY Zenon, <1>2, <1>3 DEF Moves, Goes

\* A step that hands stats to the caller.
LEMMA Shows ==
  ASSUME ConnInv, NEW t \in Threads, NEW p \in {"walk", "done"}, Goes(t, p), UNCHANGED call,
         NEW status \in Statuses, NEW m, IsStats(m), Show(t, status, m)
  PROVE  (\E a : Moves(t, p, call[t], a)) /\ shown' \in [Paths -> Nat]
<1>1. call = [u \in Threads |-> call[u]] /\ CallOK(call[t], pc[t], response[t])
  BY DEF ConnInv
<1>2. PICK a : response' = [response EXCEPT ![t] = a] /\ TypedResponse(a) /\ a.stats = m
  BY ShowTyped
<1>3. shown' \in [Paths -> Nat]
  BY ShowTyped
<1>4. CallOK(call[t], p, a)
  BY <1>1, <1>2 DEF CallOK
<1>5. call' = [call EXCEPT ![t] = call[t]]
  BY <1>1
<1>6. Moves(t, p, call[t], a)
  BY Zenon, <1>2, <1>4, <1>5 DEF Moves, Goes
<1> QED
  BY <1>3, <1>6

LEMMA CheckStatTyped ==
  ASSUME ConnInv, NEW t \in Threads, check_stat(t)
  PROVE  ConnInv'
<1>1. /\ UNCHANGED <<tree, fds, changes, app_changes, stat_cache, dir_list_cache, request_mutex, call, walk>>
      /\ UNCHANGED <<expiries, lastop, lastdir>>
  BY Zenon DEF check_stat, device, caches
<1>2. Shared'
  BY Zenon, <1>1, ConnParts DEF Shared, DeviceOK, ListingsOK
<1>3. CASE Show(t, "Success", Only(stat_cache, {call[t].path})) /\ Goes(t, "done")
  <2>1. "Success" \in Statuses /\ IsStats(Only(stat_cache, {call[t].path}))
    BY StatMaps DEF Statuses, ConnInv
  <2>2. PICK a : Moves(t, "done", call[t], a)
    BY <1>1, <1>3, <2>1, Shows
  <2>3. shown' \in [Paths -> Nat]
    BY <1>1, <1>3, <2>1, Shows
  <2>4. ThreadsOK'
    BY <1>1, <2>3, ConnParts DEF ThreadsOK
  <2> QED
    BY <1>2, <2>2, <2>4, Moved
<1>4. CASE Goes(t, "lock") /\ UNCHANGED <<response, shown>>
  <2>1. Moves(t, "lock", call[t], response[t])
    BY <1>1, <1>4, GoesTo
  <2>2. ThreadsOK'
    BY <1>1, <1>4, ConnParts DEF ThreadsOK
  <2> QED
    BY <1>2, <2>1, <2>2, Moved
<1> QED
  BY <1>3, <1>4 DEF check_stat

LEMMA CheckListingTyped ==
  ASSUME ConnInv, NEW t \in Threads, check_listing(t)
  PROVE  ConnInv'
<1>1. /\ UNCHANGED <<tree, fds, changes, app_changes, stat_cache, dir_list_cache, request_mutex, call, response>>
      /\ UNCHANGED <<expiries, lastop, lastdir, shown>>
  BY Zenon DEF check_listing, device, caches, history
<1>2. Shared'
  BY Zenon, <1>1, ConnParts DEF Shared, DeviceOK, ListingsOK
<1>3. PICK p \in {"walk", "lock"} : Goes(t, p)
  BY Zenon DEF check_listing
<1>4. Moves(t, p, call[t], response[t])
  BY <1>1, <1>3, GoesTo
<1>5. walk' \in [Threads -> SUBSET Paths]
  <2> DEFINE W == {get_full_path(call[t].path, n) : n \in dir_list_cache[call[t].path].names}
  <2>0. walk \in [Threads -> SUBSET Paths]
    BY DEF ConnInv
  <2>1. call[t].path \in DOMAIN dir_list_cache => W \subseteq Paths
    BY Zenon DEF ConnInv, ListingsOK, get_full_path
  <2>2. walk' = walk \/ (call[t].path \in DOMAIN dir_list_cache /\ walk' = [walk EXCEPT ![t] = W])
    BY DEF check_listing
  <2> HIDE DEF W
  <2> QED
    BY <2>0, <2>1, <2>2
<1>6. ThreadsOK'
  BY <1>1, <1>5, ConnParts DEF ThreadsOK
<1> QED
  BY <1>2, <1>4, <1>6, Moved

LEMMA WalkTyped ==
  ASSUME ConnInv, NEW t \in Threads, walk_listing(t)
  PROVE  ConnInv'
<1>0. pc[t] = "walk" /\ pc \in [Threads -> {"idle", "check", "walk", "lock", "wire", "reply", "done"}]
  BY DEF walk_listing, ConnInv
<1>1. /\ UNCHANGED <<tree, fds, changes, app_changes, stat_cache, dir_list_cache, request_mutex, call>>
      /\ UNCHANGED <<expiries, lastop, lastdir>>
  BY DEF walk_listing, device, caches
<1>2. Shared'
  BY <1>1, ConnParts DEF Shared, DeviceOK, ListingsOK
<1>3. TypedResponse(response[t]) /\ IsStats(stat_cache) /\ walk \in [Threads -> SUBSET Paths]
  BY DEF ConnInv, CallOK
<1>4. ASSUME NEW p \in walk[t], walk' = [walk EXCEPT ![t] = @ \ {p}],
             Show(t, "none", Overlaid(response[t].stats, Only(stat_cache, {p}))), UNCHANGED pc
      PROVE  ConnInv'
  <2>1. "none" \in Statuses /\ IsStats(Overlaid(response[t].stats, Only(stat_cache, {p})))
    BY <1>3, StatMaps DEF Statuses, TypedResponse
  <2>2. Goes(t, "walk")
    BY <1>0, <1>4 DEF Goes
  <2>3. PICK a : Moves(t, "walk", call[t], a)
    BY <1>1, <1>4, <2>1, <2>2, Shows
  <2>4. shown' \in [Paths -> Nat]
    BY <1>1, <1>4, <2>1, <2>2, Shows
  <2>5. walk' \in [Threads -> SUBSET Paths]
    BY <1>3, <1>4
  <2>6. ThreadsOK'
    BY <1>1, <2>4, <2>5, ConnParts DEF ThreadsOK
  <2> QED
    BY <1>2, <2>3, <2>6, Moved
<1>5. CASE response' = [response EXCEPT ![t].status = "Success"] /\ Goes(t, "done") /\ UNCHANGED <<walk, shown>>
  <2> DEFINE a == [response[t] EXCEPT !.status = "Success"]
  <2>1. response = [u \in Threads |-> response[u]] /\ call = [u \in Threads |-> call[u]]
    BY DEF ConnInv
  <2>2. response' = [response EXCEPT ![t] = a] /\ call' = [call EXCEPT ![t] = call[t]]
    BY Zenon, <1>1, <1>5, <2>1
  <2>3. TypedResponse(a)
    <3>1. a = [status |-> "Success", stats |-> response[t].stats, seen |-> response[t].seen,
               fd |-> response[t].fd, ino |-> response[t].ino, made |-> response[t].made]
      BY <1>3 DEF TypedResponse, IsResponse
    <3> HIDE DEF a
    <3> QED
      BY <1>3, <3>1 DEF TypedResponse, IsResponse, Statuses
  <2> HIDE DEF a
  <2>4. Moves(t, "done", call[t], a)
    BY Zenon, <1>5, <2>2, <2>3 DEF Moves, Goes, CallOK, ConnInv
  <2>5. ThreadsOK'
    BY <1>1, <1>5, ConnParts DEF ThreadsOK
  <2> QED
    BY <1>2, <2>4, <2>5, Moved
<1> QED
  BY Zenon, <1>4, <1>5 DEF walk_listing

LEMMA SendTyped ==
  ASSUME ConnInv, NEW t \in Threads, NEW S, NEW D, Send(t, S, D)
  PROVE  ConnInv'
<1>1. /\ UNCHANGED <<tree, fds, changes, app_changes, call, response, walk>>
      /\ UNCHANGED <<expiries, lastop, lastdir, shown>>
  BY DEF Send, device, history
<1>2. IsStats(stat_cache)' /\ ListingsOK' /\ request_mutex' \in Threads
  BY StatMaps, ListingsErased DEF Send, ConnInv
<1>3. Shared'
  BY <1>1, <1>2, ConnParts DEF Shared, DeviceOK
<1>4. Moves(t, "wire", call[t], response[t])
  BY <1>1, GoesTo DEF Send
<1>5. ThreadsOK'
  BY <1>1, ConnParts DEF ThreadsOK
<1> QED
  BY <1>3, <1>4, <1>5, Moved

LEMMA EarlyTyped ==
  ASSUME ConnInv, NEW t \in Threads, ReturnEarly(t), NEW status \in Statuses, NEW m, IsStats(m),
         Show(t, status, m)
  PROVE  ConnInv'
<1>1. /\ UNCHANGED <<tree, fds, changes, app_changes, stat_cache, dir_list_cache, request_mutex, call, walk>>
      /\ UNCHANGED <<expiries, lastop, lastdir>> /\ Goes(t, "done")
  BY DEF ReturnEarly, device, caches
<1>2. Shared'
  BY <1>1, ConnParts DEF Shared, DeviceOK, ListingsOK
<1>3. PICK a : Moves(t, "done", call[t], a)
  BY <1>1, Shows
<1>4. shown' \in [Paths -> Nat]
  BY <1>1, Shows
<1>5. ThreadsOK'
  BY <1>1, <1>4, ConnParts DEF ThreadsOK
<1> QED
  BY <1>2, <1>3, <1>5, Moved

\* The methods, up to where they wait for the answer.
LEMMA MethodTyped ==
  ASSUME ConnInv, NEW t \in Threads,
         \/ req_stat_file(t) \/ req_list_file_stats(t) \/ req_open_file(t) \/ req_move_entry(t)
         \/ req_change_entry(t) \/ req_set_file_time(t) \/ req_plain(t)
  PROVE  ConnInv'
<1>1. /\ "Success" \in Statuses /\ "FileNotFound" \in Statuses /\ "GenericFailure" \in Statuses
      /\ IsStats(EmptyMap) /\ IsStats(Only(stat_cache, {call[t].path}))
  BY Zenon, EmptyMapTyped, StatMaps DEF Statuses, ConnInv
<1>2. CASE req_stat_file(t)
  BY Zenon, <1>1, <1>2, EarlyTyped, SendTyped DEF req_stat_file
<1>3. CASE req_open_file(t)
  BY Zenon, <1>1, <1>3, EarlyTyped, SendTyped DEF req_open_file
<1>4. CASE \/ req_list_file_stats(t) \/ req_move_entry(t)
           \/ req_change_entry(t) \/ req_set_file_time(t) \/ req_plain(t)
  BY Zenon, <1>4, SendTyped
     DEF req_list_file_stats, req_move_entry, req_change_entry, req_set_file_time, req_plain
<1> QED
  BY <1>2, <1>3, <1>4

LEMMA ServeTyped ==
  ASSUME ConnInv, NEW t \in Threads, Serve(t)
  PROVE  ConnInv'
<1> DEFINE o == Handled(call[t])
           time == IF o.tree = tree THEN changes ELSE changes + 1
<1>1. DeviceOK /\ IsRequest(call[t]) /\ lastop \in [Paths -> Nat] /\ lastdir \in [Paths -> Nat]
  BY DEF ConnInv, CallOK
<1>2. Sound(call[t], o)
  BY <1>1, HandledSound
<1>3. /\ tree' = o.tree /\ fds' = o.fds /\ changes' = time
      /\ response' = [response EXCEPT ![t] = o.response] /\ Goes(t, "reply")
      /\ UNCHANGED <<app_changes, stat_cache, dir_list_cache, request_mutex, call, walk, expiries, shown>>
  BY Zenon DEF Serve, caches
<1>4. lastop' = [p \in Paths |-> IF p \in Named(call[t]) /\ o.tree # tree THEN time ELSE lastop[p]]
  BY Zenon DEF Serve
<1>5. lastdir' = [p \in Paths |-> IF p \in Relisted(call[t], o.response.made) /\ o.tree # tree
                                  THEN time ELSE lastdir[p]]
  BY DEF Serve
<1> HIDE DEF o
<1>6. time \in Nat
  BY <1>1 DEF DeviceOK
<1>7. DeviceOK'
  <2>1. IsTree(tree') /\ IsFds(fds')
    BY Zenon, <1>2, <1>3 DEF Sound
  <2>2. MadeBy(tree', time)
    BY <1>1, <1>2, <1>3 DEF Sound, DeviceOK
  <2> QED
    BY <1>3, <1>6, <2>1, <2>2 DEF DeviceOK, IsTree, MadeBy, IsFds
<1> HIDE DEF time
<1>8. Shared'
  BY <1>3, <1>7, ConnParts DEF Shared, ListingsOK
<1>9. ThreadsOK'
  BY <1>1, <1>3, <1>4, <1>5, <1>6, ConnParts DEF ThreadsOK
<1>10. Moves(t, "reply", call[t], o.response)
  <2>1. CallOK(call[t], "reply", o.response)
    BY Zenon, <1>1, <1>2 DEF Sound, CallOK
  <2>2. call' = [call EXCEPT ![t] = call[t]]
    BY Zenon, <1>3 DEF ConnInv
  <2> QED
    BY Zenon, <1>3, <2>1, <2>2 DEF Moves, Goes
<1> QED
  BY <1>8, <1>9, <1>10, Moved

LEMMA ServeFailsTyped ==
  ASSUME ConnInv, NEW t \in Threads, ServeFails(t)
  PROVE  ConnInv'
<1>1. /\ UNCHANGED <<tree, fds, changes, app_changes, stat_cache, dir_list_cache, request_mutex, call, walk>>
      /\ UNCHANGED <<expiries, lastop, lastdir, shown>>
  BY DEF ServeFails, device, caches, history
<1>2. Shared'
  BY <1>1, ConnParts DEF Shared, DeviceOK, ListingsOK
<1>3. ThreadsOK'
  BY <1>1, ConnParts DEF ThreadsOK
<1>4. DeviceOK /\ IsRequest(call[t]) /\ "GenericFailure" \in Statuses
  BY DEF ConnInv, CallOK, Statuses
<1>5. Sound(call[t], Outcome("GenericFailure"))
  BY <1>4, OutcomeSound
<1>6. CallOK(call[t], "reply", Outcome("GenericFailure").response)
  BY <1>4, <1>5 DEF Sound, CallOK
<1>7. call' = [call EXCEPT ![t] = call[t]]
  BY <1>1 DEF ConnInv
<1>8. Moves(t, "reply", call[t], Outcome("GenericFailure").response)
  BY Zenon, <1>6, <1>7 DEF ServeFails, Moves, Goes
<1> QED
  BY <1>2, <1>3, <1>8, Moved

\* The names of a listing are names that can be in the directory.
LEMMA ListingAdded ==
  ASSUME ListingsOK, NEW d \in Paths, NEW S, S \subseteq EntriesOf(d), NEW n \in Nat,
         dir_list_cache' = With(dir_list_cache, d, [names |-> {Name(p) : p \in S}, seen |-> n])
  PROVE  ListingsOK'
<1> DEFINE e == [names |-> {Name(p) : p \in S}, seen |-> n]
<1>1. e.seen = n /\ e.names = {Name(p) : p \in S}
  OBVIOUS
<1>2. ASSUME NEW p \in S PROVE Name(p) \in STRING /\ Append(d, Name(p)) \in Paths
  <2>1. p \in Paths /\ p # << >> /\ Parent(p) = d
    BY DEF EntriesOf
  <2>2. p \in Names
    BY <2>1, PathsAssumption DEF Names
  <2> QED
    BY Zenon, <2>1, <2>2, NameOf
<1>3. e.names \subseteq {x \in STRING : Append(d, x) \in Paths}
  BY <1>1, <1>2
<1> HIDE DEF e
<1>4. DOMAIN dir_list_cache' = DOMAIN dir_list_cache \cup {d}
  BY DEF With
<1>5. \A c \in DOMAIN dir_list_cache' : dir_list_cache'[c] = IF c = d THEN e ELSE dir_list_cache[c]
  BY DEF With, e
<1> QED
  BY Zenon, <1>1, <1>3, <1>4, <1>5 DEF ListingsOK

LEMMA FinishTyped ==
  ASSUME ConnInv, NEW t \in Threads, Finish(t)
  PROVE  ConnInv'
<1>0. pc[t] = "reply" /\ CallOK(call[t], pc[t], response[t]) /\ IsStats(stat_cache) /\ ListingsOK
  BY DEF Finish, ConnInv
<1>1. /\ TypedResponse(response[t]) /\ IsStats(response[t].stats) /\ response[t].status \in Statuses
      /\ response[t].seen \in Nat /\ IsRequest(call[t])
  BY Zenon, <1>0 DEF CallOK, TypedResponse
<1>2. /\ UNCHANGED <<tree, fds, changes, app_changes, call, walk, expiries, lastop, lastdir>>
      /\ request_mutex' = NoThread /\ Goes(t, "done")
      /\ Show(t, response[t].status, response[t].stats)
  BY DEF Finish, device
<1>3. IsStats(stat_cache)'
  <2>1. stat_cache' = Overlaid(stat_cache, response[t].stats)
    BY Zenon DEF Finish
  <2>2. IsStats(Overlaid(stat_cache, response[t].stats))
    BY Zenon, <1>0, <1>1, StatMaps
  <2> QED
    BY <2>1, <2>2 DEF IsStats
<1>4. ListingsOK'
  <2>1. CASE call[t].type = "ListDirectory" /\ response[t].status = "Success"
    <3>1. call[t].path \in Paths /\ DOMAIN response[t].stats \subseteq EntriesOf(call[t].path)
      BY <1>0, <1>1, <2>1 DEF CallOK, IsRequest, PathRequests
    <3>2. dir_list_cache' = With(dir_list_cache, call[t].path,
            [names |-> {Name(p) : p \in DOMAIN response[t].stats}, seen |-> response[t].seen])
      BY Zenon, <2>1 DEF Finish
    <3> QED
      BY Zenon, <1>0, <1>1, <3>1, <3>2, ListingAdded
  <2>2. CASE dir_list_cache' = Without(dir_list_cache, get_parent_path(call[t].path))
    BY Zenon, <1>0, <2>2, ListingsErased
  <2>3. CASE dir_list_cache' = dir_list_cache
    BY Zenon, <1>0, <2>3 DEF ListingsOK
  <2> QED
    BY Zenon, <2>1, <2>2, <2>3 DEF Finish
<1>5. Shared'
  BY <1>2, <1>3, <1>4, ConnParts DEF Shared, DeviceOK
<1>6. PICK a : Moves(t, "done", call[t], a)
  BY <1>1, <1>2, Shows
<1>7. shown' \in [Paths -> Nat]
  BY <1>1, <1>2, Shows
<1>8. ThreadsOK'
  BY <1>2, <1>7, ConnParts DEF ThreadsOK
<1> QED
  BY <1>5, <1>6, <1>8, Moved

\* Every step of a method, and of the daemon for it.
LEMMA ThreadTyped ==
  ASSUME ConnInv, NEW t \in Threads, Thread(t)
  PROVE  ConnInv'
BY CheckStatTyped, CheckListingTyped, WalkTyped, MethodTyped, ServeTyped, ServeFailsTyped,
   FinishTyped DEF Thread

\* A method is called, or returns.
LEMMA CallTyped ==
  ASSUME ConnInv, NEW t \in Threads, NEW r, IsRequest(r), NEW a, TypedResponse(a),
         NEW p \in {"idle", "check", "lock", "done"},
         pc' = [pc EXCEPT ![t] = p], call' = [call EXCEPT ![t] = r],
         response' = [response EXCEPT ![t] = a],
         UNCHANGED <<device, caches, request_mutex, walk, expiries, history>>
  PROVE  ConnInv'
<1>1. /\ UNCHANGED <<tree, fds, changes, app_changes, stat_cache, dir_list_cache, request_mutex, walk>>
      /\ UNCHANGED <<expiries, lastop, lastdir, shown>>
  BY DEF device, caches, history
<1>2. Shared'
  BY <1>1, ConnParts DEF Shared, DeviceOK, ListingsOK
<1>3. ThreadsOK'
  BY <1>1, ConnParts DEF ThreadsOK
<1>4. Moves(t, p, r, a)
  BY DEF Moves, CallOK
<1> QED
  BY <1>2, <1>3, <1>4, Moved

LEMMA AskTyped ==
  ASSUME ConnInv, NEW t \in Threads, NEW r, IsRequest(r), Ask(t, r),
         UNCHANGED <<device, caches, request_mutex, walk, expiries, history>>
  PROVE  ConnInv'
<1>1. PICK p \in {"check", "lock"} : pc' = [pc EXCEPT ![t] = p]
  BY Zenon DEF Ask, Goes
<1> QED
  BY Zenon, <1>1, NothingTyped, CallTyped DEF Ask

\* What happens without a thread of the client: the threads are where they were.
LEMMA Elsewhere ==
  ASSUME ConnInv, Shared', UNCHANGED <<pc, call, response, walk, history>>
  PROVE  ConnInv'
<1>1. UNCHANGED <<pc, call, response, walk, lastop, lastdir, shown>>
  BY DEF history
<1>2. \A t \in Threads : CallOK(call'[t], pc'[t], response'[t])
  BY <1>1 DEF ConnInv
<1> QED
  BY <1>1, <1>2 DEF ConnInv, Shared

LEMMA AppTyped ==
  ASSUME ConnInv, AppChange,
         UNCHANGED <<caches, request_mutex, pc, call, response, walk, expiries, history>>
  PROVE  ConnInv'
<1>1. /\ UNCHANGED <<stat_cache, dir_list_cache, request_mutex, expiries>>
      /\ UNCHANGED <<pc, call, response, walk, history>>
  BY DEF caches
<1>2. IsTree(tree) /\ MadeBy(tree, changes) /\ changes \in Nat /\ IsFds(fds) /\ app_changes \in 0..MaxAppChanges
  BY DEF ConnInv, DeviceOK
<1>3. /\ changes' = changes + 1 /\ fds' = fds /\ app_changes' = app_changes + 1
      /\ app_changes < MaxAppChanges
  BY DEF AppChange
<1>4. PICK p \in Paths :
        /\ Resolve(p) = "Success" /\ (Exists(p) => ~tree[p].dir)
        /\ \/ ~Exists(p) /\ tree' = With(tree, p, Entry(FALSE, changes + 1))
           \/ Exists(p) /\ tree' = Modified(tree[p].ino)
           \/ Exists(p) /\ tree' = Without(tree, {p})
  BY Zenon DEF AppChange
<1>5. ASSUME NEW m, MadeBy(m, changes), IsTree(m) PROVE MadeBy(m, changes + 1)
  <2>1. \A q \in DOMAIN m : m[q].ino \in Nat
    BY <1>5 DEF IsTree, Entries
  <2> QED
    BY <1>2, <1>5, <2>1 DEF MadeBy
<1>6. IsTree(tree') /\ MadeBy(tree', changes + 1)
  <2>1. CASE ~Exists(p) /\ tree' = With(tree, p, Entry(FALSE, changes + 1))
    <3>1. FALSE \in BOOLEAN
      OBVIOUS
    <3>2. LET m == With(tree, p, Entry(FALSE, changes + 1)) IN IsTree(m) /\ MadeBy(m, changes + 1)
      BY Zenon, <1>2, <1>4, <2>1, <3>1, TreeWith
    <3> QED
      BY Zenon, <2>1, <3>2
  <2>2. CASE Exists(p) /\ tree' = Modified(tree[p].ino)
    <3>1. IsTree(Modified(tree[p].ino)) /\ MadeBy(Modified(tree[p].ino), changes)
      BY <1>2, TreeModified
    <3> QED
      BY <1>5, <2>2, <3>1
  <2>3. CASE Exists(p) /\ tree' = Without(tree, {p})
    <3>1. p # << >> /\ Children(p) = {}
      BY Zenon, <1>2, <1>4, <2>3, FileHasNoChildren DEF IsTree, Exists
    <3>2. LET m == Without(tree, {p}) IN IsTree(m) /\ MadeBy(m, changes)
      BY <1>2, <3>1, TreeWithout
    <3> QED
      BY <1>5, <2>3, <3>2
  <2> QED
    BY Zenon, <1>4, <2>1, <2>2, <2>3
<1>7. DeviceOK'
  BY <1>2, <1>3, <1>6 DEF DeviceOK, IsTree, MadeBy, IsFds
<1>8. app_changes' \in 0..MaxAppChanges
  BY <1>2, <1>3, AppAssumption
<1>9. Shared'
  BY <1>1, <1>7, <1>8, ConnParts DEF Shared, ListingsOK
<1> QED
  BY <1>1, <1>9, Elsewhere

LEMMA ExpireTyped ==
  ASSUME ConnInv, Expire
  PROVE  ConnInv'
<1>1. /\ UNCHANGED <<tree, fds, changes, app_changes, request_mutex>>
      /\ UNCHANGED <<pc, call, response, walk, history>>
  BY DEF Expire, device
<1>2. IsStats(stat_cache) /\ ListingsOK /\ expiries \in 0..MaxExpiries
  BY DEF ConnInv
<1>3. expiries' \in 0..MaxExpiries
  BY <1>2, ThreadAssumption DEF Expire
<1>4. IsStats(stat_cache)' /\ ListingsOK'
  <2>1. CASE \E p \in DOMAIN stat_cache : stat_cache' = Without(stat_cache, {p}) /\ UNCHANGED dir_list_cache
    <3>1. IsStats(stat_cache')
      BY <1>2, <2>1, StatMaps
    <3>2. ListingsOK'
      BY <1>2, <2>1 DEF ListingsOK
    <3> QED
      BY <3>1, <3>2 DEF IsStats
  <2>2. CASE \E d \in DOMAIN dir_list_cache :
               dir_list_cache' = Without(dir_list_cache, {d}) /\ UNCHANGED stat_cache
    BY <1>2, <2>2, ListingsErased DEF IsStats
  <2> QED
    BY Zenon, <2>1, <2>2 DEF Expire
<1>5. Shared'
  BY <1>1, <1>3, <1>4, ConnParts DEF Shared, DeviceOK
<1> QED
  BY <1>1, <1>5, Elsewhere

LEMMA ConnIdle ==
  ASSUME ConnInv, UNCHANGED conn_vars
  PROVE  ConnInv'
<1>1. /\ UNCHANGED <<tree, fds, changes, app_changes, stat_cache, dir_list_cache, request_mutex, expiries>>
      /\ UNCHANGED <<pc, call, response, walk, history>>
  BY DEF conn_vars, device, caches
<1>2. Shared'
  BY <1>1, ConnParts DEF Shared, DeviceOK, ListingsOK
<1> QED
  BY <1>1, <1>2, Elsewhere
=============================================================================
