------------------------------ MODULE NameiLinks ------------------------------
(***************************************************************************)
(* The calls of Namei that succeed keep each inode as it should be.        *)
(***************************************************************************)
EXTENDS NameiVolume, FiniteSetTheorems, TLAPS

-----------------------------------------------------------------------------
(* Links *)

\* There are finitely many entries, so links can be counted.
LEMMA PlacesFinite == IsFiniteSet(Places)
  BY NameiAssumption, FS_Product DEF Places

\* Changing an entry takes a link from one inode and gives one to another.
LEMMA LinksChange ==
    ASSUME NEW s \in Fs, NEW u \in Fs, NEW p \in Places, NEW v \in Inos \cup {NoIno},
           u.entry = [s.entry EXCEPT ![p] = v], NEW i \in Inos
    PROVE  /\ s.entry[p] # i /\ v = i =>
                 LinksOf(u, i) = LinksOf(s, i) \cup {p}
                 /\ Cardinality(LinksOf(u, i)) = Cardinality(LinksOf(s, i)) + 1
           /\ s.entry[p] = i /\ v # i =>
                 LinksOf(u, i) = LinksOf(s, i) \ {p}
                 /\ Cardinality(LinksOf(u, i)) = Cardinality(LinksOf(s, i)) - 1
           /\ (s.entry[p] = i <=> v = i) => LinksOf(u, i) = LinksOf(s, i)
           /\ Cardinality(LinksOf(s, i)) \in Nat
           /\ LinksOf(s, i) # {} => Cardinality(LinksOf(s, i)) > 0
<1>1. IsFiniteSet(LinksOf(s, i))
  BY PlacesFinite, FS_Subset DEF LinksOf
<1>2. u.entry \in [Places -> Inos \cup {NoIno}] /\ s.entry \in [Places -> Inos \cup {NoIno}]
  BY DEF Fs
<1>3. s.entry[p] # i /\ v = i => LinksOf(u, i) = LinksOf(s, i) \cup {p} /\ p \notin LinksOf(s, i)
  BY <1>2 DEF LinksOf
<1>4. s.entry[p] = i /\ v # i => LinksOf(u, i) = LinksOf(s, i) \ {p} /\ p \in LinksOf(s, i)
  BY <1>2 DEF LinksOf
<1>5. (s.entry[p] = i <=> v = i) => LinksOf(u, i) = LinksOf(s, i)
  BY <1>2 DEF LinksOf
<1>6. Cardinality(LinksOf(s, i)) \in Nat
  BY <1>1, FS_CardinalityType
<1>7. LinksOf(s, i) # {} => Cardinality(LinksOf(s, i)) > 0
  BY <1>1, <1>6, FS_EmptySet
<1>8. p \notin LinksOf(s, i) => Cardinality(LinksOf(s, i) \cup {p}) = Cardinality(LinksOf(s, i)) + 1
  BY <1>1, FS_AddElement, Zenon
<1>9. p \in LinksOf(s, i) => Cardinality(LinksOf(s, i) \ {p}) = Cardinality(LinksOf(s, i)) - 1
  BY <1>1, FS_RemoveElement, Zenon
<1> QED BY <1>3, <1>4, <1>5, <1>6, <1>7, <1>8, <1>9, Zenon

\* The last reference to inodes without links frees them.
LEMMA IputGood ==
    ASSUME NEW s, NEW O, NEW S, S \subseteq Inos, Good(s, O \cup S), O \subseteq Inos
    PROVE  Good(Iput(s, S, O), O)
<1> DEFINE dead == {i \in S : i # NoIno /\ s.nlink[i] = 0} \ O
           u == Iput(s, S, O)
<1>1. s \in Fs
  BY DEF Good
<1>2. /\ u.kind = [i \in Inos |-> IF i \in dead THEN "free" ELSE s.kind[i]]
      /\ u.dotdot = [i \in Inos |-> IF i \in dead THEN NoIno ELSE s.dotdot[i]]
      /\ u.dx = s.dx \ dead /\ u.orphan = s.orphan \ dead /\ u.linkable = s.linkable \ dead
      /\ u.nlink = s.nlink /\ u.entry = s.entry
      /\ u \in Fs
  BY <1>1, Zenon DEF Iput, Fs
<1>3. ASSUME NEW i \in Inos PROVE GoodInode(u, O, i)
  <2>1. GoodInode(s, O \cup S, i) /\ LinksOf(u, i) = LinksOf(s, i)
    BY <1>2, Zenon DEF Good, LinksOf
  <2>2. i # NoIno /\ s.kind[i] \in {"free", "file", "dir"} /\ s.nlink[i] \in Nat
    BY <1>1, NameiAssumption DEF Fs
  <2>3. IsFiniteSet(LinksOf(s, i))
    BY PlacesFinite, FS_Subset DEF LinksOf
  <2>4. Cardinality(LinksOf(s, i)) = 0 => LinksOf(s, i) = {}
    BY <2>3, FS_EmptySet
  <2>5. CASE i \in dead
    BY <1>2, <2>1, <2>2, <2>4, <2>5, Zenon DEF GoodInode, FreeInode, FileInode, DirInode, ListedInode
  <2>6. CASE i \notin dead
    BY <1>2, <2>1, <2>2, <2>6, Zenon DEF GoodInode, FreeInode, FileInode, DirInode, ListedInode
  <2> QED BY <2>5, <2>6
<1> QED BY <1>2, <1>3, Zenon DEF Good, NoSelf

\* The entry at (d, n) now leads to v, or nowhere, but not to d.
EntryPut(s, u, d, n, v) ==
    s \in Fs /\ u.entry = [s.entry EXCEPT ![<<d, n>>] = v] /\ v # d /\ NoSelf(s)

\* An entry put where it does not lead to its own directory (ext4_lookup asks for that).
LEMMA NoSelfEntry ==
    ASSUME NEW s, NEW u, NEW d \in Inos, NEW n \in Names, NEW v, EntryPut(s, u, d, n, v)
    PROVE  NoSelf(u)
<1> USE DEF EntryPut
<1> SUFFICES ASSUME NEW a \in Inos, NEW b \in Names PROVE u.entry[<<a, b>>] # a
  BY Zenon DEF NoSelf
<1>1. <<a, b>> \in DOMAIN s.entry
  BY DEF Fs, Places
<1>2. CASE <<a, b>> = <<d, n>>
  <2>1. u.entry[<<a, b>>] = v /\ a = d
    BY <1>1, <1>2
  <2> QED BY <2>1
<1>3. CASE <<a, b>> # <<d, n>>
  <2>1. u.entry[<<a, b>>] = s.entry[<<a, b>>]
    BY <1>1, <1>3
  <2> QED BY <2>1 DEF NoSelf
<1> QED BY <1>2, <1>3

-----------------------------------------------------------------------------
(* Counts *)

\* ext4_inc_count and ext4_dec_count on a directory in use leave it in use.
LEMMA CountsKeepDirs ==
    ASSUME NEW s \in Fs, NEW d \in Inos, s.kind[d] = "dir", s.nlink[d] > 0
    PROVE  /\ \E c \in Nat \ {0} : c = Inc(s.nlink[d], d \in s.dx) /\ IncCount(s, d) = [s EXCEPT !.nlink[d] = c]
           /\ \E c \in Nat \ {0} : c = Dec(s.nlink[d]) /\ DecCount(s, d) = [s EXCEPT !.nlink[d] = c]
<1>1. s.nlink[d] \in Nat /\ s.nlink \in [Inos -> Nat]
  BY DEF Fs
<1>2. \E c \in Nat \ {0} : c = Inc(s.nlink[d], d \in s.dx) /\ IncCount(s, d) = [s EXCEPT !.nlink[d] = c]
  <2> DEFINE g == s.nlink[d] + 1
             c == IF d \in s.dx /\ (g > LinkMax \/ g = 2) THEN 1 ELSE g
  <2>1. c \in Nat \ {0} /\ c = Inc(s.nlink[d], d \in s.dx)
    BY <1>1 DEF Inc
  <2>2. IncCount(s, d) = [s EXCEPT !.nlink[d] = c]
    BY DEF IncCount
  <2> HIDE DEF c
  <2> QED BY <2>1, <2>2
<1>3. CASE s.nlink[d] > 2
  <2>1. DecCount(s, d) = [s EXCEPT !.nlink[d] = s.nlink[d] - 1]
    BY <1>3 DEF DecCount, DropNlink
  <2> DEFINE c == s.nlink[d] - 1
  <2>2. c \in Nat \ {0} /\ c = Dec(s.nlink[d]) /\ DecCount(s, d) = [s EXCEPT !.nlink[d] = c]
    BY <1>1, <1>3, <2>1 DEF Dec
  <2> HIDE DEF c
  <2> QED BY <1>2, <2>2, Zenon
<1>4. CASE ~(s.nlink[d] > 2)
  <2>1. DecCount(s, d) = s
    BY <1>4 DEF DecCount
  <2> DEFINE c == s.nlink[d]
  <2>2. s = [s EXCEPT !.nlink[d] = c] /\ c \in Nat \ {0}
    BY <1>1 DEF Fs
  <2>3. DecCount(s, d) = [s EXCEPT !.nlink[d] = c] /\ c = Dec(s.nlink[d])
    BY <1>4, <2>1, <2>2 DEF Dec
  <2> HIDE DEF c
  <2> QED BY <1>2, <2>2, <2>3, Zenon
<1> QED BY <1>3, <1>4, Zenon

\* u is s but for the link counts, and those only of the inodes in K.
Recounted(s, u, K) ==
    /\ u \in Fs
    /\ u.kind = s.kind /\ u.entry = s.entry /\ u.dotdot = s.dotdot
    /\ u.dx = s.dx /\ u.orphan = s.orphan /\ u.linkable = s.linkable
    /\ \A k \in Inos \ K : u.nlink[k] = s.nlink[k]

\* A link count set to c changes nothing but that count.
LEMMA SetCount ==
    ASSUME NEW s \in Fs, NEW k \in Inos, NEW c \in Nat
    PROVE  Recounted(s, [s EXCEPT !.nlink[k] = c], {k}) /\ [s EXCEPT !.nlink[k] = c].nlink[k] = c
<1> DEFINE u == [s EXCEPT !.nlink[k] = c]
<1>1. /\ u \in Fs
      /\ u.kind = s.kind /\ u.entry = s.entry /\ u.dotdot = s.dotdot
      /\ u.dx = s.dx /\ u.orphan = s.orphan /\ u.linkable = s.linkable
      /\ u.nlink = [s.nlink EXCEPT ![k] = c]
  BY DEF Fs
<1> HIDE DEF u
<1>2. u.nlink[k] = c /\ \A a \in Inos \ {k} : u.nlink[a] = s.nlink[a]
  BY <1>1 DEF Fs
<1>3. Recounted(s, u, {k}) /\ u.nlink[k] = c
  BY <1>1, <1>2 DEF Recounted
<1> QED BY <1>3 DEF u

\* ext4_inc_count and ext4_dec_count change nothing but the count, and keep the
\* directory in use.
LEMMA DirRecounted ==
    ASSUME NEW s \in Fs, NEW d \in Inos, s.kind[d] = "dir", s.nlink[d] > 0
    PROVE  /\ Recounted(s, IncCount(s, d), {d}) /\ IncCount(s, d).nlink[d] > 0
           /\ IncCount(s, d).nlink[d] = Inc(s.nlink[d], d \in s.dx)
           /\ Recounted(s, DecCount(s, d), {d}) /\ DecCount(s, d).nlink[d] > 0
           /\ DecCount(s, d).nlink[d] = Dec(s.nlink[d])
<1>1. PICK b \in Nat \ {0} : b = Inc(s.nlink[d], d \in s.dx) /\ IncCount(s, d) = [s EXCEPT !.nlink[d] = b]
  BY CountsKeepDirs
<1>2. PICK c \in Nat \ {0} : c = Dec(s.nlink[d]) /\ DecCount(s, d) = [s EXCEPT !.nlink[d] = c]
  BY CountsKeepDirs
<1>3. Recounted(s, [s EXCEPT !.nlink[d] = b], {d}) /\ [s EXCEPT !.nlink[d] = b].nlink[d] = b
  BY SetCount
<1>4. Recounted(s, [s EXCEPT !.nlink[d] = c], {d}) /\ [s EXCEPT !.nlink[d] = c].nlink[d] = c
  BY SetCount, SMTT(30)
<1> QED BY <1>1, <1>2, <1>3, <1>4

\* The number of links of a directory in use may change, as long as it is in use.
LEMMA RecountGood ==
    ASSUME NEW s, NEW O, Good(s, O), NEW d \in Inos, s.kind[d] = "dir", s.nlink[d] > 0, NEW c \in Nat \ {0}
    PROVE  Good([s EXCEPT !.nlink[d] = c], O)
<1> DEFINE u == [s EXCEPT !.nlink[d] = c]
<1>1. s \in Fs
  BY DEF Good
<1>2. /\ u.kind = s.kind /\ u.nlink = [s.nlink EXCEPT ![d] = c] /\ u.entry = s.entry /\ u.dotdot = s.dotdot
      /\ u.dx = s.dx /\ u.orphan = s.orphan /\ u.linkable = s.linkable /\ u \in Fs
  BY <1>1 DEF Fs
<1>3. ASSUME NEW k \in Inos PROVE GoodInode(u, O, k)
  <2>1. GoodInode(s, O, k) /\ LinksOf(u, k) = LinksOf(s, k) /\ s.nlink[k] \in Nat
        /\ u.nlink[k] = (IF k = d THEN c ELSE s.nlink[k])
    BY <1>1, <1>2, Zenon DEF Good, LinksOf, Fs
  <2> QED BY <1>1, <1>2, <2>1 DEF GoodInode, FreeInode, FileInode, DirInode, ListedInode
<1> QED BY <1>2, <1>3 DEF Good, NoSelf

-----------------------------------------------------------------------------
(* Renaming and exchanging *)

\* The entry for i goes from p to q, where j was, and p gets v.
EntriesMoved(s, u, p, q, i, j, v) ==
    /\ s \in Fs /\ u \in Fs /\ p \in Places /\ q \in Places
    /\ i \in Inos /\ v \in Inos \cup {NoIno} /\ s.entry[p] = i /\ s.entry[q] = j /\ i # j /\ v # i
    /\ u.entry = [s.entry EXCEPT ![q] = i, ![p] = v]

\* The links of each inode after the two entries of a move have changed.
LEMMA LinksMove ==
    ASSUME NEW s, NEW u, NEW p, NEW q, NEW i, NEW j, NEW v, EntriesMoved(s, u, p, q, i, j, v), NEW k \in Inos
    PROVE  /\ k = i => /\ LinksOf(u, k) = (LinksOf(s, k) \cup {q}) \ {p}
                       /\ Cardinality(LinksOf(u, k)) = Cardinality(LinksOf(s, k))
           /\ k = j /\ k # v => /\ LinksOf(u, k) = LinksOf(s, k) \ {q}
                                /\ Cardinality(LinksOf(u, k)) = Cardinality(LinksOf(s, k)) - 1
           /\ k = j /\ k = v => /\ LinksOf(u, k) = (LinksOf(s, k) \ {q}) \cup {p}
                                /\ Cardinality(LinksOf(u, k)) = Cardinality(LinksOf(s, k))
           /\ k = v /\ k # j => /\ LinksOf(u, k) = LinksOf(s, k) \cup {p}
                                /\ Cardinality(LinksOf(u, k)) = Cardinality(LinksOf(s, k)) + 1
           /\ k \notin {i, j, v} => LinksOf(u, k) = LinksOf(s, k)
           /\ Cardinality(LinksOf(s, k)) \in Nat
<1> USE DEF EntriesMoved
<1> DEFINE t == [s EXCEPT !.entry = [s.entry EXCEPT ![q] = i]]
<1>1. t \in Fs /\ t.entry = [s.entry EXCEPT ![q] = i]
  BY Zenon DEF Fs
<1>2. u.entry = [t.entry EXCEPT ![p] = v]
  BY <1>1, Zenon DEF Fs
<1>3. t.entry[p] = i /\ p # q
  BY <1>1, Zenon DEF Fs
<1> HIDE DEF t
<1>4. /\ s.entry[q] # k /\ i = k => /\ LinksOf(t, k) = LinksOf(s, k) \cup {q}
                                   /\ Cardinality(LinksOf(t, k)) = Cardinality(LinksOf(s, k)) + 1
      /\ s.entry[q] = k /\ i # k => /\ LinksOf(t, k) = LinksOf(s, k) \ {q}
                                   /\ Cardinality(LinksOf(t, k)) = Cardinality(LinksOf(s, k)) - 1
      /\ (s.entry[q] = k <=> i = k) => LinksOf(t, k) = LinksOf(s, k)
      /\ Cardinality(LinksOf(s, k)) \in Nat
  BY <1>1, LinksChange
<1>5. /\ t.entry[p] # k /\ v = k => /\ LinksOf(u, k) = LinksOf(t, k) \cup {p}
                                   /\ Cardinality(LinksOf(u, k)) = Cardinality(LinksOf(t, k)) + 1
      /\ t.entry[p] = k /\ v # k => /\ LinksOf(u, k) = LinksOf(t, k) \ {p}
                                   /\ Cardinality(LinksOf(u, k)) = Cardinality(LinksOf(t, k)) - 1
      /\ (t.entry[p] = k <=> v = k) => LinksOf(u, k) = LinksOf(t, k)
      /\ Cardinality(LinksOf(t, k)) \in Nat
  BY <1>1, <1>2, LinksChange
<1>6. CASE k = i
  BY <1>3, <1>4, <1>5, <1>6
<1>7. CASE k # i /\ k = j
  BY <1>3, <1>4, <1>5, <1>7
<1>8. CASE k # i /\ k # j
  BY <1>3, <1>4, <1>5, <1>8, Zenon
<1> QED BY <1>6, <1>7, <1>8, Zenon

\* ext4_rename and ext4_cross_rename leave a good volume, if what was replaced is
\* still held.
LEMMA MovedGood ==
    ASSUME NEW s, NEW O, Good(s, O), NEW d, NEW n, NEW e, NEW m, NEW i, NEW j, NEW v, NEW u,
           MoveFrom(s, d, n, e, m, i, j), Moved(s, u, d, n, e, m, i, j, v)
    PROVE  Good(u, O \cup {k \in Inos : k = j /\ v # j})
<1> DEFINE p == <<d, n>>
           q == <<e, m>>
           P == O \cup {k \in Inos : k = j /\ v # j}
<1>1. s \in Fs /\ u \in Fs /\ p \in Places /\ q \in Places /\ NoIno \notin Inos /\ O \subseteq Inos
  BY NameiAssumption, Zenon DEF Good, Places, MoveFrom, Moved
<1>2. d \in Inos /\ e \in Inos /\ i \in Inos /\ j \in Inos \cup {NoIno} /\ v \in Inos \cup {NoIno}
  BY <1>1 DEF MoveFrom, Moved, Fs
<1>3. p \in LinksOf(s, i) /\ (j \in Inos => q \in LinksOf(s, j))
  BY <1>1, <1>2, Zenon DEF MoveFrom, LinksOf
<1>4. s.kind[i] # "free" /\ (j \in Inos => s.kind[j] # "free")
  BY <1>2, <1>3, Zenon DEF Good, GoodInode, FreeInode
<1>5. v # i /\ v # d /\ j # e /\ i # d
  BY <1>1, <1>2, <1>4, Zenon DEF MoveFrom, Moved, Good, NoSelf
<1>6. ASSUME NEW k \in Inos PROVE GoodInode(u, P, k)
  <2>1. GoodInode(s, O, k) /\ s.kind[k] \in {"free", "file", "dir"} /\ s.nlink[k] \in Nat
    BY <1>1, Zenon DEF Good, Fs
  <2>2. /\ k = i => /\ LinksOf(u, k) = (LinksOf(s, k) \cup {q}) \ {p}
                    /\ Cardinality(LinksOf(u, k)) = Cardinality(LinksOf(s, k))
        /\ k = j /\ k # v => /\ LinksOf(u, k) = LinksOf(s, k) \ {q}
                             /\ Cardinality(LinksOf(u, k)) = Cardinality(LinksOf(s, k)) - 1
        /\ k = j /\ k = v => /\ LinksOf(u, k) = (LinksOf(s, k) \ {q}) \cup {p}
                             /\ Cardinality(LinksOf(u, k)) = Cardinality(LinksOf(s, k))
        /\ k = v /\ k # j => /\ LinksOf(u, k) = LinksOf(s, k) \cup {p}
                             /\ Cardinality(LinksOf(u, k)) = Cardinality(LinksOf(s, k)) + 1
        /\ k \notin {i, j, v} => LinksOf(u, k) = LinksOf(s, k)
    <3>1. EntriesMoved(s, u, p, q, i, j, v)
      BY <1>1, <1>2, <1>5, Zenon DEF MoveFrom, Moved, MovedEntry, EntriesMoved
    <3> HIDE DEF p, q
    <3> QED BY <3>1, LinksMove
  <2>3. /\ u.kind[k] = IF k = v /\ k # j THEN "file" ELSE s.kind[k]
        /\ s.kind[k] # "dir" => u.dotdot[k] = s.dotdot[k]
        /\ k \in u.orphan <=> k \in s.orphan \/ (k = j /\ v # j /\ u.nlink[k] = 0)
        /\ MovedCount(s, u, d, e, j, v, k)
        /\ u.dx \subseteq s.dx \cup {e} /\ u.linkable = s.linkable
    BY Zenon DEF Moved, MovedInode, DotDot
  <2>4. s.kind[d] = "dir" /\ s.nlink[d] > 0 /\ s.kind[e] = "dir" /\ s.nlink[e] > 0
    BY Zenon DEF MoveFrom
  <2>5. CASE k = j /\ k # v
    <3>1. CASE s.kind[k] = "dir"
      <4>1. LinksOf(u, k) = {}
        BY <1>3, <2>1, <2>2, <2>5, <3>1, Zenon DEF GoodInode, DirInode
      <4> QED BY <2>1, <2>3, <2>5, <3>1, <4>1, Zenon DEF GoodInode, DirInode, ListedInode, MovedCount
    <3>2. CASE s.kind[k] = "file"
      <4>1. u.nlink[k] = Cardinality(LinksOf(u, k)) /\ u.kind[k] = "file" /\ u.nlink[k] = s.nlink[k] - 1
        BY <2>1, <2>2, <2>3, <2>5, <3>2, Zenon DEF GoodInode, FileInode, MovedCount
      <4>2. IsFiniteSet(LinksOf(s, k))
        BY PlacesFinite, FS_Subset DEF LinksOf
      <4>3. s.nlink[k] # 0
        BY <1>3, <2>1, <2>5, <3>2, <4>2, FS_EmptySet, Zenon DEF GoodInode, FileInode
      <4> QED BY <2>1, <2>3, <2>4, <2>5, <3>2, <4>1, <4>3, Zenon DEF GoodInode, FileInode, ListedInode, MovedCount
    <3> QED BY <1>4, <2>1, <2>5, <3>1, <3>2, Zenon
  <2>6. CASE k = v /\ k # j
    <3>1. s.kind[k] = "free"
      BY <1>1, <2>6, Zenon DEF Moved
    <3>2. Cardinality(LinksOf(s, k)) = 0
      BY <2>1, <3>1, FS_EmptySet, Zenon DEF GoodInode, FreeInode
    <3> QED BY <2>1, <2>2, <2>3, <2>4, <2>6, <3>1, <3>2 DEF GoodInode, FreeInode, FileInode, ListedInode, MovedCount
  <2>7. CASE k # v /\ k # j
    <3>1. CASE s.kind[k] = "dir"
      <4>1. \A a, b \in LinksOf(u, k) : a = b
        BY <1>3, <2>1, <2>2, <2>7, <3>1, Zenon DEF GoodInode, DirInode
      <4>2. s.nlink[k] = 0 => LinksOf(u, k) = {}
        BY <1>3, <2>1, <2>2, <2>7, <3>1, Zenon DEF GoodInode, DirInode
      <4> QED BY <2>1, <2>3, <2>4, <2>7, <3>1, <4>1, <4>2 DEF GoodInode, DirInode, ListedInode, MovedCount
    <3>2. CASE s.kind[k] = "file"
      BY <2>1, <2>2, <2>3, <2>4, <2>7, <3>2, Zenon DEF GoodInode, FileInode, ListedInode, MovedCount
    <3>3. CASE s.kind[k] = "free"
      BY <1>4, <2>1, <2>2, <2>3, <2>4, <2>7, <3>3, Zenon DEF GoodInode, FreeInode, ListedInode, MovedCount
    <3> QED BY <2>1, <3>1, <3>2, <3>3, Zenon
  <2>8. CASE k = v /\ k = j
    <3>1. CASE s.kind[k] = "dir"
      <4>1. \A a, b \in LinksOf(u, k) : a = b
        BY <1>3, <2>1, <2>2, <2>8, <3>1, Zenon DEF GoodInode, DirInode
      <4>2. s.nlink[k] # 0
        BY <1>3, <2>1, <2>8, <3>1, Zenon DEF GoodInode, DirInode
      <4> QED BY <2>1, <2>3, <2>4, <2>8, <3>1, <4>1, <4>2 DEF GoodInode, DirInode, ListedInode, MovedCount
    <3>2. CASE s.kind[k] = "file"
      BY <2>1, <2>2, <2>3, <2>4, <2>8, <3>2, Zenon DEF GoodInode, FileInode, ListedInode, MovedCount
    <3> QED BY <1>4, <2>1, <2>8, <3>1, <3>2, Zenon
  <2> QED BY <2>5, <2>6, <2>7, <2>8, Zenon
<1>7. NoSelf(u)
  <2> DEFINE t == [s EXCEPT !.entry = [s.entry EXCEPT ![<<e, m>>] = i]]
  <2>1. t \in Fs /\ t.entry = [s.entry EXCEPT ![<<e, m>>] = i] /\ u.entry = [t.entry EXCEPT ![<<d, n>>] = v]
    BY <1>1, <1>2, Zenon DEF Fs, Moved, MovedEntry
  <2> HIDE DEF t
  <2>2. EntryPut(s, t, e, m, i)
    BY <1>1, <2>1, Zenon DEF EntryPut, MoveFrom, Good
  <2>3. NoSelf(t)
    BY <2>2, NoSelfEntry, Zenon DEF MoveFrom
  <2>4. EntryPut(t, u, d, n, v)
    BY <1>5, <2>1, <2>3 DEF EntryPut
  <2> QED BY <2>4, NoSelfEntry, Zenon DEF MoveFrom
<1> QED BY <1>1, <1>6, <1>7 DEF Good

\* ".." of a directory is all that ext4_rename_dir_finish changes.
Finished(s, u, d, e, i) ==
    /\ u \in Fs
    /\ u.kind = s.kind /\ u.nlink = s.nlink /\ u.entry = s.entry
    /\ u.dx = s.dx /\ u.orphan = s.orphan /\ u.linkable = s.linkable
    /\ \A k \in Inos : u.dotdot[k] = IF k = i /\ s.kind[k] = "dir" /\ d # e THEN e ELSE s.dotdot[k]

\* So ext4_rename_dir_finish ends, whether it had something to do or not.
LEMMA DirFinishFields ==
    ASSUME NEW s \in Fs, NEW d \in Inos, NEW e \in Inos, NEW i \in Inos
    PROVE  Finished(s, DirFinish(s, d, e, i), d, e, i)
<1> DEFINE u == DirFinish(s, d, e, i)
<1>1. CASE IsDir(s, i) /\ d # e
  <2>1. u = [s EXCEPT !.dotdot[i] = e] /\ s.kind[i] = "dir"
    BY <1>1 DEF DirFinish, IsDir
  <2> HIDE DEF u
  <2>2. /\ u \in Fs /\ u.kind = s.kind /\ u.nlink = s.nlink /\ u.entry = s.entry
        /\ u.dx = s.dx /\ u.orphan = s.orphan /\ u.linkable = s.linkable
        /\ u.dotdot = [s.dotdot EXCEPT ![i] = e]
    BY <2>1, Zenon DEF Fs
  <2>3. \A k \in Inos : u.dotdot[k] = IF k = i /\ s.kind[k] = "dir" /\ d # e THEN e ELSE s.dotdot[k]
    BY <1>1, <2>1, <2>2, Zenon DEF Fs
  <2> QED BY <2>2, <2>3, Zenon DEF u, Finished
<1>2. CASE ~(IsDir(s, i) /\ d # e)
  <2>1. u = s /\ ~(s.kind[i] = "dir" /\ d # e)
    BY <1>2, NameiAssumption DEF DirFinish, IsDir
  <2> HIDE DEF u
  <2> QED BY <2>1 DEF u, Finished
<1> QED BY <1>1, <1>2

\* The call drops a reference to nothing when there was nothing to replace.
LEMMA IputNothing ==
    ASSUME NEW s, NEW O, Good(s, O)
    PROVE  Good(Iput(s, {NoIno}, O), O)
<1>1. Good(Iput(s, {}, O), O)
  BY IputGood, Zenon DEF Good
<1>2. {i \in {NoIno} : i # NoIno /\ s.nlink[i] = 0} \ O = {i \in {} : i # NoIno /\ s.nlink[i] = 0} \ O
  OBVIOUS
<1> QED BY <1>1, <1>2, Zenon DEF Iput

\* ext4_rename up to where both entries are as they will be.
Relinked(s, u, d, n, e, m, i, w) ==
    /\ u \in Fs
    /\ u.entry = [s.entry EXCEPT ![<<e, m>>] = i, ![<<d, n>>] = w]
    /\ \A k \in Inos : u.kind[k] = (IF k = w THEN "file" ELSE s.kind[k])
                       /\ u.nlink[k] = (IF k = w THEN 1 ELSE s.nlink[k])
    /\ u.dotdot = s.dotdot /\ s.dx \subseteq u.dx /\ u.dx \subseteq s.dx \cup {e}
    /\ u.orphan = s.orphan /\ u.linkable = s.linkable

Entries(s, d, n, e, m, i, j, w, x) ==
    LET started == IF w = NoIno THEN s ELSE NewInode(s, w) IN
    DeleteOld(SetNew(SetWhiteout(started, d, n, w), e, m, i, j, x), d, n, w)

\* What the entries, link counts and whiteout are once ext4_rename has set the entries.
LEMMA Relink ==
    ASSUME NEW s \in Fs, NEW d \in Inos, NEW n \in Names, NEW e \in Inos, NEW m \in Names,
           NEW i \in Inos, NEW j, NEW w \in Inos \cup {NoIno}, NEW x \in BOOLEAN, <<d, n>> # <<e, m>>
    PROVE  Relinked(s, Entries(s, d, n, e, m, i, j, w, x), d, n, e, m, i, w)
<1> DEFINE p == <<d, n>>
           q == <<e, m>>
           started == IF w = NoIno THEN s ELSE NewInode(s, w)
           whited == SetWhiteout(started, d, n, w)
           added == SetNew(whited, e, m, i, j, x)
           deleted == DeleteOld(added, d, n, w)
<1>1. p \in Places /\ q \in Places /\ p # q /\ NoIno \notin Inos
  BY NameiAssumption DEF Places
<1>2. /\ started \in Fs /\ started.entry = s.entry
      /\ \A k \in Inos : started.kind[k] = (IF k = w THEN "file" ELSE s.kind[k])
                         /\ started.nlink[k] = (IF k = w THEN 1 ELSE s.nlink[k])
      /\ started.dotdot = s.dotdot /\ started.dx = s.dx
      /\ started.orphan = s.orphan /\ started.linkable = s.linkable
  <2>1. CASE w = NoIno
    BY <1>1, <2>1, Zenon
  <2>2. CASE w # NoIno
    BY <1>1, <2>2, ZenonT(60) DEF NewInode, Fs
  <2> QED BY <2>1, <2>2, Zenon
<1> HIDE DEF started
<1>3. /\ whited \in Fs /\ whited.kind = started.kind /\ whited.nlink = started.nlink
      /\ whited.entry = (IF w = NoIno THEN s.entry ELSE [s.entry EXCEPT ![p] = w])
      /\ whited.dotdot = s.dotdot /\ whited.dx = s.dx
      /\ whited.orphan = s.orphan /\ whited.linkable = s.linkable
  <2>1. CASE w = NoIno
    BY <1>2, <2>1, Zenon DEF SetWhiteout
  <2>2. CASE w # NoIno
    BY <1>2, <2>2, Zenon DEF SetWhiteout, SetEnt, Fs
  <2> QED BY <2>1, <2>2, Zenon
<1> HIDE DEF whited
<1>4. /\ added \in Fs /\ added.kind = whited.kind /\ added.nlink = whited.nlink
      /\ added.entry = [whited.entry EXCEPT ![q] = i]
      /\ added.dotdot = s.dotdot /\ s.dx \subseteq added.dx /\ added.dx \subseteq s.dx \cup {e}
      /\ added.orphan = s.orphan /\ added.linkable = s.linkable
  <2>1. CASE j = NoIno
    BY <1>3, <2>1, ZenonT(60) DEF SetNew, AddEntry, SetEnt, Fs
  <2>2. CASE j # NoIno
    BY <1>3, <2>2, Zenon DEF SetNew, SetEnt, Fs
  <2> QED BY <2>1, <2>2, Zenon
<1> HIDE DEF added
<1>5. /\ deleted \in Fs /\ deleted.kind = added.kind /\ deleted.nlink = added.nlink
      /\ deleted.entry = [s.entry EXCEPT ![q] = i, ![p] = w]
      /\ deleted.dotdot = s.dotdot /\ deleted.dx = added.dx
      /\ deleted.orphan = s.orphan /\ deleted.linkable = s.linkable
  <2>1. CASE w = NoIno
    BY <1>1, <1>3, <1>4, <2>1, ZenonT(60) DEF DeleteOld, DeleteEntry, SetEnt, Fs
  <2>2. CASE w # NoIno
    <3>1. deleted = added
      BY <2>2 DEF DeleteOld
    <3>2. added.entry = [s.entry EXCEPT ![q] = i, ![p] = w]
      BY <1>1, <1>3, <1>4, <2>2, SMTT(30) DEF Fs
    <3> QED BY <1>4, <3>1, <3>2, Zenon
  <2> QED BY <2>1, <2>2, Zenon
<1> HIDE DEF deleted
<1>6. Relinked(s, deleted, d, n, e, m, i, w)
  BY <1>2, <1>3, <1>4, <1>5 DEF Relinked
<1> QED BY <1>6, Zenon DEF Entries, deleted, added, whited, started

\* The volume ext4_rename leaves, but for the last reference to j.
RenameResult(s, r, O, d, n, e, m, i, j, w) ==
    \E u : /\ r = Iput(u, {j}, O)
          /\ Moved(s, u, d, n, e, m, i, j, w) /\ RenameCounts(s, u, d, e, IsDir(s, i), j)
          /\ Good(u, O \cup {k \in Inos : k = j /\ w # j})

\* The rest of ext4_rename: link counts, "..", the inode that was replaced.
LEMMA RenameGood ==
    ASSUME Good(fs, open), NEW d, NEW n, NEW e, NEW m, NEW i, NEW j, NEW w \in FreeInos \cup {NoIno},
           NEW x \in BOOLEAN, MoveFrom(fs, d, n, e, m, i, j), j # NoIno => IsDir(fs, j) = IsDir(fs, i)
    PROVE  /\ Good(RenameStages(d, n, e, m, i, j, w, x).none, open)
           /\ RenameResult(fs, RenameStages(d, n, e, m, i, j, w, x).none, open, d, n, e, m, i, j, w)
<1> DEFINE isDir == IsDir(fs, i)
<1>1a. PICK deleted : deleted = Entries(fs, d, n, e, m, i, j, w, x)
  OBVIOUS
<1>1b. PICK dropped : dropped = IF j = NoIno THEN deleted ELSE DecCount(deleted, j)
  OBVIOUS
<1>1c. PICK finished : finished = DirFinish(dropped, d, e, i)
  OBVIOUS
<1>1d. PICK left : left = IF isDir THEN DecCount(finished, d) ELSE finished
  OBVIOUS
<1>1e. PICK counted : counted = IF ~isDir THEN left
                                ELSE IF j # NoIno THEN ClearNlink(left, j) ELSE IncCount(left, e)
  OBVIOUS
<1>1f. PICK done : done = IF j # NoIno /\ counted.nlink[j] = 0 THEN OrphanAdd(counted, j) ELSE counted
  OBVIOUS
<1>1. RenameStages(d, n, e, m, i, j, w, x).none = Iput(done, {j}, open)
  BY <1>1a, <1>1b, <1>1c, <1>1d, <1>1e, <1>1f, Zenon DEF RenameStages, Entries, DropTarget, CountDirs, ListNew
<1> HIDE DEF isDir
<1>2. /\ fs \in Fs /\ open \subseteq Inos /\ NoIno \notin Inos /\ NoSelf(fs)
      /\ w \in Inos \cup {NoIno} /\ (w # NoIno => fs.kind[w] = "free")
      /\ \A k \in Inos : GoodInode(fs, open, k)
  BY NameiAssumption, Zenon DEF Good, FreeInos
<1>3. /\ d \in Inos /\ n \in Names /\ e \in Inos /\ m \in Names /\ i \in Inos /\ i # j /\ i # e /\ j # d
      /\ fs.kind[d] = "dir" /\ fs.nlink[d] > 0 /\ fs.kind[e] = "dir" /\ fs.nlink[e] > 0
      /\ fs.entry[<<d, n>>] = i /\ fs.entry[<<e, m>>] = j
  BY Zenon DEF MoveFrom
<1>4. <<d, n>> # <<e, m>> /\ j # e /\ i # d /\ j \in Inos \cup {NoIno} /\ w # d /\ w # e
  BY <1>2, <1>3 DEF NoSelf, Fs, Places
<1>5. /\ <<d, n>> \in LinksOf(fs, i) /\ fs.kind[i] # "free" /\ w # i
      /\ j # NoIno => <<e, m>> \in LinksOf(fs, j) /\ fs.kind[j] # "free" /\ w # j
  <2>1. <<d, n>> \in LinksOf(fs, i) /\ (j # NoIno => <<e, m>> \in LinksOf(fs, j))
    BY <1>3, Zenon DEF LinksOf, Places
  <2> QED BY <1>2, <1>3, <1>4, <2>1, Zenon DEF GoodInode, FreeInode
<1>6. j # NoIno => fs.nlink[j] \in Nat \ {0}
  <2> SUFFICES ASSUME j # NoIno PROVE fs.nlink[j] \in Nat \ {0}
    OBVIOUS
  <2>1. j \in Inos /\ fs.nlink[j] \in Nat /\ fs.kind[j] \in {"file", "dir"}
    BY <1>2, <1>4, <1>5, Zenon DEF Fs
  <2>2. IsFiniteSet(LinksOf(fs, j))
    BY PlacesFinite, FS_Subset, Zenon DEF LinksOf
  <2>3. Cardinality(LinksOf(fs, j)) # 0
    BY <1>5, <2>2, FS_EmptySet, Zenon
  <2> QED BY <1>2, <1>5, <2>1, <2>3, Zenon DEF GoodInode, FileInode, DirInode
<1>7. Relinked(fs, deleted, d, n, e, m, i, w)
  BY <1>1a, <1>2, <1>3, <1>4, Relink, Zenon
<1>8. /\ deleted \in Fs
      /\ \A k \in Inos : k # w => deleted.kind[k] = fs.kind[k] /\ deleted.nlink[k] = fs.nlink[k]
  BY <1>7, Zenon DEF Relinked
<1>9. /\ Recounted(deleted, dropped, {j})
      /\ j # NoIno /\ fs.kind[j] # "dir" => dropped.nlink[j] = fs.nlink[j] - 1
  <2>1. CASE j = NoIno
    BY <1>1b, <1>8, <2>1, Zenon DEF Recounted
  <2>2. CASE j # NoIno /\ fs.kind[j] # "dir"
    <3> DEFINE c == deleted.nlink[j] - 1
    <3>1. c \in Nat /\ c = fs.nlink[j] - 1 /\ j \in Inos
      BY <1>4, <1>5, <1>6, <1>8, <2>2
    <3>2. dropped = [deleted EXCEPT !.nlink[j] = c]
      BY <1>1b, <1>4, <1>5, <1>8, <2>2, Zenon DEF DecCount, DropNlink
    <3> HIDE DEF c
    <3> QED BY <1>8, <3>1, <3>2, SetCount, ZenonT(60)
  <2>3. CASE j # NoIno /\ fs.kind[j] = "dir"
    <3>1. j \in Inos /\ deleted.kind[j] = "dir" /\ deleted.nlink[j] > 0
      BY <1>4, <1>5, <1>6, <1>8, <2>3
    <3>2. Recounted(deleted, DecCount(deleted, j), {j})
      BY <1>8, <3>1, DirRecounted, Zenon
    <3> QED BY <1>1b, <2>3, <3>2, Zenon
  <2> QED BY <2>1, <2>2, <2>3, Zenon
<1>10. Finished(dropped, finished, d, e, i)
  <2>1. dropped \in Fs
    BY <1>9, Zenon DEF Recounted
  <2> QED BY <1>1c, <1>3, <2>1, DirFinishFields, Zenon
<1>11. /\ finished.kind[d] = "dir" /\ finished.nlink[d] > 0
       /\ finished.kind[e] = "dir" /\ finished.nlink[e] > 0
  BY <1>3, <1>4, <1>8, <1>9, <1>10 DEF Recounted, Finished
<1>12. /\ Recounted(finished, left, {d}) /\ left.nlink[d] > 0 /\ left.nlink[e] > 0
       /\ left.nlink[d] = IF isDir THEN Dec(finished.nlink[d]) ELSE finished.nlink[d]
  <2>1. CASE isDir
    <3>1. Recounted(finished, left, {d}) /\ left.nlink[d] > 0 /\ left.nlink[d] = Dec(finished.nlink[d])
      BY <1>1d, <1>3, <1>10, <1>11, <2>1, DirRecounted, Zenon DEF Finished
    <3> QED BY <1>3, <1>11, <2>1, <3>1, Zenon DEF Recounted
  <2>2. CASE ~isDir
    BY <1>1d, <1>10, <1>11, <2>2, Zenon DEF Recounted, Finished
  <2> QED BY <2>1, <2>2, Zenon
<1>13. /\ Recounted(left, counted, {e, j}) /\ counted.nlink[d] > 0 /\ counted.nlink[e] > 0
       /\ j # NoIno => counted.nlink[j] = IF isDir THEN 0 ELSE left.nlink[j]
       /\ counted.nlink[e] = IF isDir /\ j = NoIno THEN Inc(left.nlink[e], e \in left.dx) ELSE left.nlink[e]
  <2>1. left \in Fs /\ left.kind[e] = "dir"
    BY <1>11, <1>12, Zenon DEF Recounted
  <2>2. CASE ~isDir
    BY <1>1e, <1>12, <2>1, <2>2, Zenon DEF Recounted
  <2>3. CASE isDir /\ j # NoIno
    <3> DEFINE c == 0
    <3>1. counted = [left EXCEPT !.nlink[j] = c] /\ j \in Inos /\ c \in Nat
      BY <1>1e, <1>4, <2>3, Zenon DEF ClearNlink
    <3> HIDE DEF c
    <3>2. Recounted(left, [left EXCEPT !.nlink[j] = c], {j}) /\ [left EXCEPT !.nlink[j] = c].nlink[j] = c
      BY <2>1, <3>1, SetCount
    <3>3. Recounted(left, counted, {j}) /\ counted.nlink[j] = 0
      BY <3>1, <3>2, Zenon DEF c
    <3> QED BY <1>3, <1>4, <1>12, <2>3, <3>3, Zenon DEF Recounted
  <2>4. CASE isDir /\ j = NoIno
    <3>1. /\ Recounted(left, counted, {e}) /\ counted.nlink[e] > 0
          /\ counted.nlink[e] = Inc(left.nlink[e], e \in left.dx)
      BY <1>1e, <1>3, <1>12, <2>1, <2>4, DirRecounted, Zenon
    <3> QED BY <1>3, <1>12, <2>4, <3>1, Zenon DEF Recounted
  <2> QED BY <2>2, <2>3, <2>4, Zenon
<1>14. /\ done \in Fs
       /\ done.kind = counted.kind /\ done.nlink = counted.nlink /\ done.entry = counted.entry
       /\ done.dotdot = counted.dotdot /\ done.dx = counted.dx /\ done.linkable = counted.linkable
       /\ \A k \in Inos : k \in done.orphan <=> k \in counted.orphan \/ (k = j /\ counted.nlink[k] = 0)
  <2>1. counted \in Fs
    BY <1>13, Zenon DEF Recounted
  <2>2. CASE j # NoIno /\ counted.nlink[j] = 0
    BY <1>1f, <1>4, <2>1, <2>2, Zenon DEF OrphanAdd, Fs
  <2>3. CASE ~(j # NoIno /\ counted.nlink[j] = 0)
    BY <1>1f, <1>2, <2>1, <2>3, Zenon
  <2> QED BY <2>2, <2>3, Zenon
<1>15. Moved(fs, done, d, n, e, m, i, j, w)
  <2>1. w \in {NoIno, j} \/ (w \in Inos /\ fs.kind[w] = "free")
    BY <1>2, Zenon
  <2>2. done.kind = deleted.kind /\ done.entry = deleted.entry /\ done.dx = deleted.dx
        /\ done.linkable = deleted.linkable /\ counted.orphan = deleted.orphan
    BY <1>9, <1>10, <1>12, <1>13, <1>14, Zenon DEF Recounted, Finished
  <2>3. \A k \in Inos : done.dotdot[k] = DotDot(fs, d, e, i, j, w, k)
    <3> SUFFICES ASSUME NEW k \in Inos PROVE done.dotdot[k] = DotDot(fs, d, e, i, j, w, k)
      BY Zenon
    <3>1. done.dotdot = finished.dotdot /\ dropped.dotdot = deleted.dotdot /\ dropped.kind = deleted.kind
      BY <1>9, <1>12, <1>13, <1>14, Zenon DEF Recounted
    <3>2. /\ deleted.dotdot = fs.dotdot /\ (k = i => deleted.kind[k] = fs.kind[k])
          /\ ~(k = j /\ w = j)
      BY <1>2, <1>5, <1>7, Zenon DEF Relinked
    <3>3. finished.dotdot[k] = IF k = i /\ dropped.kind[k] = "dir" /\ d # e THEN e ELSE dropped.dotdot[k]
      BY <1>10, Zenon DEF Finished
    <3> QED BY <3>1, <3>2, <3>3, Zenon DEF DotDot
  <2>4. w = NoIno \/ w # j
    BY <1>5, Zenon
  <2>5. \A k \in Inos : k \in done.orphan <=> k \in fs.orphan \/ (k = j /\ w # j /\ done.nlink[k] = 0)
    BY <1>2, <1>7, <1>14, <2>2, <2>4 DEF Relinked
  <2>6. ASSUME NEW k \in Inos
        PROVE  MovedCount(fs, done, d, e, j, w, k)
    <3>1. deleted.nlink[k] = IF k = w THEN 1 ELSE fs.nlink[k]
      BY <1>7, Zenon DEF Relinked
    <3>2. CASE k = j
      <4>1. j # NoIno /\ w # j
        BY <1>2, <1>5, <3>2, Zenon
      <4>2. isDir = (fs.kind[j] = "dir")
        BY <1>3, <4>1, Zenon DEF IsDir, isDir
      <4>3. left.nlink[j] = dropped.nlink[j]
        BY <1>3, <1>10, <1>12, <3>2, Zenon DEF Recounted, Finished
      <4> QED BY <1>9, <1>13, <1>14, <3>2, <4>1, <4>2, <4>3, ZenonT(60) DEF MovedCount
    <3>3. CASE k \in {d, e}
      BY <1>3, <1>4, <1>5, <1>13, <1>14, <3>3, Zenon DEF MovedCount
    <3>4. CASE k # j /\ k \notin {d, e}
      <4>1. dropped.nlink[k] = deleted.nlink[k] /\ finished.nlink = dropped.nlink
        BY <1>9, <1>10, <3>4, Zenon DEF Recounted, Finished
      <4>2. done.nlink[k] = finished.nlink[k]
        BY <1>12, <1>13, <1>14, <3>4, Zenon DEF Recounted
      <4> QED BY <3>1, <3>4, <4>1, <4>2, Zenon DEF MovedCount
    <3> QED BY <3>2, <3>3, <3>4, Zenon
  <2>7. \A k \in Inos : done.kind[k] = IF k = w /\ k # j THEN "file" ELSE fs.kind[k]
    BY <1>2, <1>7, <2>2, <2>4 DEF Relinked
  <2>8. /\ done \in Fs /\ MovedEntry(fs, done, d, n, e, m, i, w)
        /\ fs.dx \subseteq done.dx /\ done.dx \subseteq fs.dx \cup {e} /\ done.linkable = fs.linkable
    BY <1>7, <1>14, <2>2, Zenon DEF Relinked, MovedEntry
  <2>9. \A k \in Inos : MovedInode(fs, done, d, e, i, j, w, k)
    BY <2>3, <2>5, <2>6, <2>7, Zenon DEF MovedInode
  <2> QED BY <2>1, <2>8, <2>9, Zenon DEF Moved
<1>16. Good(done, open \cup {k \in Inos : k = j /\ w # j})
  BY <1>15, MovedGood
<1>17. Good(Iput(done, {j}, open), open)
  <2>1. CASE j = NoIno
    <3>1. open \cup {k \in Inos : k = j /\ w # j} = open
      BY <1>2, <2>1, Zenon
    <3>2. Good(done, open)
      BY <1>16, <3>1, Zenon
    <3> QED BY <2>1, <3>2, IputNothing, Zenon
  <2>2. CASE j # NoIno
    <3>1. open \cup {k \in Inos : k = j /\ w # j} = open \cup {j} /\ {j} \subseteq Inos
      BY <1>4, <1>5, <2>2, Zenon
    <3>2. Good(done, open \cup {j})
      BY <1>16, <3>1, Zenon
    <3> QED BY <1>2, <3>1, <3>2, IputGood, Zenon
  <2> QED BY <2>1, <2>2, Zenon
<1>18. RenameCounts(fs, done, d, e, isDir, j)
  <2>1. done.nlink = counted.nlink /\ done.dx = left.dx /\ finished.nlink = dropped.nlink
    BY <1>10, <1>13, <1>14, Zenon DEF Recounted, Finished
  <2>2. dropped.nlink[d] = fs.nlink[d] /\ dropped.nlink[e] = fs.nlink[e]
    BY <1>3, <1>4, <1>8, <1>9, Zenon DEF Recounted
  <2>3. d # e => left.nlink[e] = fs.nlink[e] /\ counted.nlink[d] = left.nlink[d]
    BY <1>3, <1>4, <1>12, <1>13, <2>1, <2>2, Zenon DEF Recounted
  <2> QED BY <1>12, <1>13, <2>1, <2>2, <2>3, Zenon DEF RenameCounts
<1>19. RenameResult(fs, RenameStages(d, n, e, m, i, j, w, x).none, open, d, n, e, m, i, j, w)
  BY <1>1, <1>15, <1>16, <1>18, Zenon DEF RenameResult, isDir
<1> QED BY <1>1, <1>17, <1>19, Zenon

\* ext4_cross_rename: no inode loses a link.
LEMMA CrossGood ==
    ASSUME Good(fs, open), NEW d, NEW n, NEW e, NEW m, NEW i, NEW j \in Inos, MoveFrom(fs, d, n, e, m, i, j)
    PROVE  LET u == CrossStages(d, n, e, m, i, j).none IN
           /\ Good(u, open)
           /\ Moved(fs, u, d, n, e, m, i, j, j)
           /\ CrossCounted(fs, u, d, e, IsDir(fs, i), IsDir(fs, j))
<1> DEFINE both == SetEnt(SetEnt(fs, e, m, i), d, n, j)
           oldDone == DirFinish(both, d, e, i)
           newDone == DirFinish(oldDone, e, d, j)
           done == CrossCounts(newDone, d, e, i, j)
<1>1. CrossStages(d, n, e, m, i, j).none = done
  BY Zenon DEF CrossStages
<1>2. /\ fs \in Fs /\ NoIno \notin Inos /\ d \in Inos /\ e \in Inos /\ i \in Inos
      /\ fs.kind[d] = "dir" /\ fs.nlink[d] > 0 /\ fs.kind[e] = "dir" /\ fs.nlink[e] > 0
  BY NameiAssumption, Zenon DEF Good, MoveFrom
<1>3. /\ both \in Fs /\ both.kind = fs.kind /\ both.nlink = fs.nlink /\ both.dotdot = fs.dotdot
      /\ both.entry = [fs.entry EXCEPT ![<<e, m>>] = i, ![<<d, n>>] = j]
      /\ both.dx = fs.dx /\ both.orphan = fs.orphan /\ both.linkable = fs.linkable
  BY <1>2, ZenonT(60) DEF SetEnt, Fs
<1> HIDE DEF both
<1>4. Finished(both, oldDone, d, e, i)
  <2>1. both \in Fs /\ d \in Inos /\ e \in Inos /\ i \in Inos
    BY <1>2, <1>3, Zenon
  <2> QED BY <2>1, DirFinishFields
<1> HIDE DEF oldDone
<1>5. Finished(oldDone, newDone, e, d, j)
  <2>1. oldDone \in Fs /\ d \in Inos /\ e \in Inos
    BY <1>2, <1>4, Zenon DEF Finished
  <2> QED BY <2>1, DirFinishFields
<1> HIDE DEF newDone
<1>6. /\ newDone.kind[d] = "dir" /\ newDone.nlink[d] > 0
      /\ newDone.kind[e] = "dir" /\ newDone.nlink[e] > 0
  BY <1>2, <1>3, <1>4, <1>5, Zenon DEF Finished
<1>7. /\ Recounted(newDone, done, {d, e}) /\ done.nlink[d] > 0 /\ done.nlink[e] > 0
      /\ CrossCounted(newDone, done, d, e, IsDir(newDone, i), IsDir(newDone, j))
  <2>1. CASE d = e \/ IsDir(newDone, i) = IsDir(newDone, j)
    BY <1>5, <1>6, <2>1, Zenon DEF CrossCounts, Recounted, CrossCounted, Finished
  <2>2. CASE d # e /\ ~(IsDir(newDone, i) = IsDir(newDone, j)) /\ IsDir(newDone, i)
    <3> DEFINE t == DecCount(newDone, d)
    <3>1. done = IncCount(t, e)
      BY <2>2, ZenonT(60) DEF CrossCounts
    <3>2. Recounted(newDone, t, {d}) /\ t.nlink[d] > 0 /\ t.nlink[d] = Dec(newDone.nlink[d])
      BY <1>2, <1>5, <1>6, DirRecounted, Zenon DEF Finished
    <3> HIDE DEF t
    <3>3. t \in Fs /\ t.kind[e] = "dir" /\ t.nlink[e] > 0
      BY <1>2, <1>6, <2>2, <3>2, Zenon DEF Recounted
    <3>4. Recounted(t, done, {e}) /\ done.nlink[e] > 0 /\ done.nlink[e] = Inc(t.nlink[e], e \in t.dx)
      BY <1>2, <3>1, <3>3, DirRecounted, Zenon
    <3> HIDE DEF done
    <3>5. /\ Recounted(newDone, done, {d, e}) /\ done.nlink[d] > 0
          /\ done.nlink[d] = Dec(newDone.nlink[d]) /\ done.nlink[e] = Inc(newDone.nlink[e], e \in newDone.dx)
      BY <1>2, <2>2, <3>2, <3>4, Zenon DEF Recounted
    <3> QED BY <2>2, <3>4, <3>5, Zenon DEF CrossCounted
  <2>3. CASE d # e /\ ~(IsDir(newDone, i) = IsDir(newDone, j)) /\ ~IsDir(newDone, i)
    <3> DEFINE t == IncCount(newDone, d)
    <3>1. done = DecCount(t, e)
      BY <2>3 DEF CrossCounts
    <3>2. Recounted(newDone, t, {d}) /\ t.nlink[d] > 0 /\ t.nlink[d] = Inc(newDone.nlink[d], d \in newDone.dx)
      BY <1>2, <1>5, <1>6, DirRecounted, Zenon DEF Finished
    <3> HIDE DEF t
    <3>3. t \in Fs /\ t.kind[e] = "dir" /\ t.nlink[e] > 0
      BY <1>2, <1>6, <2>3, <3>2, Zenon DEF Recounted
    <3>4. Recounted(t, done, {e}) /\ done.nlink[e] > 0 /\ done.nlink[e] = Dec(t.nlink[e])
      BY <1>2, <3>1, <3>3, DirRecounted, Zenon
    <3> HIDE DEF done
    <3>5. /\ Recounted(newDone, done, {d, e}) /\ done.nlink[d] > 0
          /\ done.nlink[d] = Inc(newDone.nlink[d], d \in newDone.dx) /\ done.nlink[e] = Dec(newDone.nlink[e])
      BY <1>2, <2>3, <3>2, <3>4, Zenon DEF Recounted
    <3> HIDE DEF newDone
    <3> QED BY <2>3, <3>4, <3>5, Zenon DEF CrossCounted, IsDir
  <2> QED BY <2>1, <2>2, <2>3, Zenon
<1> HIDE DEF done
<1>8. /\ done \in Fs /\ done.kind = fs.kind /\ done.dx = fs.dx /\ done.linkable = fs.linkable
      /\ done.orphan = fs.orphan
      /\ done.entry = [fs.entry EXCEPT ![<<e, m>>] = i, ![<<d, n>>] = j]
  BY <1>3, <1>4, <1>5, <1>7, Zenon DEF Recounted, Finished
<1>9. \A k \in Inos : done.dotdot[k] = DotDot(fs, d, e, i, j, j, k)
  <2> SUFFICES ASSUME NEW k \in Inos PROVE done.dotdot[k] = DotDot(fs, d, e, i, j, j, k)
    OBVIOUS
  <2>1. /\ done.dotdot = newDone.dotdot /\ oldDone.kind = fs.kind /\ both.kind = fs.kind
        /\ both.dotdot = fs.dotdot /\ i # j
    BY <1>3, <1>4, <1>7, Zenon DEF Recounted, MoveFrom, Finished
  <2>2. /\ oldDone.dotdot[k] = IF k = i /\ both.kind[k] = "dir" /\ d # e THEN e ELSE both.dotdot[k]
        /\ newDone.dotdot[k] = IF k = j /\ oldDone.kind[k] = "dir" /\ e # d THEN d ELSE oldDone.dotdot[k]
    BY <1>4, <1>5, Zenon DEF Finished
  <2> QED BY <2>1, <2>2, Zenon DEF DotDot
<1>10. \A k \in Inos : IF k \in {d, e} THEN done.nlink[k] > 0 ELSE done.nlink[k] = fs.nlink[k]
  BY <1>3, <1>4, <1>5, <1>7 DEF Recounted, Finished
<1>11. Moved(fs, done, d, n, e, m, i, j, j)
  BY <1>8, <1>9, <1>10, Zenon DEF Moved, MovedEntry, MovedInode, MovedCount
<1>12. Good(done, open \cup {k \in Inos : k = j /\ j # j})
  BY <1>11, MovedGood
<1>13. open \cup {k \in Inos : k = j /\ j # j} = open
  OBVIOUS
<1>14. Good(done, open)
  BY <1>12, <1>13
<1>15. CrossCounted(fs, done, d, e, IsDir(fs, i), IsDir(fs, j))
  <2>1. newDone.nlink = fs.nlink /\ newDone.kind = fs.kind /\ newDone.dx = fs.dx
    BY <1>3, <1>4, <1>5, Zenon DEF Finished
  <2>2. (IsDir(newDone, i) <=> IsDir(fs, i)) /\ (IsDir(newDone, j) <=> IsDir(fs, j))
    BY <2>1 DEF IsDir
  <2> QED BY <1>7, <2>1, <2>2, Zenon DEF CrossCounted
<1> QED BY <1>1, <1>11, <1>14, <1>15, Zenon

-----------------------------------------------------------------------------
(* The other calls that succeed.  Each lemma spells out the fields of the new *)
(* volume and then goes through the inodes the call touches.                 *)

\* ext4_mkdir
LEMMA MkdirGood ==
    ASSUME NEW s, NEW O, Good(s, O), NEW d \in Inos, NEW n \in Names, NEW i \in Inos, NEW x \in BOOLEAN,
           s.kind[i] = "free", s.kind[d] = "dir", s.nlink[d] > 0, s.entry[<<d, n>>] = NoIno
    PROVE  LET u == IncCount(AddEntry(InitNewDir(NewInode(s, i), d, i), d, n, i, x), d) IN
           Good(u, O) /\ Grown(s, u, d, n, i)
<1> DEFINE u == AddEntry(InitNewDir(NewInode(s, i), d, i), d, n, i, x)
           p == <<d, n>>
<1>1. s \in Fs /\ p \in Places /\ NoIno \notin Inos /\ d # i
  BY NameiAssumption, Zenon DEF Good, Places
<1>2. /\ u.kind = [s.kind EXCEPT ![i] = "dir"] /\ u.nlink = [s.nlink EXCEPT ![i] = 2]
      /\ u.entry = [s.entry EXCEPT ![p] = i] /\ u.dotdot = [s.dotdot EXCEPT ![i] = d]
      /\ u.dx = (IF x THEN s.dx \cup {d} ELSE s.dx)
      /\ u.orphan = s.orphan /\ u.linkable = s.linkable
      /\ u \in Fs
  <2> DEFINE r == InitNewDir(NewInode(s, i), d, i)
  <2>1. /\ r.kind = [s.kind EXCEPT ![i] = "dir"] /\ r.nlink = [s.nlink EXCEPT ![i] = 2]
        /\ r.entry = s.entry /\ r.dotdot = [s.dotdot EXCEPT ![i] = d] /\ r.dx = s.dx
        /\ r.orphan = s.orphan /\ r.linkable = s.linkable
        /\ r \in Fs
    BY <1>1, Zenon DEF NewInode, InitNewDir, Fs
  <2> HIDE DEF r
  <2>2. /\ AddEntry(r, d, n, i, x).kind = r.kind /\ AddEntry(r, d, n, i, x).nlink = r.nlink
        /\ AddEntry(r, d, n, i, x).entry = [r.entry EXCEPT ![p] = i] /\ AddEntry(r, d, n, i, x).dotdot = r.dotdot
        /\ AddEntry(r, d, n, i, x).dx = (IF x THEN r.dx \cup {d} ELSE r.dx)
        /\ AddEntry(r, d, n, i, x).orphan = r.orphan /\ AddEntry(r, d, n, i, x).linkable = r.linkable
        /\ AddEntry(r, d, n, i, x) \in Fs
    BY Zenon, <2>1 DEF AddEntry, SetEnt, Fs
  <2> QED BY <2>1, <2>2, Zenon DEF r
<1> HIDE DEF u
<1>3. ASSUME NEW k \in Inos PROVE GoodInode(u, O, k)
  <2>1. GoodInode(s, O, k) /\ s.kind[k] \in {"free", "file", "dir"}
    BY <1>1, Zenon DEF Good, Fs
  <2>2. k # i => LinksOf(u, k) = LinksOf(s, k)
    BY <1>1, <1>2, LinksChange
  <2>3. k = i => LinksOf(u, k) = LinksOf(s, k) \cup {p}
    BY <1>1, <1>2, LinksChange
  <2>4. /\ u.kind[k] = (IF k = i THEN "dir" ELSE s.kind[k]) /\ u.nlink[k] = (IF k = i THEN 2 ELSE s.nlink[k])
        /\ u.dotdot[k] = (IF k = i THEN d ELSE s.dotdot[k]) /\ (k \in u.dx => k \in s.dx \/ k = d)
        /\ u.orphan = s.orphan /\ u.linkable = s.linkable
    BY <1>1, <1>2 DEF Fs
  <2>5. CASE k = i
    BY <1>1, <2>1, <2>3, <2>4, <2>5 DEF GoodInode, FreeInode, DirInode, ListedInode
  <2>6. CASE k # i
    BY <1>1, <2>1, <2>2, <2>4, <2>6, Zenon DEF GoodInode, FreeInode, FileInode, DirInode, ListedInode
  <2> QED BY <2>5, <2>6
<1>4. NoSelf(u)
  <2>1. EntryPut(s, u, d, n, i)
    BY <1>1, <1>2, Zenon DEF Good, EntryPut
  <2> QED BY <2>1, NoSelfEntry
<1>5. Good(u, O) /\ u.kind[d] = "dir" /\ u.nlink[d] > 0
  BY <1>1, <1>2, <1>3, <1>4 DEF Good, Fs
<1>6. PICK c \in Nat \ {0} : c = Inc(u.nlink[d], d \in u.dx) /\ IncCount(u, d) = [u EXCEPT !.nlink[d] = c]
  BY Zenon, <1>2, <1>5, CountsKeepDirs
<1>7. Good([u EXCEPT !.nlink[d] = c], O)
  BY <1>5, RecountGood, Zenon
<1>8. Good(IncCount(u, d), O)
  BY <1>6, <1>7, Zenon
<1>9. Grown(s, IncCount(u, d), d, n, i)
  <2>1. /\ Recounted(u, IncCount(u, d), {d})
        /\ IncCount(u, d).nlink[d] = Inc(u.nlink[d], d \in u.dx)
    BY Zenon, <1>2, <1>5, DirRecounted
  <2>2. u.nlink[i] = 2 /\ \A k \in Inos \ {i} : u.nlink[k] = s.nlink[k]
    BY <1>1, <1>2 DEF Fs
  <2>3. u.nlink[d] = s.nlink[d]
    BY <1>1, <2>2, Zenon
  <2> QED BY <1>1, <1>2, <2>1, <2>2, <2>3 DEF Grown, Recounted
<1> QED BY <1>8, <1>9, Zenon DEF u

\* ext4_tmpfile, when it succeeds: a file without links on the orphan list, held open.
LEMMA TmpfileGood ==
    ASSUME NEW s, NEW O, Good(s, O), NEW i \in Inos, s.kind[i] = "free"
    PROVE  Good([OrphanAdd(DropNlink(NewInode(s, i), i), i) EXCEPT !.linkable = @ \cup {i}], O \cup {i})
<1> DEFINE u == [OrphanAdd(DropNlink(NewInode(s, i), i), i) EXCEPT !.linkable = @ \cup {i}]
<1>1. s \in Fs
  BY DEF Good
<1>2. /\ u.kind = [s.kind EXCEPT ![i] = "file"] /\ u.nlink = [s.nlink EXCEPT ![i] = 0]
      /\ u.entry = s.entry /\ u.dotdot = s.dotdot /\ u.dx = s.dx
      /\ u.orphan = s.orphan \cup {i} /\ u.linkable = s.linkable \cup {i}
      /\ u \in Fs
  BY <1>1 DEF OrphanAdd, DropNlink, NewInode, Fs
<1> HIDE DEF u
<1>3. ASSUME NEW k \in Inos PROVE GoodInode(u, O \cup {i}, k)
  <2>1. GoodInode(s, O, k) /\ s.kind[k] \in {"free", "file", "dir"} /\ LinksOf(u, k) = LinksOf(s, k)
    BY <1>1, <1>2 DEF Good, Fs, LinksOf
  <2>2. u.kind[k] = (IF k = i THEN "file" ELSE s.kind[k]) /\ u.nlink[k] = (IF k = i THEN 0 ELSE s.nlink[k])
    BY <1>1, <1>2, Zenon DEF Fs
  <2>3. LinksOf(s, k) = {} => Cardinality(LinksOf(u, k)) = 0
    BY <2>1, FS_EmptySet
  <2>4. CASE k = i
    BY <1>2, <2>1, <2>2, <2>3, <2>4, Zenon DEF GoodInode, FreeInode, FileInode, ListedInode
  <2>5. CASE k # i
    BY <1>2, <2>1, <2>2, <2>5, Zenon DEF GoodInode, FreeInode, FileInode, DirInode, ListedInode
  <2> QED BY <2>4, <2>5
<1>4. Good(u, O \cup {i})
  BY <1>2, <1>3, Zenon DEF Good, NoSelf
<1> QED BY <1>4 DEF u

\* The entry at (d, n) goes and with it a link of i, the last one if i is a directory.
Removed(s, u, d, n, i) ==
    /\ u \in Fs
    /\ u.kind = s.kind /\ u.entry = [s.entry EXCEPT ![<<d, n>>] = NoIno] /\ u.dotdot = s.dotdot
    /\ u.dx = s.dx /\ u.linkable = s.linkable
    /\ u.nlink = [s.nlink EXCEPT ![i] = IF s.kind[i] = "dir" THEN 0 ELSE @ - 1]
    /\ u.orphan = (IF u.nlink[i] = 0 THEN s.orphan \cup {i} ELSE s.orphan)

\* A removal leaves a good volume as long as the call holds on to what it removed.
LEMMA RemoveGood ==
    ASSUME NEW s, NEW O, Good(s, O), NEW d \in Inos, NEW n \in Names, NEW i \in Inos,
           s.entry[<<d, n>>] = i, NEW u, Removed(s, u, d, n, i)
    PROVE  Good(u, O \cup {i})
<1> DEFINE p == <<d, n>>
<1>1. s \in Fs /\ p \in Places /\ NoIno \notin Inos /\ i # d
  BY NameiAssumption, Zenon DEF Good, NoSelf, Places
<1> USE DEF Removed
<1>2. ASSUME NEW k \in Inos PROVE GoodInode(u, O \cup {i}, k)
  <2>1. GoodInode(s, O, k) /\ s.kind[k] \in {"free", "file", "dir"} /\ s.nlink[k] \in Nat
    BY <1>1, Zenon DEF Good, Fs
  <2>2. u.kind[k] = s.kind[k]
        /\ u.nlink[k] = (IF k = i THEN IF s.kind[i] = "dir" THEN 0 ELSE s.nlink[k] - 1 ELSE s.nlink[k])
    BY <1>1, SMTT(30) DEF Fs
  <2>3. CASE k # i
    <3>1. LinksOf(u, k) = LinksOf(s, k)
      BY <1>1, <2>3, LinksChange
    <3> QED BY <2>1, <2>2, <2>3, <3>1 DEF GoodInode, FreeInode, FileInode, DirInode, ListedInode
  <2>4. CASE k = i
    <3>1. /\ LinksOf(u, k) = LinksOf(s, k) \ {p} /\ p \in LinksOf(s, k)
          /\ Cardinality(LinksOf(u, k)) = Cardinality(LinksOf(s, k)) - 1
          /\ Cardinality(LinksOf(s, k)) > 0
      <4>1. p \in LinksOf(s, k)
        BY <1>1, <2>4, Zenon DEF LinksOf
      <4> QED BY <4>1, <1>1, <2>4, LinksChange
    <3>2. s.kind[k] # "free"
      BY <2>1, <3>1, Zenon DEF GoodInode, FreeInode
    <3>3. CASE s.kind[k] = "dir"
      <4>1. LinksOf(u, k) = {}
        BY <2>1, <3>1, <3>3, Zenon DEF GoodInode, DirInode
      <4> QED BY <2>1, <2>2, <2>4, <3>3, <4>1, Zenon DEF GoodInode, DirInode, ListedInode
    <3>4. CASE s.kind[k] = "file"
      BY <2>1, <2>2, <2>4, <3>1, <3>4, SMTT(30) DEF GoodInode, FileInode, ListedInode
    <3> QED BY <2>1, <3>2, <3>3, <3>4, Zenon
  <2> QED BY <2>3, <2>4, Zenon
<1>3. NoSelf(u)
  <2>1. EntryPut(s, u, d, n, NoIno)
    BY <1>1, Zenon DEF Good, EntryPut
  <2> QED BY <2>1, NoSelfEntry, Zenon
<1> QED BY <1>2, <1>3, Zenon DEF Good

\* What ext4_rmdir and ext4_unlink leave.
RemoveResult(s, r, O, d, n, i) ==
    \E u : r = Iput(u, {i}, O) /\ Unnamed(s, u, d, n, i) /\ Good(u, O \cup {i})

\* ext4_rmdir
LEMMA RmdirGood ==
    ASSUME NEW s, NEW O, Good(s, O), NEW d \in Inos, NEW n \in Names, NEW i \in Inos,
           s.entry[<<d, n>>] = i, s.kind[i] = "dir", s.kind[d] = "dir", s.nlink[d] > 0
    PROVE  LET r == Iput(DecCount(OrphanAdd(ClearNlink(DeleteEntry(s, d, n), i), i), d), {i}, O) IN
           Good(r, O) /\ RemoveResult(s, r, O, d, n, i)
<1> DEFINE u == OrphanAdd(ClearNlink(DeleteEntry(s, d, n), i), i)
<1>1. s \in Fs /\ i # d /\ O \subseteq Inos
  BY DEF Good, NoSelf
<1>2. /\ u.kind = s.kind /\ u.entry = [s.entry EXCEPT ![<<d, n>>] = NoIno] /\ u.dotdot = s.dotdot
      /\ u.dx = s.dx /\ u.linkable = s.linkable
      /\ u.nlink = [s.nlink EXCEPT ![i] = 0] /\ u.orphan = s.orphan \cup {i}
      /\ u \in Fs
  BY <1>1, Zenon DEF OrphanAdd, ClearNlink, DeleteEntry, SetEnt, Fs
<1> HIDE DEF u
<1>3. u \in Fs /\ u.nlink[i] = 0 /\ u.kind[d] = "dir" /\ u.nlink[d] > 0
  BY <1>1, <1>2, Zenon DEF Fs
<1>4. u.nlink = [s.nlink EXCEPT ![i] = IF s.kind[i] = "dir" THEN 0 ELSE @ - 1]
  BY <1>2, Zenon
<1>5. u.orphan = (IF u.nlink[i] = 0 THEN s.orphan \cup {i} ELSE s.orphan)
  BY <1>2, <1>3, Zenon
<1>6. Good(u, O \cup {i})
  <2>1. Removed(s, u, d, n, i)
    BY <1>2, <1>4, <1>5, Zenon DEF Removed
  <2> QED BY <2>1, RemoveGood, Zenon
<1>7. PICK c \in Nat \ {0} : DecCount(u, d) = [u EXCEPT !.nlink[d] = c]
  BY <1>3, CountsKeepDirs
<1>8. Good([u EXCEPT !.nlink[d] = c], O \cup {i})
  BY <1>3, <1>6, RecountGood, Zenon
<1>9. Good(DecCount(u, d), O \cup {i})
  BY <1>7, <1>8, Zenon
<1>10. Good(Iput(DecCount(u, d), {i}, O), O)
  BY <1>1, <1>9, IputGood, Zenon
<1>11. Unnamed(s, DecCount(u, d), d, n, i)
  <2>1. Recounted(u, DecCount(u, d), {d}) /\ DecCount(u, d).nlink[d] = Dec(u.nlink[d])
    BY <1>3, DirRecounted, Zenon
  <2>2. u.nlink[d] = s.nlink[d] /\ \A k \in Inos \ {i} : u.nlink[k] = s.nlink[k]
    BY <1>1, <1>2 DEF Fs
  <2> QED BY <1>1, <1>2, <1>3, <2>1, <2>2 DEF Unnamed, Recounted
<1>12. RemoveResult(s, Iput(DecCount(u, d), {i}, O), O, d, n, i)
  BY <1>9, <1>11, Zenon DEF RemoveResult
<1> QED BY <1>10, <1>12, Zenon DEF u

\* ext4_unlink: a file that has an entry has links.
LEMMA UnlinkGood ==
    ASSUME NEW s, NEW O, Good(s, O), NEW d \in Inos, NEW n \in Names, NEW i \in Inos,
           s.entry[<<d, n>>] = i, s.kind[i] # "dir", NEW u, NEW t,
           t = DropNlink(DeleteEntry(s, d, n), i),
           u = (IF t.nlink[i] = 0 THEN OrphanAdd(t, i) ELSE t)
    PROVE  Good(Iput(u, {i}, O), O) /\ RemoveResult(s, Iput(u, {i}, O), O, d, n, i) /\ s.nlink[i] # 0
<1>1. s \in Fs /\ O \subseteq Inos /\ GoodInode(s, O, i) /\ s.kind[i] \in {"free", "file", "dir"}
  BY Zenon DEF Good, Fs
<1>2. <<d, n>> \in LinksOf(s, i)
  BY DEF LinksOf, Places
<1>3. IsFiniteSet(LinksOf(s, i))
  BY PlacesFinite, FS_Subset, Zenon DEF LinksOf
<1>4. Cardinality(LinksOf(s, i)) # 0
  BY <1>2, <1>3, FS_EmptySet, Zenon
<1>5. s.kind[i] = "file" /\ s.nlink[i] # 0 /\ s.nlink[i] \in Nat
  BY <1>1, <1>2, <1>4, Zenon DEF GoodInode, FreeInode, FileInode, Fs
<1>6. /\ t.kind = s.kind /\ t.entry = [s.entry EXCEPT ![<<d, n>>] = NoIno] /\ t.dotdot = s.dotdot
      /\ t.dx = s.dx /\ t.linkable = s.linkable /\ t.orphan = s.orphan
      /\ t.nlink = [s.nlink EXCEPT ![i] = s.nlink[i] - 1]
      /\ t \in Fs
  <2> DEFINE c == s.nlink[i] - 1
             r == DeleteEntry(s, d, n)
  <2>1. r.entry = [s.entry EXCEPT ![<<d, n>>] = NoIno] /\ r.nlink = s.nlink /\ r.kind = s.kind
        /\ r.dotdot = s.dotdot /\ r.dx = s.dx /\ r.linkable = s.linkable /\ r.orphan = s.orphan /\ r \in Fs
    BY <1>1, Zenon DEF DeleteEntry, SetEnt, Fs
  <2>3. c \in Nat /\ t = [r EXCEPT !.nlink[i] = c]
    BY <1>5, <2>1 DEF DropNlink
  <2> HIDE DEF c, r
  <2>2. /\ t.kind = s.kind /\ t.entry = [s.entry EXCEPT ![<<d, n>>] = NoIno] /\ t.dotdot = s.dotdot
        /\ t.dx = s.dx /\ t.linkable = s.linkable /\ t.orphan = s.orphan
        /\ t.nlink = [s.nlink EXCEPT ![i] = c]
        /\ t \in Fs
    BY <2>1, <2>3 DEF Fs
  <2> QED BY <2>2, Zenon DEF c
<1>7. /\ u.kind = t.kind /\ u.entry = t.entry /\ u.dotdot = t.dotdot /\ u.dx = t.dx
      /\ u.linkable = t.linkable /\ u.nlink = t.nlink
      /\ u.orphan = (IF t.nlink[i] = 0 THEN t.orphan \cup {i} ELSE t.orphan)
      /\ u \in Fs
  <2>1. CASE t.nlink[i] = 0
    BY <1>6, <2>1 DEF OrphanAdd, Fs
  <2>2. CASE t.nlink[i] # 0
    BY <1>6, <2>2, Zenon
  <2> QED BY <2>1, <2>2, Zenon
<1>8. Removed(s, u, d, n, i)
  BY <1>5, <1>6, <1>7, ZenonT(60) DEF Removed
<1>9. Good(u, O \cup {i})
  BY <1>8, RemoveGood, Zenon
<1>10. i # d
  BY Zenon DEF Good, NoSelf
<1>11. Unnamed(s, u, d, n, i)
  BY <1>1, <1>5, <1>6, <1>7, <1>10 DEF Unnamed, Fs
<1>12. RemoveResult(s, Iput(u, {i}, O), O, d, n, i)
  BY <1>9, <1>11, Zenon DEF RemoveResult
<1> QED BY <1>1, <1>5, <1>9, <1>12, IputGood, Zenon

=============================================================================
