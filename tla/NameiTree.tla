------------------------------ MODULE NameiTree ------------------------------
(***************************************************************************)
(* The calls of Namei that succeed keep the directories a tree.            *)
(***************************************************************************)
EXTENDS NameiVolume, FiniteSetTheorems, TLAPS

-----------------------------------------------------------------------------
(* Directories and what is in them *)

\* What an entry leads to has links, and the directory it is in is in use; if it is
\* a directory, that is its "..".
LEMMA EntryTarget ==
    ASSUME NEW s, NEW O, Sound(s, O), NEW d \in Inos, NEW n \in Names, NEW k \in Inos, s.entry[<<d, n>>] = k
    PROVE  /\ s.kind[k] \in {"file", "dir"} /\ s.nlink[k] \in Nat \ {0} /\ k # Root /\ k # d /\ InUse(s, d)
           /\ s.kind[k] = "dir" => s.dotdot[k] = d
<1>1. s \in Fs /\ GoodInode(s, O, k) /\ NoSelf(s) /\ Tree(s) /\ <<d, n>> \in Places
  BY DEF Sound, Good, Places
<1>2. s.kind[k] \in {"free", "file", "dir"} /\ s.nlink[k] \in Nat /\ k # NoIno
  BY <1>1, NameiAssumption DEF Fs
<1>3. <<d, n>> \in LinksOf(s, k) /\ IsFiniteSet(LinksOf(s, k))
  <2>1. IsFiniteSet(Places)
    BY NameiAssumption, FS_Product DEF Places
  <2> QED BY <1>1, <2>1, FS_Subset DEF LinksOf
<1>4. Cardinality(LinksOf(s, k)) # 0
  BY <1>3, FS_EmptySet
<1>5. s.kind[k] # "free" /\ s.nlink[k] # 0
  BY <1>1, <1>2, <1>3, <1>4, Zenon DEF GoodInode, FreeInode, FileInode, DirInode
<1>6. k # Root /\ k # d /\ InUse(s, d)
  BY <1>1, <1>2, Zenon DEF Tree, RootOK, NoSelf, Placed
<1>7. ASSUME s.kind[k] = "dir" PROVE s.dotdot[k] = d
  <2>1. InUse(s, k)
    BY <1>2, <1>5, <1>7 DEF InUse
  <2>2. PICK m \in Names : s.dotdot[k] \in Inos /\ s.entry[<<s.dotdot[k], m>>] = k
    BY Zenon, <1>1, <1>6, <2>1 DEF Tree, Placed
  <2>3. <<s.dotdot[k], m>> \in LinksOf(s, k)
    BY <2>2 DEF LinksOf, Places
  <2>4. <<s.dotdot[k], m>> = <<d, n>>
    BY <1>1, <1>3, <1>7, <2>3 DEF GoodInode, DirInode
  <2> QED BY <2>4
<1> QED BY <1>2, <1>5, <1>6, <1>7

\* The directory above one in use is in use.
LEMMA ParentInUse ==
    ASSUME NEW s, NEW O, Sound(s, O), NEW k \in Inos, InUse(s, k)
    PROVE  s.dotdot[k] \in Inos /\ InUse(s, s.dotdot[k])
<1>1. Tree(s) /\ NoIno \notin Inos
  BY NameiAssumption DEF Sound
<1>2. CASE k = Root
  BY <1>1, <1>2 DEF Tree, RootOK
<1>3. CASE k # Root
  BY Zenon, <1>1, <1>3 DEF Tree, Placed
<1> QED BY <1>2, <1>3

\* One for what is counted.
One(b) == IF b THEN 1 ELSE 0

\* The number of subdirectories is a number.
LEMMA SubdirsFinite ==
    ASSUME NEW s, NEW d
    PROVE  IsFiniteSet(SubdirsOf(s, d)) /\ Cardinality(SubdirsOf(s, d)) \in Nat
<1>1. IsFiniteSet(SubdirsOf(s, d))
  BY Zenon, NameiAssumption, FS_Subset DEF SubdirsOf
<1> QED BY <1>1, FS_CardinalityType

\* How the number of subdirectories changes with one entry.
LEMMA SubdirsChange ==
    ASSUME NEW s, NEW u, NEW d, NEW n \in Names,
           \A m \in Names \ {n} : IsDir(u, u.entry[<<d, m>>]) <=> IsDir(s, s.entry[<<d, m>>])
    PROVE  Cardinality(SubdirsOf(u, d)) = Cardinality(SubdirsOf(s, d)) - One(IsDir(s, s.entry[<<d, n>>]))
                                          + One(IsDir(u, u.entry[<<d, n>>]))
<1> DEFINE a == IsDir(s, s.entry[<<d, n>>])
           b == IsDir(u, u.entry[<<d, n>>])
           S == SubdirsOf(s, d)
           U == SubdirsOf(u, d)
<1>1. /\ n \in S <=> a
      /\ n \in U <=> b
      /\ \A m \in Names \ {n} : m \in U <=> m \in S
      /\ S \subseteq Names /\ U \subseteq Names
  BY Zenon DEF SubdirsOf
<1>2. IsFiniteSet(S) /\ Cardinality(S) \in Nat
  BY SubdirsFinite
<1> HIDE DEF a, b, S, U
<1>3. CASE a <=> b
  <2>1. U = S
    BY <1>1, <1>3
  <2> QED BY <1>2, <1>3, <2>1 DEF One, a, b, S, U
<1>4. CASE a /\ ~b
  <2>1. U = S \ {n} /\ n \in S
    BY <1>1, <1>4
  <2>2. Cardinality(U) = Cardinality(S) - 1
    BY <1>2, <2>1, FS_RemoveElement
  <2> QED BY <1>2, <1>4, <2>2 DEF One, a, b, S, U
<1>5. CASE ~a /\ b
  <2>1. U = S \cup {n} /\ n \notin S
    BY <1>1, <1>5
  <2>2. Cardinality(U) = Cardinality(S) + 1
    BY <1>2, <2>1, FS_AddElement
  <2> QED BY <1>2, <1>5, <2>2 DEF One, a, b, S, U
<1> QED BY <1>3, <1>4, <1>5, Zenon

\* Nor does it change when no entry does.
LEMMA SubdirsSame ==
    ASSUME NEW s, NEW u, NEW d,
           \A m \in Names : IsDir(u, u.entry[<<d, m>>]) <=> IsDir(s, s.entry[<<d, m>>])
    PROVE  SubdirsOf(u, d) = SubdirsOf(s, d)
BY DEF SubdirsOf

\* A directory with a subdirectory has one at least.
LEMMA SomeSubdirs ==
    ASSUME NEW s, NEW d, NEW n \in Names, IsDir(s, s.entry[<<d, n>>])
    PROVE  Cardinality(SubdirsOf(s, d)) \in Nat \ {0}
<1>1. IsFiniteSet(SubdirsOf(s, d)) /\ Cardinality(SubdirsOf(s, d)) \in Nat /\ n \in SubdirsOf(s, d)
  BY SubdirsFinite, Zenon DEF SubdirsOf
<1> QED BY <1>1, FS_EmptySet

\* ext4_inc_count for one more subdirectory, when there is room for it.
LEMMA IncFits ==
    ASSUME NEW n \in Nat, NEW c \in Nat, NEW x \in BOOLEAN, Fits(n, c, x), n < LinkMax \/ (x /\ DirNlink)
    PROVE  Fits(Inc(n, x), c + 1, x)
BY NameiAssumption DEF Fits, Inc

\* ext4_dec_count for one fewer.
LEMMA DecFits ==
    ASSUME NEW n \in Nat, NEW c \in Nat, c > 0, NEW x \in BOOLEAN, Fits(n, c, x)
    PROVE  Fits(Dec(n), c - 1, x) /\ Dec(n) \in Nat \ {0} /\ (Dec(n) < LinkMax \/ (x /\ DirNlink))
BY NameiAssumption DEF Fits, Dec

-----------------------------------------------------------------------------
(* Below the root *)

\* A directory is not above the one it is in: else the directories it is above of
\* would do without the root.
LEMMA ChildNotAbove ==
    ASSUME NEW s, NEW O, Sound(s, O), NEW j \in Inos, InUse(s, j), j # Root
    PROVE  \E T : Closed(s, T) /\ s.dotdot[j] \in T /\ j \notin T
<1> SUFFICES ASSUME \A T : Closed(s, T) /\ s.dotdot[j] \in T => j \in T PROVE FALSE
  OBVIOUS
<1> DEFINE W == {k \in Inos : InUse(s, k) /\ \A T : Closed(s, T) /\ k \in T => j \in T}
<1>1. s.dotdot[j] \in W /\ W # {}
  BY ParentInUse
<1>2. ASSUME NEW k \in W PROVE s.dotdot[k] \in W
  <2>1. CASE k = j
    BY <1>1, <2>1
  <2>2. CASE k # j
    <3>1. k \in Inos /\ s.dotdot[k] \in Inos /\ InUse(s, s.dotdot[k])
      BY <1>2, ParentInUse
    <3>2. ASSUME NEW T, Closed(s, T), s.dotdot[k] \in T PROVE j \in T
      <4>1. Closed(s, T \cup {k})
        BY <3>1, <3>2 DEF Closed
      <4>2. j \in T \cup {k}
        BY <1>2, <4>1
      <4> QED BY <2>2, <4>2
    <3> QED BY <3>1, <3>2
  <2> QED BY <2>1, <2>2
<1>3. Root \in W
  <2>1. Closed(s, W)
    BY <1>2, Zenon DEF Closed
  <2> QED BY <1>1, <2>1, Zenon DEF Sound, Tree, Rooted
<1>4. Closed(s, {Root})
  BY NameiAssumption DEF Closed, Sound, Tree, RootOK
<1> QED BY <1>3, <1>4

\* From s to u the directories in M got other directories above them.  What is
\* above those is without members of M.
Moves(s, u, M) ==
    /\ \A k \in Inos : InUse(u, k) => InUse(s, k)
    /\ \A k \in Inos \ M : InUse(u, k) => u.dotdot[k] = s.dotdot[k]
    /\ \A k \in M : InUse(u, k) => \E T : Closed(s, T) /\ u.dotdot[k] \in T /\ \A h \in T : h \notin M

\* Then they are still below the root.
LEMMA RootedMoved ==
    ASSUME NEW s, NEW u, NEW M, Rooted(s), Moves(s, u, M)
    PROVE  Rooted(u)
<1> SUFFICES ASSUME NEW S, Closed(u, S), S # {}, \A k \in S : InUse(u, k) PROVE Root \in S
  BY DEF Rooted
<1>1. S \subseteq Inos /\ \A k \in S : InUse(s, k) /\ u.dotdot[k] \in S
  BY DEF Closed, Moves
<1>2. CASE \A k \in S : k \notin M
  <2>1. Closed(s, S)
    BY <1>1, <1>2 DEF Closed, Moves
  <2> QED BY <1>1, <2>1 DEF Rooted
<1>3. CASE \E k \in S : k \in M
  <2>1. PICK k \in S : k \in M
    BY <1>3
  <2>2. PICK T : Closed(s, T) /\ u.dotdot[k] \in T /\ \A h \in T : h \notin M
    BY <2>1 DEF Moves
  <2>3. Closed(s, S \cap T)
    BY <1>1, <2>2, Zenon DEF Closed, Moves
  <2>4. S \cap T # {} /\ \A h \in S \cap T : InUse(s, h)
    BY <1>1, <2>2
  <2> QED BY <2>3, <2>4 DEF Rooted
<1> QED BY <1>2, <1>3

\* A new directory in one in use is below the root.
LEMMA RootedGrown ==
    ASSUME NEW s, NEW O, Sound(s, O), NEW u, NEW d \in Inos, NEW n, NEW i \in Inos, Grown(s, u, d, n, i),
           InUse(s, d), ~InUse(s, i)
    PROVE  Rooted(u)
<1> SUFFICES ASSUME NEW S, Closed(u, S), S # {}, \A k \in S : InUse(u, k) PROVE Root \in S
  BY DEF Rooted
<1>1. /\ s \in Fs /\ S \subseteq Inos /\ Rooted(s)
      /\ \A k \in Inos : u.dotdot[k] = IF k = i THEN d ELSE s.dotdot[k]
      /\ \A k \in Inos : k # i /\ InUse(u, k) => s.kind[k] = "dir" /\ (k # d => s.nlink[k] > 0)
  BY DEF Sound, Tree, Good, Fs, Closed, Grown, InUse
<1>2. \A k \in S \ {i} : InUse(s, k)
  BY <1>1, Zenon DEF InUse
<1>3. ASSUME NEW k \in S \ {i} PROVE s.dotdot[k] \in S \ {i}
  <2>1. InUse(s, s.dotdot[k])
    BY <1>1, <1>2, <1>3, ParentInUse, Zenon
  <2> QED BY <1>1, <1>3, <2>1 DEF Closed
<1>4. S \ {i} # {}
  BY <1>1 DEF Closed
<1>5. Closed(s, S \ {i})
  BY <1>1, <1>3, Zenon DEF Closed
<1>6. Root \in S \ {i}
  BY <1>1, <1>2, <1>4, <1>5 DEF Rooted
<1> QED BY <1>6

-----------------------------------------------------------------------------
(* Renaming and exchanging *)

Move(s, O, u, d, n, e, m, i, j, v) ==
    Sound(s, O) /\ MoveFrom(s, d, n, e, m, i, j) /\ Moved(s, u, d, n, e, m, i, j, v)

\* How many subdirectories a directory has after it.
SubdirsMoved(s, u, d, e, i, j, v, k) ==
    Cardinality(SubdirsOf(u, k)) =
        Cardinality(SubdirsOf(s, k)) - One(k = e /\ IsDir(s, j)) + One(k = e /\ IsDir(s, i))
                                     - One(k = d /\ IsDir(s, i)) + One(k = d /\ IsDir(s, v))

\* The subdirectories after a move, directory by directory.
LEMMA MovedSubdirs ==
    ASSUME NEW s, NEW O, NEW d, NEW n, NEW e, NEW m, NEW i, NEW j, NEW v, NEW u,
           Move(s, O, u, d, n, e, m, i, j, v), NEW k \in Inos
    PROVE  SubdirsMoved(s, u, d, e, i, j, v, k)
<1> DEFINE t == [s EXCEPT !.entry = [s.entry EXCEPT ![<<e, m>>] = i]]
<1>1. /\ s \in Fs /\ u \in Fs /\ NoIno \notin Inos /\ n \in Names /\ m \in Names /\ d \in Inos /\ e \in Inos
      /\ i \in Inos /\ i # j /\ s.entry[<<d, n>>] = i /\ s.entry[<<e, m>>] = j
  BY NameiAssumption, Zenon DEF Move, Sound, Good, Moved, MoveFrom
<1>2. j \in Inos \cup {NoIno} /\ v \in Inos \cup {NoIno}
  BY <1>1 DEF Move, Fs, Places, Moved
<1>3. t.kind = s.kind /\ t.entry = [s.entry EXCEPT ![<<e, m>>] = i]
  BY <1>1 DEF Fs
<1> HIDE DEF t
<1>4. \A h : IsDir(t, h) <=> IsDir(s, h)
  BY <1>3 DEF IsDir
<1>5. \A h \in Inos \cup {NoIno} : IsDir(u, h) <=> IsDir(s, h)
  BY <1>1 DEF Move, IsDir, Moved, MovedInode
<1>6. /\ \A a \in Inos, b \in Names : s.entry[<<a, b>>] \in Inos \cup {NoIno}
      /\ \A a \in Inos, b \in Names : t.entry[<<a, b>>] = IF a = e /\ b = m THEN i ELSE s.entry[<<a, b>>]
  BY <1>1, <1>3, Zenon DEF Fs, Places
<1>7. \A a \in Inos, b \in Names : u.entry[<<a, b>>] = IF a = d /\ b = n THEN v ELSE t.entry[<<a, b>>]
  <2>1. u.entry = [t.entry EXCEPT ![<<d, n>>] = v] /\ DOMAIN t.entry = Inos \X Names
    BY <1>1, <1>3, Zenon DEF Move, Moved, MovedEntry, Fs, Places
  <2> QED BY <1>1, <2>1
<1>8. t.entry[<<d, n>>] = i
  BY <1>1, <1>6, Zenon
<1>9. Cardinality(SubdirsOf(t, k)) =
          Cardinality(SubdirsOf(s, k)) - One(k = e /\ IsDir(s, j)) + One(k = e /\ IsDir(s, i))
  <2>1. Cardinality(SubdirsOf(s, k)) \in Nat
    BY SubdirsFinite
  <2>2. CASE k = e
    <3>1. \A b \in Names \ {m} : IsDir(t, t.entry[<<e, b>>]) <=> IsDir(s, s.entry[<<e, b>>])
      BY <1>1, <1>4, <1>6, Zenon
    <3>2. Cardinality(SubdirsOf(t, e)) = Cardinality(SubdirsOf(s, e)) - One(IsDir(s, s.entry[<<e, m>>]))
                                         + One(IsDir(t, t.entry[<<e, m>>]))
      BY <1>1, <3>1, SubdirsChange
    <3>3. (IsDir(s, s.entry[<<e, m>>]) <=> k = e /\ IsDir(s, j))
          /\ (IsDir(t, t.entry[<<e, m>>]) <=> k = e /\ IsDir(s, i))
      BY <1>1, <1>4, <1>6, <2>2, Zenon
    <3> QED BY <2>2, <3>2, <3>3, Zenon DEF One
  <2>3. CASE k # e
    <3>1. \A b \in Names : IsDir(t, t.entry[<<k, b>>]) <=> IsDir(s, s.entry[<<k, b>>])
      BY <1>1, <1>4, <1>6, <2>3, Zenon
    <3>2. SubdirsOf(t, k) = SubdirsOf(s, k)
      BY <3>1, SubdirsSame
    <3> QED BY <2>1, <2>3, <3>2 DEF One
  <2> QED BY <2>2, <2>3, Zenon
<1>10. Cardinality(SubdirsOf(u, k)) =
          Cardinality(SubdirsOf(t, k)) - One(k = d /\ IsDir(s, i)) + One(k = d /\ IsDir(s, v))
  <2>1. Cardinality(SubdirsOf(t, k)) \in Nat
    BY SubdirsFinite
  <2>2. \A a \in Inos, b \in Names : t.entry[<<a, b>>] \in Inos \cup {NoIno}
    BY <1>1, <1>6
  <2>3. CASE k = d
    <3>1. \A b \in Names \ {n} : IsDir(u, u.entry[<<d, b>>]) <=> IsDir(t, t.entry[<<d, b>>])
      BY <1>1, <1>4, <1>5, <1>7, <2>2, Zenon
    <3>2. Cardinality(SubdirsOf(u, d)) = Cardinality(SubdirsOf(t, d)) - One(IsDir(t, t.entry[<<d, n>>]))
                                         + One(IsDir(u, u.entry[<<d, n>>]))
      BY <1>1, <3>1, SubdirsChange
    <3>3. (IsDir(t, t.entry[<<d, n>>]) <=> k = d /\ IsDir(s, i))
          /\ (IsDir(u, u.entry[<<d, n>>]) <=> k = d /\ IsDir(s, v))
      BY <1>1, <1>2, <1>4, <1>5, <1>7, <1>8, <2>3, Zenon
    <3> QED BY <2>3, <3>2, <3>3, Zenon DEF One
  <2>4. CASE k # d
    <3>1. \A b \in Names : IsDir(u, u.entry[<<k, b>>]) <=> IsDir(t, t.entry[<<k, b>>])
      BY <1>1, <1>4, <1>5, <1>7, <2>2, <2>4, Zenon
    <3>2. SubdirsOf(u, k) = SubdirsOf(t, k)
      BY <3>1, SubdirsSame
    <3> QED BY <2>1, <2>4, <3>2 DEF One
  <2> QED BY <2>3, <2>4, Zenon
<1>11. Cardinality(SubdirsOf(s, k)) \in Nat
  BY SubdirsFinite
<1> QED BY <1>9, <1>10, <1>11 DEF One, SubdirsMoved

\* What is moved is not above where it goes.
NotAbove(s, i, e) == \E T : Closed(s, T) /\ e \in T /\ i \notin T

\* After a move the directories are below the root.
LEMMA MovedRooted ==
    ASSUME NEW s, NEW O, NEW d, NEW n, NEW e, NEW m, NEW i, NEW j, NEW v, NEW u,
           Move(s, O, u, d, n, e, m, i, j, v),
           NotAbove(s, i, e), j \in Inos /\ v = j => NotAbove(s, j, d)
    PROVE  Rooted(u)
<1> DEFINE M == {k \in Inos : d # e /\ s.kind[k] = "dir" /\ (k = i \/ (k = j /\ v = j))}
<1>1. /\ s \in Fs /\ u \in Fs /\ NoIno \notin Inos /\ n \in Names /\ m \in Names /\ d \in Inos /\ e \in Inos
      /\ i \in Inos /\ i # j /\ s.entry[<<d, n>>] = i /\ s.entry[<<e, m>>] = j /\ InUse(s, d) /\ InUse(s, e)
      /\ Sound(s, O) /\ Rooted(s)
  BY NameiAssumption, Zenon DEF Move, Sound, Good, Moved, MoveFrom, InUse, Tree
<1>2. \A k \in Inos : InUse(u, k) => InUse(s, k) /\ u.dotdot[k] = DotDot(s, d, e, i, j, v, k)
  BY <1>1 DEF Move, InUse, Moved, MovedInode, MovedCount
<1>3. \A k \in Inos \ M : DotDot(s, d, e, i, j, v, k) = s.dotdot[k]
  BY DEF DotDot
<1>4. ASSUME NEW k \in M, InUse(u, k)
      PROVE  \E T : Closed(s, T) /\ u.dotdot[k] \in T /\ \A h \in T : h \notin M
  <2>1. k \in Inos /\ d # e /\ s.kind[k] = "dir" /\ (k = i \/ (k = j /\ v = j)) /\ InUse(s, k)
    BY <1>2, <1>4
  <2>2. ASSUME NEW a \in {i, j}, NEW b, a \in M, InUse(s, a), s.dotdot[a] = b
        PROVE  NotAbove(s, a, b)
    <3>1. a \in Inos /\ a # Root
      BY <1>1, <2>2, EntryTarget
    <3> QED BY <1>1, <2>2, <3>1, ChildNotAbove, Zenon DEF NotAbove
  <2>3. CASE k = i
    <3>1. u.dotdot[k] = e
      BY <1>2, <1>4, <2>1, <2>3, Zenon DEF DotDot
    <3>2. PICK T : Closed(s, T) /\ e \in T /\ i \notin T
      BY DEF NotAbove
    <3>3. CASE j \notin M
      <4>1. \A h \in T : h \notin M
        BY <3>2, <3>3
      <4> QED BY <3>1, <3>2, <4>1, Zenon
    <3>4. CASE j \in M
      <4>1. j \in Inos /\ s.kind[j] = "dir"
        BY <3>4
      <4>2. InUse(s, j) /\ s.dotdot[j] = e
        BY <1>1, <4>1, EntryTarget DEF InUse
      <4>3. PICK S : Closed(s, S) /\ e \in S /\ j \notin S
        BY <2>2, <3>4, <4>2, Zenon DEF NotAbove
      <4>4. Closed(s, T \cap S) /\ e \in T \cap S /\ \A h \in T \cap S : h \notin M
        BY <3>2, <4>3, Zenon DEF Closed
      <4> QED BY <3>1, <4>4, Zenon
    <3> QED BY <3>3, <3>4, Zenon
  <2>4. CASE k # i
    <3>1. k = j /\ v = j /\ j \in Inos /\ u.dotdot[k] = d
      BY <1>2, <1>4, <2>1, <2>4, Zenon DEF DotDot
    <3>2. PICK T : Closed(s, T) /\ d \in T /\ j \notin T
      BY <3>1 DEF NotAbove
    <3>3. CASE i \notin M
      <4>1. \A h \in T : h \notin M
        BY <3>2, <3>3
      <4> QED BY <3>1, <3>2, <4>1, Zenon
    <3>4. CASE i \in M
      <4>1. s.kind[i] = "dir"
        BY <3>4
      <4>2. InUse(s, i) /\ s.dotdot[i] = d
        BY <1>1, <4>1, EntryTarget DEF InUse
      <4>3. PICK S : Closed(s, S) /\ d \in S /\ i \notin S
        BY <2>2, <3>4, <4>2, Zenon DEF NotAbove
      <4>4. Closed(s, T \cap S) /\ d \in T \cap S /\ \A h \in T \cap S : h \notin M
        BY <3>2, <4>3, Zenon DEF Closed
      <4> QED BY <3>1, <4>4, Zenon
    <3> QED BY <3>3, <3>4, Zenon
  <2> QED BY <2>3, <2>4, Zenon
<1> HIDE DEF M
<1>5. Moves(s, u, M)
  <2>1. \A k \in Inos \ M : InUse(u, k) => u.dotdot[k] = s.dotdot[k]
    BY <1>2, <1>3
  <2> QED BY <1>2, <1>4, <2>1, Zenon DEF Moves
<1> QED BY <1>1, <1>5, RootedMoved, Zenon

\* A directory whose link count counts its subdirectories.
Fitting(s, k) == Fits(s.nlink[k], Cardinality(SubdirsOf(s, k)), k \in s.dx)

\* A move that gives the two directories the counts of their subdirectories.  A
\* directory that is replaced is empty.
LEMMA MovedTree ==
    ASSUME NEW s, NEW O, NEW d, NEW n, NEW e, NEW m, NEW i, NEW j, NEW v, NEW u,
           Move(s, O, u, d, n, e, m, i, j, v), Rooted(u),
           IsDir(s, j) /\ v # j => EmptyDir(s, j),
           \A k \in {d, e} : Fitting(u, k)
    PROVE  Tree(u)
<1>1. /\ s \in Fs /\ u \in Fs /\ NoIno \notin Inos /\ n \in Names /\ m \in Names /\ d \in Inos /\ e \in Inos
      /\ i \in Inos /\ i # j /\ s.entry[<<d, n>>] = i /\ s.entry[<<e, m>>] = j /\ InUse(s, d) /\ InUse(s, e)
      /\ Sound(s, O) /\ Tree(s) /\ Root \in Inos
  BY NameiAssumption, Zenon DEF Move, Sound, Good, Moved, MoveFrom, InUse
<1>2. j \in Inos \cup {NoIno} /\ v \in Inos \cup {NoIno} /\ (v # j => v = NoIno \/ s.kind[v] = "free")
  BY <1>1 DEF Move, Fs, Places, Moved
<1>3. i # Root /\ (s.kind[i] = "dir" => s.dotdot[i] = d)
  BY <1>1, EntryTarget
<1>4. j \in Inos => j # Root /\ j # e /\ j # d /\ s.nlink[j] \in Nat \ {0} /\ (s.kind[j] = "dir" => s.dotdot[j] = e)
  BY <1>1, EntryTarget DEF Move, MoveFrom
<1>5. /\ \A k \in Inos, b \in Names :
            u.entry[<<k, b>>] = IF k = d /\ b = n THEN v ELSE IF k = e /\ b = m THEN i ELSE s.entry[<<k, b>>]
      /\ \A p \in Places : u.entry[p] \in {v, i, s.entry[p]}
  <2>1. u.entry = [s.entry EXCEPT ![<<e, m>>] = i, ![<<d, n>>] = v] /\ DOMAIN s.entry = Inos \X Names
    BY <1>1, Zenon DEF Move, Moved, MovedEntry, Fs, Places
  <2> QED BY <1>1, <2>1, Zenon DEF Places
<1>6. \A k \in Inos : /\ InUse(u, k) <=> InUse(s, k) /\ (k = j => v = j)
                      /\ u.dotdot[k] = DotDot(s, d, e, i, j, v, k)
  <2> SUFFICES ASSUME NEW k \in Inos
               PROVE  /\ InUse(u, k) <=> InUse(s, k) /\ (k = j => v = j)
                      /\ u.dotdot[k] = DotDot(s, d, e, i, j, v, k)
    BY Zenon
  <2>1. MovedInode(s, u, d, e, i, j, v, k)
    BY Zenon DEF Move, Moved
  <2> QED BY <1>1, <1>2, <1>4, <2>1 DEF InUse, MovedInode, MovedCount
<1>7. RootOK(u)
  <2>1. v # Root
    BY <1>1, <1>2, <1>4, Zenon DEF Tree, RootOK, InUse
  <2>2. u.dotdot[Root] = Root
    BY <1>1, <1>3, <1>4, <1>6, Zenon DEF Tree, RootOK, DotDot
  <2> QED BY <1>1, <1>3, <1>4, <1>5, <1>6, <2>1, <2>2, Zenon DEF Tree, RootOK
<1>8. ASSUME NEW k \in Inos PROVE Placed(u, k)
  <2>1. Placed(s, k)
    BY <1>1, Zenon DEF Tree
  <2>2. \A b \in Names : u.entry[<<k, b>>] # NoIno => InUse(u, k)
    <3>1. CASE k \in {d, e}
      BY <1>1, <1>4, <1>6, <3>1, Zenon
    <3>2. CASE k \notin {d, e}
      BY <1>1, <1>2, <1>5, <1>6, <2>1, <3>2 DEF Placed, EmptyDir, IsDir, InUse
    <3> QED BY <3>1, <3>2, Zenon
  <2>3. ASSUME InUse(u, k) PROVE u.dotdot[k] \in Inos
    BY <1>1, <1>6, <2>1, <2>3, Zenon DEF Placed, DotDot
  <2>4. ASSUME InUse(u, k), k # Root PROVE \E b \in Names : u.entry[<<u.dotdot[k], b>>] = k
    <3>1. CASE k = i
      <4>1. u.dotdot[k] = e
        BY <1>3, <1>6, <2>4, <3>1, Zenon DEF DotDot, InUse
      <4>2. u.entry[<<e, m>>] = i
        BY <1>1, <1>5, Zenon
      <4> QED BY <1>1, <3>1, <4>1, <4>2, Zenon
    <3>2. CASE k = j
      <4>1. v = j /\ u.dotdot[k] = d
        BY <1>1, <1>4, <1>6, <2>4, <3>2, Zenon DEF DotDot, InUse
      <4>2. u.entry[<<d, n>>] = j
        BY <1>1, <1>5, <4>1, Zenon
      <4> QED BY <1>1, <3>2, <4>1, <4>2, Zenon
    <3>3. CASE k # i /\ k # j
      <4>1. PICK b \in Names : s.dotdot[k] \in Inos /\ s.entry[<<s.dotdot[k], b>>] = k
        BY <1>6, <2>1, <2>4, Zenon DEF Placed
      <4>2. u.dotdot[k] = s.dotdot[k]
        BY <1>6, <3>3, Zenon DEF DotDot
      <4>3. u.entry[<<s.dotdot[k], b>>] = k
        BY <1>1, <1>5, <3>3, <4>1, Zenon
      <4> QED BY <4>2, <4>3, Zenon
    <3> QED BY <3>1, <3>2, <3>3, Zenon
  <2> QED BY <2>2, <2>3, <2>4, Zenon DEF Placed
<1>9. ASSUME NEW k \in Inos PROVE Counted(u, k)
  <2>1. CASE k \in {d, e}
    BY <2>1, Zenon DEF Counted, Fitting, Fits
  <2>2. CASE k \notin {d, e}
    <3>1. Counted(s, k) /\ s.nlink[k] \in Nat
      BY <1>1, Zenon DEF Tree, Fs
    <3>2. u.nlink[k] <= LinkMax /\ (InUse(u, k) => u.nlink[k] = s.nlink[k])
      <4>0. MovedCount(s, u, d, e, j, v, k)
        BY Zenon DEF Move, Moved, MovedInode
      <4>1. CASE k = j /\ v # j
        BY <1>4, <1>6, <3>1, <4>0, <4>1, NameiAssumption DEF MovedCount, Counted
      <4>2. CASE k = v /\ k # j
        BY <1>2, <1>6, <3>1, <4>0, <4>2, NameiAssumption DEF MovedCount, InUse
      <4>3. CASE ~(k = j /\ v # j) /\ ~(k = v /\ k # j)
        BY <2>2, <3>1, <4>0, <4>3, Zenon DEF MovedCount, Counted
      <4> QED BY <4>1, <4>2, <4>3, Zenon
    <3>3. Cardinality(SubdirsOf(u, k)) = Cardinality(SubdirsOf(s, k))
      <4>1. Cardinality(SubdirsOf(s, k)) \in Nat
        BY SubdirsFinite
      <4>2. /\ One(k = e /\ IsDir(s, j)) = 0 /\ One(k = e /\ IsDir(s, i)) = 0
            /\ One(k = d /\ IsDir(s, i)) = 0 /\ One(k = d /\ IsDir(s, v)) = 0
        BY <2>2 DEF One
      <4>3. SubdirsMoved(s, u, d, e, i, j, v, k)
        BY MovedSubdirs, Zenon
      <4> QED BY <4>1, <4>2, <4>3 DEF SubdirsMoved
    <3>4. k \in s.dx => k \in u.dx
      BY Zenon DEF Move, Moved
    <3> QED BY <1>6, <3>1, <3>2, <3>3, <3>4, Zenon DEF Counted, Fits
  <2> QED BY <2>1, <2>2
<1> QED BY <1>7, <1>8, <1>9 DEF Tree

\* What is known of the counts of the directories of a move before it.
CountsBefore(s, u, d, e, i, j, k) ==
    /\ s.nlink[k] \in Nat /\ Cardinality(SubdirsOf(s, k)) \in Nat
    /\ Fits(s.nlink[k], Cardinality(SubdirsOf(s, k)), k \in s.dx)
    /\ Fits(s.nlink[k], Cardinality(SubdirsOf(s, k)), k \in u.dx)
    /\ k = d /\ IsDir(s, i) => Cardinality(SubdirsOf(s, k)) > 0
    /\ k = e /\ IsDir(s, j) => Cardinality(SubdirsOf(s, k)) > 0

\* It follows from the volume being sound.
LEMMA MoveCounts ==
    ASSUME NEW s, NEW O, NEW d, NEW n, NEW e, NEW m, NEW i, NEW j, NEW v, NEW u,
           Move(s, O, u, d, n, e, m, i, j, v), NEW k \in {d, e}
    PROVE  CountsBefore(s, u, d, e, i, j, k)
<1>1. /\ d \in Inos /\ e \in Inos /\ n \in Names /\ m \in Names /\ InUse(s, k) /\ s.nlink[k] \in Nat
      /\ s.entry[<<d, n>>] = i /\ s.entry[<<e, m>>] = j
  BY Zenon DEF Move, Sound, Good, Fs, MoveFrom, InUse
<1>2. Cardinality(SubdirsOf(s, k)) \in Nat
  BY SubdirsFinite
<1>3. /\ Fits(s.nlink[k], Cardinality(SubdirsOf(s, k)), k \in s.dx)
      /\ Fits(s.nlink[k], Cardinality(SubdirsOf(s, k)), k \in u.dx)
  BY <1>1, Zenon DEF Move, Sound, Tree, Counted, Fits, Moved
<1>4. k = d /\ IsDir(s, i) => Cardinality(SubdirsOf(s, k)) > 0
  BY <1>1, SomeSubdirs
<1>5. k = e /\ IsDir(s, j) => Cardinality(SubdirsOf(s, k)) > 0
  BY <1>1, SomeSubdirs
<1> QED BY <1>1, <1>2, <1>3, <1>4, <1>5, Zenon DEF CountsBefore

\* ext4_rename, but for the last reference to what it replaced.
LEMMA RenameTree ==
    ASSUME NEW s, NEW O, Sound(s, O), NEW d, NEW n, NEW e, NEW m, NEW i, NEW j, NEW w, NEW u,
           MoveFrom(s, d, n, e, m, i, j), Moved(s, u, d, n, e, m, i, j, w),
           RenameCounts(s, u, d, e, IsDir(s, i), j), w = NoIno \/ s.kind[w] = "free",
           j # NoIno => (IsDir(s, j) <=> IsDir(s, i)), NotAbove(s, i, e),
           IsDir(s, i) => IF j # NoIno THEN EmptyDir(s, j) ELSE d = e \/ ~DirLinkMax(s, e)
    PROVE  Tree(u)
<1>0. Move(s, O, u, d, n, e, m, i, j, w)
  BY Zenon DEF Move
<1>1. NoIno \notin Inos /\ d \in Inos /\ e \in Inos /\ ~IsDir(s, w) /\ (IsDir(s, j) => j # NoIno)
  BY NameiAssumption, Zenon DEF MoveFrom, IsDir
<1>2. j \in Inos => w # j
  <2>1. j \in Inos => s.kind[j] # "free"
    BY EntryTarget DEF MoveFrom
  <2> QED BY <1>1, <2>1, Zenon
<1>3. Rooted(u)
  BY <1>0, <1>2, MovedRooted, Zenon
<1>4. ASSUME NEW k \in {d, e} PROVE Fitting(u, k)
  <2>a. CountsBefore(s, u, d, e, i, j, k)
    BY <1>0, MoveCounts, Zenon
  <2>b. SubdirsMoved(s, u, d, e, i, j, w, k)
    BY <1>0, <1>1, MovedSubdirs, Zenon
  <2>c. s.dx \subseteq u.dx
    BY Zenon DEF Moved
  <2> DEFINE D == IsDir(s, i)
             J == IsDir(s, j)
             x == k \in u.dx
             h == s.nlink[k]
             c == Cardinality(SubdirsOf(s, k))
             g == Cardinality(SubdirsOf(u, k))
             r == u.nlink[k]
  <2>1. h \in Nat /\ c \in Nat /\ Fits(h, c, x) /\ (k = d /\ D => c > 0)
    BY <2>a, Zenon DEF CountsBefore
  <2>2. g = c - One(k = e /\ J) + One(k = e /\ D) - One(k = d /\ D) + One(k = d /\ IsDir(s, w))
    BY <2>b, Zenon DEF SubdirsMoved
  <2>3. One(k = d /\ IsDir(s, w)) = 0
    BY <1>1, Zenon DEF One
  <2>4. r = LET left == IF D /\ k = d THEN Dec(h) ELSE h IN
            IF D /\ j = NoIno /\ k = e THEN Inc(left, x) ELSE left
    BY Zenon DEF RenameCounts
  <2>5. D /\ j = NoIno /\ k = e /\ k # d => h < LinkMax \/ (x /\ DirNlink)
    BY <2>1, <2>c, NameiAssumption DEF DirLinkMax
  <2>6. x \in BOOLEAN /\ (J => D) /\ (D /\ j # NoIno => J) /\ (J => j # NoIno)
    BY <1>1
  <2> HIDE DEF D, J, x, h, c, g, r
  <2>7. CASE ~D
    <3>1. g = c /\ r = h
      BY <2>1, <2>2, <2>3, <2>4, <2>6, <2>7 DEF One
    <3> QED BY <2>1, <3>1, Zenon DEF r, g, x, Fitting
  <2>8. CASE D /\ k # d
    <3>1. k = e /\ r = (IF j = NoIno THEN Inc(h, x) ELSE h) /\ g = (IF j = NoIno THEN c + 1 ELSE c)
      BY <2>1, <2>2, <2>3, <2>4, <2>6, <2>8 DEF One
    <3>2. CASE j = NoIno
      <4>1. Fits(Inc(h, x), c + 1, x)
        BY <2>1, <2>5, <2>6, <2>8, <3>1, <3>2, IncFits, Zenon
      <4> QED BY <3>1, <3>2, <4>1, Zenon DEF r, g, x, Fitting
    <3>3. CASE j # NoIno
      BY <2>1, <3>1, <3>3, Zenon DEF r, g, x, Fitting
    <3> QED BY <3>2, <3>3, Zenon
  <2>9. CASE D /\ k = d
    <3>1. Fits(Dec(h), c - 1, x) /\ Dec(h) \in Nat \ {0} /\ (Dec(h) < LinkMax \/ (x /\ DirNlink)) /\ c - 1 \in Nat
      BY <2>1, <2>6, <2>9, DecFits
    <3>2. CASE k = e /\ j = NoIno
      <4>1. Fits(Inc(Dec(h), x), (c - 1) + 1, x)
        BY <2>6, <3>1, IncFits, Zenon
      <4>2. g = c /\ (c - 1) + 1 = c /\ r = Inc(Dec(h), x)
        BY <2>1, <2>2, <2>3, <2>4, <2>6, <2>9, <3>2 DEF One
      <4> QED BY <4>1, <4>2, Zenon DEF r, g, x, Fitting
    <3>3. CASE ~(k = e /\ j = NoIno)
      <4>1. g = c - 1 /\ r = Dec(h)
        BY <2>1, <2>2, <2>3, <2>4, <2>6, <2>9, <3>3 DEF One
      <4> QED BY <3>1, <4>1, Zenon DEF r, g, x, Fitting
    <3> QED BY <3>2, <3>3, Zenon
  <2> QED BY <2>7, <2>8, <2>9, Zenon
<1>5. IsDir(s, j) /\ w # j => EmptyDir(s, j)
  BY <1>1, Zenon
<1> QED BY <1>0, <1>3, <1>4, <1>5, MovedTree, Zenon

\* ext4_cross_rename
LEMMA CrossTree ==
    ASSUME NEW s, NEW O, Sound(s, O), NEW d, NEW n, NEW e, NEW m, NEW i, NEW j \in Inos, NEW u,
           MoveFrom(s, d, n, e, m, i, j), Moved(s, u, d, n, e, m, i, j, j),
           CrossCounted(s, u, d, e, IsDir(s, i), IsDir(s, j)), NotAbove(s, i, e), NotAbove(s, j, d),
           d = e \/ (IsDir(s, i) <=> IsDir(s, j)) \/ ~DirLinkMax(s, IF IsDir(s, i) THEN e ELSE d)
    PROVE  Tree(u)
<1>0. Move(s, O, u, d, n, e, m, i, j, j)
  BY DEF Move
<1>1. Rooted(u)
  BY <1>0, MovedRooted, Zenon
<1>2. ASSUME NEW k \in {d, e} PROVE Fitting(u, k)
  <2>a. CountsBefore(s, u, d, e, i, j, k)
    BY <1>0, MoveCounts, Zenon
  <2>b. k \in Inos
    BY Zenon DEF MoveFrom
  <2>c. SubdirsMoved(s, u, d, e, i, j, j, k)
    BY <1>0, <2>b, MovedSubdirs, Zenon
  <2> DEFINE D == IsDir(s, i)
             J == IsDir(s, j)
             y == k \in s.dx
             x == k \in u.dx
             h == s.nlink[k]
             c == Cardinality(SubdirsOf(s, k))
             g == Cardinality(SubdirsOf(u, k))
             r == u.nlink[k]
  <2>1. /\ h \in Nat /\ c \in Nat /\ Fits(h, c, x) /\ Fits(h, c, y)
        /\ (k = d /\ D => c > 0) /\ (k = e /\ J => c > 0)
    BY <2>a, Zenon DEF CountsBefore
  <2>2. g = c - One(k = e /\ J) + One(k = e /\ D) - One(k = d /\ D) + One(k = d /\ J)
    BY <2>c, Zenon DEF SubdirsMoved
  <2>3. r = IF d = e \/ (D <=> J) THEN h ELSE IF D <=> k = d THEN Dec(h) ELSE Inc(h, y)
    BY Zenon DEF CrossCounted
  <2>4. d = e \/ (D <=> J) \/ (D <=> k = d) \/ h < LinkMax \/ (y /\ DirNlink)
    BY <2>1, NameiAssumption DEF DirLinkMax
  <2>5. y \in BOOLEAN /\ (y => x)
    BY DEF Moved
  <2> HIDE DEF D, J, x, y, h, c, g, r
  <2>6. CASE d = e \/ (D <=> J)
    <3>1. g = c /\ r = h
      BY <2>1, <2>2, <2>3, <2>6 DEF One
    <3> QED BY <2>1, <3>1, Zenon DEF r, g, x, Fitting
  <2>7. CASE d # e /\ ~(D <=> J) /\ (D <=> k = d)
    <3>1. g = c - 1 /\ r = Dec(h) /\ c > 0
      BY <2>1, <2>2, <2>3, <2>7 DEF One
    <3>2. Fits(Dec(h), c - 1, y)
      BY <2>1, <2>5, <3>1, DecFits, Zenon
    <3> QED BY <2>5, <3>1, <3>2, Zenon DEF r, g, x, Fitting, Fits
  <2>8. CASE d # e /\ ~(D <=> J) /\ ~(D <=> k = d)
    <3>1. g = c + 1 /\ r = Inc(h, y)
      BY <2>1, <2>2, <2>3, <2>8 DEF One
    <3>2. Fits(Inc(h, y), c + 1, y)
      BY <2>1, <2>4, <2>5, <2>8, IncFits, Zenon
    <3> QED BY <2>5, <3>1, <3>2, Zenon DEF r, g, x, Fitting, Fits
  <2> QED BY <2>6, <2>7, <2>8, Zenon
<1> QED BY <1>0, <1>1, <1>2, MovedTree, Zenon

-----------------------------------------------------------------------------
(* The other calls that succeed *)

\* No directory in use, and nothing with links, changes.
Quiet(s, u) ==
    /\ u \in Fs /\ u.entry = s.entry
    /\ \A k \in Inos : (InUse(u, k) <=> InUse(s, k)) /\ u.nlink[k] <= LinkMax
    /\ \A k \in Inos : InUse(s, k) => u.dotdot[k] = s.dotdot[k] /\ u.nlink[k] = s.nlink[k]
                                      /\ (k \in s.dx => k \in u.dx)
    /\ \A k \in Inos : s.nlink[k] > 0 => u.kind[k] = s.kind[k]

\* Then nothing changes about the tree.
LEMMA QuietTree ==
    ASSUME NEW s, NEW O, Sound(s, O), NEW u, Quiet(s, u)
    PROVE  Tree(u)
<1>1. s \in Fs /\ Tree(s) /\ Root \in Inos
  BY NameiAssumption DEF Sound, Good
<1>2. RootOK(u)
  BY <1>1, Zenon DEF Tree, RootOK, Quiet
<1>3. Rooted(u)
  <2>1. Moves(s, u, {})
    BY Zenon DEF Moves, Quiet
  <2> QED BY <1>1, <2>1, RootedMoved DEF Tree
<1>4. ASSUME NEW k \in Inos PROVE Placed(u, k) /\ Counted(u, k)
  <2>1. Placed(s, k) /\ Counted(s, k)
    BY <1>1 DEF Tree
  <2>2. Placed(u, k)
    BY <2>1, Zenon DEF Placed, Quiet
  <2>3. ASSUME NEW m \in Names PROVE IsDir(u, u.entry[<<k, m>>]) <=> IsDir(s, s.entry[<<k, m>>])
    <3> DEFINE t == s.entry[<<k, m>>]
    <3>1. t \in Inos \cup {NoIno} /\ u.entry[<<k, m>>] = t
      BY <1>1, Zenon DEF Fs, Places, Quiet
    <3>2. t \in Inos => s.nlink[t] \in Nat \ {0}
      BY EntryTarget
    <3>3. t \in Inos => u.kind[t] = s.kind[t]
      BY <3>2 DEF Quiet
    <3> HIDE DEF t
    <3> QED BY <3>1, <3>3, Zenon DEF IsDir, t
  <2>4. SubdirsOf(u, k) = SubdirsOf(s, k)
    BY <2>3, SubdirsSame
  <2>5. Counted(u, k)
    BY <2>1, <2>4, Zenon DEF Counted, Fits, Quiet
  <2> QED BY <2>2, <2>5
<1> QED BY <1>2, <1>3, <1>4 DEF Tree

\* The last reference to inodes without links.
LEMMA IputTree ==
    ASSUME NEW s, NEW O, Sound(s, O), NEW S, NEW H
    PROVE  Tree(Iput(s, S, H))
<1> DEFINE dead == {i \in S : i # NoIno /\ s.nlink[i] = 0} \ H
           u == Iput(s, S, H)
<1>1. s \in Fs /\ \A k \in Inos : s.nlink[k] <= LinkMax /\ s.nlink[k] \in Nat
  BY Zenon DEF Sound, Good, Tree, Counted, Fs
<1>2. /\ u.kind = [i \in Inos |-> IF i \in dead THEN "free" ELSE s.kind[i]]
      /\ u.dotdot = [i \in Inos |-> IF i \in dead THEN NoIno ELSE s.dotdot[i]]
      /\ u.dx = s.dx \ dead /\ u.nlink = s.nlink /\ u.entry = s.entry
      /\ u \in Fs
  BY <1>1, Zenon DEF Iput, Fs
<1>3. \A k \in dead : s.nlink[k] = 0
  OBVIOUS
<1> HIDE DEF dead, u
<1>4. \A k \in Inos : s.nlink[k] > 0 => k \notin dead /\ u.kind[k] = s.kind[k] /\ u.dotdot[k] = s.dotdot[k]
  BY <1>1, <1>2, <1>3
<1>5. Quiet(s, u)
  BY <1>1, <1>2, <1>4, Zenon DEF Quiet, InUse
<1>6. Tree(u)
  BY <1>5, QuietTree
<1> QED BY <1>6 DEF u

\* ext4_tmpfile
LEMMA TmpfileTree ==
    ASSUME NEW s, NEW O, Sound(s, O), NEW i \in Inos, s.kind[i] = "free"
    PROVE  Tree([OrphanAdd(DropNlink(NewInode(s, i), i), i) EXCEPT !.linkable = @ \cup {i}])
<1> DEFINE u == [OrphanAdd(DropNlink(NewInode(s, i), i), i) EXCEPT !.linkable = @ \cup {i}]
<1>1. s \in Fs /\ (\A k \in Inos : s.nlink[k] <= LinkMax /\ s.nlink[k] \in Nat) /\ s.nlink[i] = 0
  BY Zenon DEF Sound, Good, GoodInode, FreeInode, Tree, Counted, Fs
<1>2. /\ u.kind = [s.kind EXCEPT ![i] = "file"] /\ u.nlink = [s.nlink EXCEPT ![i] = 0]
      /\ u.entry = s.entry /\ u.dotdot = s.dotdot /\ u.dx = s.dx
      /\ u \in Fs
  BY <1>1 DEF OrphanAdd, DropNlink, NewInode, Fs
<1> HIDE DEF u
<1>3. \A k \in Inos : u.nlink[k] = s.nlink[k] /\ (s.nlink[k] > 0 => u.kind[k] = s.kind[k])
                      /\ (u.kind[k] = "dir" => s.kind[k] = "dir")
  BY <1>1, <1>2 DEF Fs
<1>4. Quiet(s, u)
  BY <1>1, <1>2, <1>3, Zenon DEF Quiet, InUse
<1>5. Tree(u)
  BY <1>4, QuietTree
<1> QED BY <1>5 DEF u

\* A file gets a link.
LEMMA NamedTree ==
    ASSUME NEW s, NEW O, Sound(s, O), NEW d \in Inos, NEW n \in Names, NEW i \in Inos, NEW u,
           Named(s, u, d, n, i), InUse(s, d), s.entry[<<d, n>>] = NoIno, s.kind[i] # "dir", s.nlink[i] < LinkMax
    PROVE  Tree(u)
<1>1. s \in Fs /\ Tree(s) /\ Root \in Inos /\ NoIno \notin Inos /\ u \in Fs /\ s.nlink[i] \in Nat
  BY NameiAssumption, Zenon DEF Sound, Good, Named, Fs
<1>2. /\ \A k \in Inos, m \in Names : u.entry[<<k, m>>] = IF k = d /\ m = n THEN i ELSE s.entry[<<k, m>>]
      /\ \A p \in Places : u.entry[p] \in {i, s.entry[p]}
  BY <1>1 DEF Named, Fs, Places
<1>3. /\ \A k \in Inos : (InUse(u, k) <=> InUse(s, k)) /\ u.dotdot[k] = s.dotdot[k]
      /\ \A k \in Inos : InUse(s, k) => u.nlink[k] = s.nlink[k] /\ (k \in s.dx => k \in u.dx)
      /\ \A k \in Inos : u.kind[k] = "dir" <=> s.kind[k] = "dir"
  BY Zenon DEF Named, InUse
<1>4. RootOK(u)
  BY <1>1, <1>2, <1>3, Zenon DEF Tree, RootOK, InUse
<1>5. Rooted(u)
  <2>1. Moves(s, u, {})
    BY <1>3, Zenon DEF Moves
  <2> QED BY <1>1, <2>1, RootedMoved, Zenon DEF Tree
<1>6. ASSUME NEW k \in Inos PROVE Placed(u, k) /\ Counted(u, k)
  <2>1. Placed(s, k) /\ Counted(s, k)
    BY <1>1, Zenon DEF Tree
  <2>2. Placed(u, k)
    BY <1>1, <1>2, <1>3, <2>1 DEF Placed
  <2>3. ASSUME NEW m \in Names PROVE IsDir(u, u.entry[<<k, m>>]) <=> IsDir(s, s.entry[<<k, m>>])
    <3>1. s.entry[<<k, m>>] \in Inos \cup {NoIno}
      BY <1>1, Zenon DEF Fs, Places
    <3> QED BY <1>1, <1>2, <1>3, <3>1 DEF IsDir
  <2>4. SubdirsOf(u, k) = SubdirsOf(s, k)
    BY <2>3, SubdirsSame, Zenon
  <2>5. u.nlink[k] <= LinkMax
    BY <1>1, <2>1, NameiAssumption DEF Counted, Named
  <2>6. Counted(u, k)
    BY <1>3, <2>1, <2>4, <2>5, Zenon DEF Counted, Fits
  <2> QED BY <2>2, <2>6
<1> QED BY <1>4, <1>5, <1>6, Zenon DEF Tree

\* No entry leads to a free inode.
LEMMA NotNamed ==
    ASSUME NEW s, NEW O, Sound(s, O), NEW i \in Inos, s.kind[i] = "free"
    PROVE  \A p \in Places : s.entry[p] # i
BY Zenon DEF Sound, Good, GoodInode, FreeInode, LinksOf

\* ext4_mkdir
LEMMA GrownTree ==
    ASSUME NEW s, NEW O, Sound(s, O), NEW d \in Inos, NEW n \in Names, NEW i \in Inos, NEW u,
           Grown(s, u, d, n, i), InUse(s, d), s.entry[<<d, n>>] = NoIno, s.kind[i] = "free", ~DirLinkMax(s, d)
    PROVE  Tree(u)
<1>1. /\ s \in Fs /\ Tree(s) /\ Root \in Inos /\ NoIno \notin Inos /\ u \in Fs /\ i # d /\ ~InUse(s, i)
      /\ i # Root
  BY NameiAssumption, Zenon DEF Sound, Good, Grown, InUse, Tree, RootOK
<1>2. /\ \A k \in Inos, m \in Names : u.entry[<<k, m>>] = IF k = d /\ m = n THEN i ELSE s.entry[<<k, m>>]
      /\ \A p \in Places : u.entry[p] \in {i, s.entry[p]}
      /\ \A k \in Inos : u.dotdot[k] = IF k = i THEN d ELSE s.dotdot[k]
      /\ \A k \in Inos : u.kind[k] = IF k = i THEN "dir" ELSE s.kind[k]
  BY <1>1 DEF Grown, Fs, Places
<1>3. \A k \in Inos, m \in Names : s.entry[<<k, m>>] \in Inos \cup {NoIno} /\ s.entry[<<k, m>>] # i
  BY <1>1, NotNamed, Zenon DEF Fs, Places
<1>4. /\ s.nlink[d] \in Nat /\ Fits(s.nlink[d], Cardinality(SubdirsOf(s, d)), d \in s.dx)
      /\ d \in s.dx => d \in u.dx
  BY <1>1 DEF Tree, Counted, Fs, Grown
<1>5. Cardinality(SubdirsOf(s, d)) \in Nat
  BY SubdirsFinite
<1>6. Cardinality(SubdirsOf(u, d)) = Cardinality(SubdirsOf(s, d)) + 1
  <2>1. \A m \in Names \ {n} : IsDir(u, u.entry[<<d, m>>]) <=> IsDir(s, s.entry[<<d, m>>])
    BY <1>2, <1>3 DEF IsDir
  <2>2. ~IsDir(s, s.entry[<<d, n>>]) /\ IsDir(u, u.entry[<<d, n>>])
    BY <1>1, <1>2 DEF IsDir
  <2>3. One(IsDir(s, s.entry[<<d, n>>])) = 0 /\ One(IsDir(u, u.entry[<<d, n>>])) = 1
    BY <2>2, Zenon DEF One
  <2> QED BY <1>5, <2>1, <2>3, SubdirsChange
<1>7. Fits(u.nlink[d], Cardinality(SubdirsOf(u, d)), d \in u.dx) /\ u.nlink[d] > 0
  <2> DEFINE x == d \in u.dx
             y == d \in s.dx
             c == Cardinality(SubdirsOf(s, d))
             h == s.nlink[d]
  <2>1. h \in Nat /\ c \in Nat /\ x \in BOOLEAN /\ Fits(h, c, y) /\ (y => x)
    BY <1>4, <1>5
  <2>2. Fits(h, c, x) /\ u.nlink[d] = Inc(h, x)
    <3>1. u.nlink[d] = Inc(h, x)
      BY Zenon DEF Grown
    <3> HIDE DEF x, y, c, h
    <3> QED BY <2>1, <3>1, Zenon DEF Fits
  <2>3. h < LinkMax \/ (x /\ DirNlink)
    BY <1>4, NameiAssumption DEF DirLinkMax
  <2> HIDE DEF x, y, c, h
  <2>4. Fits(Inc(h, x), c + 1, x)
    BY <2>1, <2>2, <2>3, IncFits, Zenon
  <2>5. Inc(h, x) > 0
    BY <2>1 DEF Inc
  <2> QED BY <1>6, <2>2, <2>4, <2>5, Zenon DEF x, c
<1>8. \A k \in Inos : InUse(u, k) <=> k = i \/ InUse(s, k)
  BY <1>1, <1>2, <1>7 DEF InUse, Grown
<1>9. RootOK(u)
  BY <1>1, <1>2, <1>8, Zenon DEF Tree, RootOK, Places
<1>10. Rooted(u)
  BY <1>1, RootedGrown, Zenon
<1>11. ASSUME NEW k \in Inos PROVE Placed(u, k) /\ Counted(u, k)
  <2>1. Placed(s, k) /\ Counted(s, k)
    BY <1>1, Zenon DEF Tree
  <2>2. Placed(u, k)
    <3>1. CASE k = i
      BY <1>1, <1>2, <1>8, <2>1, <3>1, Zenon DEF Placed
    <3>2. CASE k # i
      <4>1. \A m \in Names : u.entry[<<k, m>>] # NoIno => InUse(u, k)
        BY <1>2, <1>8, <2>1, <3>2, Zenon DEF Placed
      <4>2. ASSUME InUse(u, k) PROVE u.dotdot[k] \in Inos
        BY <1>2, <1>8, <2>1, <3>2, <4>2, Zenon DEF Placed
      <4>3. ASSUME InUse(u, k), k # Root PROVE \E m \in Names : u.entry[<<u.dotdot[k], m>>] = k
        <5>1. PICK m \in Names : s.dotdot[k] \in Inos /\ s.entry[<<s.dotdot[k], m>>] = k
          BY <1>8, <2>1, <3>2, <4>3, Zenon DEF Placed
        <5>2. u.entry[<<s.dotdot[k], m>>] = k /\ u.dotdot[k] = s.dotdot[k]
          BY <1>1, <1>2, <3>2, <5>1, Zenon
        <5> QED BY <5>2, Zenon
      <4> QED BY <4>1, <4>2, <4>3, Zenon DEF Placed
    <3> QED BY <3>1, <3>2, Zenon
  <2>3. Counted(u, k)
    <3>1. CASE k = d
      BY <1>7, <3>1, Zenon DEF Counted, Fits
    <3>2. CASE k = i
      <4>1. SubdirsOf(u, i) = {}
        BY <1>1, <1>2, <2>1, <3>2 DEF SubdirsOf, IsDir, Placed
      <4>2. Cardinality(SubdirsOf(u, i)) = 0 /\ u.nlink[i] = 2
        BY <4>1, FS_EmptySet, Zenon DEF Grown
      <4> QED BY <3>2, <4>2, NameiAssumption DEF Counted, Fits
    <3>3. CASE k # d /\ k # i
      <4>1. \A m \in Names : IsDir(u, u.entry[<<k, m>>]) <=> IsDir(s, s.entry[<<k, m>>])
        BY <1>2, <1>3, <3>3 DEF IsDir
      <4>2. SubdirsOf(u, k) = SubdirsOf(s, k)
        BY <4>1, SubdirsSame, Zenon
      <4>3. u.nlink[k] = s.nlink[k] /\ (k \in s.dx => k \in u.dx)
        BY <3>3, Zenon DEF Grown
      <4> QED BY <1>8, <2>1, <3>3, <4>2, <4>3, Zenon DEF Counted, Fits
    <3> QED BY <3>1, <3>2, <3>3, Zenon
  <2> QED BY <2>2, <2>3, Zenon
<1> QED BY <1>9, <1>10, <1>11, Zenon DEF Tree

\* ext4_rmdir and ext4_unlink, but for the last reference.
LEMMA UnnamedTree ==
    ASSUME NEW s, NEW O, Sound(s, O), NEW d \in Inos, NEW n \in Names, NEW i \in Inos, NEW u,
           Unnamed(s, u, d, n, i), s.entry[<<d, n>>] = i, s.kind[i] = "dir" => EmptyDir(s, i)
    PROVE  Tree(u)
<1>1. s \in Fs /\ Tree(s) /\ Root \in Inos /\ NoIno \notin Inos /\ u \in Fs
  BY NameiAssumption, Zenon DEF Sound, Good, Unnamed
<1>2. i # Root /\ i # d /\ InUse(s, d) /\ s.nlink[i] \in Nat \ {0}
  BY EntryTarget
<1>3. /\ \A k \in Inos, m \in Names : u.entry[<<k, m>>] = IF k = d /\ m = n THEN NoIno ELSE s.entry[<<k, m>>]
      /\ \A p \in Places : u.entry[p] \in {NoIno, s.entry[p]}
      /\ u.dotdot = s.dotdot /\ u.kind = s.kind /\ u.dx = s.dx
  BY <1>1, ZenonT(60) DEF Unnamed, Fs, Places
<1>4. \A k \in Inos, m \in Names : s.entry[<<k, m>>] \in Inos \cup {NoIno}
  BY <1>1, Zenon DEF Fs, Places
<1>5. /\ s.nlink[d] \in Nat /\ Fits(s.nlink[d], Cardinality(SubdirsOf(s, d)), d \in s.dx)
      /\ Cardinality(SubdirsOf(s, d)) \in Nat
  BY <1>1, <1>2, SubdirsFinite, Zenon DEF Tree, Counted, Fs
<1>6. Cardinality(SubdirsOf(u, d)) = Cardinality(SubdirsOf(s, d)) - One(s.kind[i] = "dir")
  <2>1. \A m \in Names \ {n} : IsDir(u, u.entry[<<d, m>>]) <=> IsDir(s, s.entry[<<d, m>>])
    BY <1>3, <1>4, Zenon DEF IsDir
  <2>2. ~IsDir(u, u.entry[<<d, n>>]) /\ (IsDir(s, s.entry[<<d, n>>]) <=> s.kind[i] = "dir")
    BY <1>1, <1>3, Zenon DEF IsDir
  <2>3. /\ One(IsDir(s, s.entry[<<d, n>>])) = One(s.kind[i] = "dir") /\ One(IsDir(u, u.entry[<<d, n>>])) = 0
        /\ One(s.kind[i] = "dir") \in Nat
    BY <2>2, Zenon DEF One
  <2> QED BY <1>5, <2>1, <2>3, SubdirsChange
<1>7. Fits(u.nlink[d], Cardinality(SubdirsOf(u, d)), d \in u.dx) /\ u.nlink[d] > 0
  <2>1. CASE s.kind[i] = "dir"
    <3>1. One(s.kind[i] = "dir") = 1 /\ u.nlink[d] = Dec(s.nlink[d])
      BY <1>2, <2>1, Zenon DEF One, Unnamed
    <3>2. n \in SubdirsOf(s, d) /\ IsFiniteSet(SubdirsOf(s, d))
      BY <1>1, <2>1, SubdirsFinite, Zenon DEF SubdirsOf, IsDir
    <3>3. Cardinality(SubdirsOf(s, d)) # 0
      BY <3>2, FS_EmptySet, Zenon
    <3> DEFINE x == d \in u.dx
               c == Cardinality(SubdirsOf(s, d))
               h == s.nlink[d]
    <3>4. h \in Nat /\ c \in Nat /\ c > 0 /\ x \in BOOLEAN /\ Fits(h, c, x)
      BY <1>3, <1>5, <3>3
    <3> HIDE DEF x, c, h
    <3>5. Fits(Dec(h), c - 1, x) /\ Dec(h) \in Nat \ {0}
      BY <3>4, DecFits, Zenon
    <3> QED BY <1>6, <3>1, <3>5 DEF x, c, h
  <2>2. CASE s.kind[i] # "dir"
    <3>1. One(s.kind[i] = "dir") = 0 /\ u.nlink[d] = s.nlink[d]
      BY <2>2, Zenon DEF One, Unnamed
    <3> QED BY <1>2, <1>3, <1>5, <1>6, <3>1 DEF InUse
  <2> QED BY <2>1, <2>2, Zenon
<1>8. \A k \in Inos : InUse(u, k) <=> InUse(s, k) /\ k # i
  BY <1>1, <1>2, <1>3, <1>7 DEF InUse, Unnamed
<1>9. RootOK(u)
  BY <1>1, <1>2, <1>3, <1>8, Zenon DEF Tree, RootOK
<1>10. Rooted(u)
  <2>1. Moves(s, u, {})
    BY <1>3, <1>8, Zenon DEF Moves
  <2> QED BY <1>1, <2>1, RootedMoved, Zenon DEF Tree
<1>11. ASSUME NEW k \in Inos PROVE Placed(u, k) /\ Counted(u, k)
  <2>1. Placed(s, k) /\ Counted(s, k)
    BY <1>1, Zenon DEF Tree
  <2>2. Placed(u, k)
    <3>1. \A m \in Names : u.entry[<<k, m>>] # NoIno => InUse(u, k)
      BY <1>2, <1>3, <1>8, <2>1 DEF Placed, EmptyDir, InUse
    <3>2. ASSUME InUse(u, k) PROVE u.dotdot[k] \in Inos
      BY <1>3, <1>8, <2>1, <3>2, Zenon DEF Placed
    <3>3. ASSUME InUse(u, k), k # Root PROVE \E m \in Names : u.entry[<<u.dotdot[k], m>>] = k
      <4>1. PICK m \in Names : s.dotdot[k] \in Inos /\ s.entry[<<s.dotdot[k], m>>] = k
        BY <1>8, <2>1, <3>3, Zenon DEF Placed
      <4>2. u.entry[<<s.dotdot[k], m>>] = k /\ u.dotdot[k] = s.dotdot[k]
        BY <1>3, <1>8, <3>3, <4>1, Zenon
      <4> QED BY <4>2, Zenon
    <3> QED BY <3>1, <3>2, <3>3, Zenon DEF Placed
  <2>3. Counted(u, k)
    <3>1. CASE k = d
      BY <1>7, <3>1, Zenon DEF Counted, Fits
    <3>2. CASE k # d
      <4>1. \A m \in Names : IsDir(u, u.entry[<<k, m>>]) <=> IsDir(s, s.entry[<<k, m>>])
        BY <1>3, <1>4, <3>2, Zenon DEF IsDir
      <4>2. SubdirsOf(u, k) = SubdirsOf(s, k)
        BY <4>1, SubdirsSame, Zenon
      <4>3. u.nlink[k] <= LinkMax /\ (k # i => u.nlink[k] = s.nlink[k])
        BY <1>2, <2>1, <3>2, NameiAssumption DEF Unnamed, Counted
      <4> QED BY <1>3, <1>8, <2>1, <4>2, <4>3, Zenon DEF Counted
    <3> QED BY <3>1, <3>2
  <2> QED BY <2>2, <2>3
<1> QED BY <1>9, <1>10, <1>11, Zenon DEF Tree

=============================================================================
