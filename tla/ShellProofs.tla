----------------------------- MODULE ShellProofs -----------------------------
(***************************************************************************)
(* Proofs about Shell for every tree of files that is numbered as TS 102   *)
(* 221 has it, every card and any number of channels: the card and the     *)
(* host agree about the selected files, a write meets its file, and no     *)
(* application holds the shell.                                            *)
(***************************************************************************)
EXTENDS Shell, ListTheorems, TLAPS

-----------------------------------------------------------------------------
(* Paths. *)

\* A beginning of a path.
LEMMA PrefixOf ==
    ASSUME NEW f \in Paths, NEW n \in 0..Len(f)
    PROVE  /\ Prefix(f, n) \in Paths
           /\ Len(Prefix(f, n)) = n
           /\ \A i \in 1..n : Prefix(f, n)[i] = f[i]
<1>. DEFINE S == Names
            p == SubSeq(f, 1, n)
<1>1. f \in Seq(S) /\ Paths = Seq(S)
  BY DEF Paths
<1>. HIDE DEF S
<1>2. Len(f) \in Nat /\ \A i \in 1..Len(f) : f[i] \in S
  BY <1>1, LenProperties, ElementOfSeq
<1>3. n \in Nat /\ \A i \in 1..n : f[i] \in S
  BY <1>2
<1>4. /\ p \in Seq(S)
      /\ Len(p) = IF 1 <= n THEN n - 1 + 1 ELSE 0
      /\ \A i \in 1..(n - 1 + 1) : p[i] = f[1 + i - 1]
  <2>1. 1 \in Int /\ n \in Int
    BY <1>3
  <2>. QED  BY <1>3, <2>1, SubSeqProperties
<1>. HIDE DEF p
<1>5. Len(p) = n
  BY <1>3, <1>4
<1>6. \A i \in 1..n : p[i] = f[i]
  BY <1>3, <1>4
<1>7. Prefix(f, n) = p
  BY DEF Prefix, p
<1>. QED  BY <1>1, <1>4, <1>5, <1>6, <1>7

\* Two paths of the same identifiers are one.
LEMMA SamePath ==
    ASSUME NEW f \in Paths, NEW g \in Paths, Len(f) = Len(g), \A i \in 1..Len(f) : f[i] = g[i]
    PROVE  f = g
BY SeqEqual DEF Paths

LEMMA LenOfPath ==
    ASSUME NEW f \in Paths
    PROVE  Len(f) \in Nat /\ (f # <<>> => Len(f) > 0)
BY LenProperties, EmptySeq DEF Paths

\* The beginnings of a beginning.
LEMMA PrefixOfPrefix ==
    ASSUME NEW f \in Paths, NEW n \in 0..Len(f), NEW m \in 0..n
    PROVE  Prefix(Prefix(f, n), m) = Prefix(f, m)
<1>1. Len(f) \in Nat
  BY LenOfPath
<1>. DEFINE g == Prefix(f, n)
            a == Prefix(g, m)
            b == Prefix(f, m)
<1>2. g \in Paths /\ Len(g) = n /\ \A i \in 1..n : g[i] = f[i]
  BY PrefixOf
<1>. HIDE DEF g
<1>3. a \in Paths /\ Len(a) = m /\ \A i \in 1..m : a[i] = g[i]
  BY <1>2, PrefixOf
<1>4. b \in Paths /\ Len(b) = m /\ \A i \in 1..m : b[i] = f[i]
  <2>1. m \in 0..Len(f)
    BY <1>1
  <2>. QED  BY <2>1, PrefixOf
<1>. HIDE DEF a, b
<1>5. \A i \in 1..m : a[i] = b[i]
  BY <1>1, <1>2, <1>3, <1>4
<1>6. a = b
  BY <1>3, <1>4, <1>5, SamePath
<1>. QED  BY <1>6 DEF a, b, g

LEMMA WholePrefix ==
    ASSUME NEW f \in Paths
    PROVE  Prefix(f, Len(f)) = f
BY SubSeqFull DEF Prefix, Paths

\* The parent of a file below the MF.
LEMMA ParentOf ==
    ASSUME NEW f \in Paths, Len(f) > 1
    PROVE  /\ Parent(f) = Prefix(f, Len(f) - 1)
           /\ Parent(f) \in Paths /\ Len(Parent(f)) = Len(f) - 1
           /\ \A i \in 1..(Len(f) - 1) : Parent(f)[i] = f[i]
           /\ LastId(Parent(f)) = f[Len(f) - 1]
<1>1. Len(f) \in Nat
  BY LenOfPath
<1>2. Parent(f) = Prefix(f, Len(f) - 1)
  <2>1. Len(f) # 1
    <3>. DEFINE y == Len(f)
    <3>1. y \in Nat /\ y > 1
      BY <1>1
    <3>. HIDE DEF y
    <3>2. y # 1
      BY <3>1
    <3>. QED  BY <3>2 DEF y
  <2>. QED  BY <2>1, Zenon DEF Parent, Prefix
<1>3. Len(f) - 1 \in 0..Len(f) /\ Len(f) - 1 \in 1..(Len(f) - 1)
  BY <1>1
<1>4. /\ Prefix(f, Len(f) - 1) \in Paths
      /\ Len(Prefix(f, Len(f) - 1)) = Len(f) - 1
      /\ \A i \in 1..(Len(f) - 1) : Prefix(f, Len(f) - 1)[i] = f[i]
  BY <1>3, PrefixOf
<1>. QED  BY <1>2, <1>3, <1>4 DEF LastId

\* Files of one parent differ in their identifiers.
LEMMA SameSibling ==
    ASSUME NEW f \in Paths, NEW g \in Paths, Len(f) > 1, Len(g) > 1,
           Parent(f) = Parent(g), LastId(f) = LastId(g)
    PROVE  f = g
<1>1. Len(f) \in Nat /\ Len(g) \in Nat
  BY LenOfPath
<1>. DEFINE d == Parent(f)
<1>2. /\ Len(d) = Len(f) - 1 /\ (\A i \in 1..(Len(f) - 1) : d[i] = f[i])
      /\ Len(d) = Len(g) - 1 /\ (\A i \in 1..(Len(g) - 1) : d[i] = g[i])
  BY ParentOf
<1>. HIDE DEF d
<1>3. Len(f) = Len(g)
  BY <1>1, <1>2
<1>4. f[Len(f)] = g[Len(f)]
  BY <1>3 DEF LastId
<1>5. \A i \in 1..Len(f) : f[i] = g[i]
  <2>1. \A n \in Nat : \A i \in 1..n : i \in 1..(n - 1) \/ i = n
    OBVIOUS
  <2>3. \A i \in 1..Len(f) : i \in 1..(Len(f) - 1) \/ i = Len(f)
    BY <1>1, <2>1
  <2>2. \A i \in 1..(Len(f) - 1) : f[i] = g[i]
    BY <1>2, <1>3
  <2>. QED  BY <1>4, <2>3, <2>2
<1>. QED  BY <1>3, <1>5, SamePath

-----------------------------------------------------------------------------
(* Trees. *)

\* What being in a tree says about a file.
InTree(T, f) ==
    /\ f \in Paths /\ Len(f) \in Nat /\ Len(f) >= 1 /\ f[1] = "3f00"
    /\ Len(f) = 1 => f = MF
    /\ f # MF => Len(f) > 1
    /\ Parent(f) \in T
    /\ \A n \in 1..Len(f) : Prefix(f, n) \in T

LEMMA RootPath == MF \in Paths /\ Len(MF) = 1 /\ MF[1] = "3f00" /\ Parent(MF) = MF /\ LastId(MF) = "3f00"
<1>1. MF \in Paths
  BY ShellAssumption DEF FileRules, Rooted
<1>2. Len(MF) = 1 /\ MF[1] = "3f00"
  BY DEF MF
<1>. QED  BY <1>1, <1>2 DEF Parent, LastId

LEMMA TreeFile ==
    ASSUME NEW T, Rooted(T), NEW f \in T
    PROVE  InTree(T, f)
<1>1. f \in Paths /\ f # <<>> /\ f[1] = "3f00" /\ \A n \in 1..Len(f) : Prefix(f, n) \in T
  BY DEF Rooted
<1>. DEFINE y == Len(f)
<1>2. y \in Nat /\ y > 0
  BY <1>1, LenOfPath
<1>3. ASSUME Len(f) = 1 PROVE f = MF
  <2>1. Len(f) = Len(MF) /\ \A i \in 1..Len(f) : f[i] = MF[i]
    BY <1>1, <1>3, RootPath
  <2>. QED  BY <1>1, <2>1, RootPath, SamePath
<1>4. f # MF => y > 1
  <2>. HIDE DEF y
  <2>1. f # MF => y # 1
    BY <1>3 DEF y
  <2>. QED  BY <1>2, <2>1
<1>5. Parent(f) \in T
  <2>1. CASE y = 1
    BY <2>1 DEF Parent
  <2>2. CASE y > 1
    <3>1. Parent(f) = Prefix(f, y - 1)
      BY <1>1, <2>2, ParentOf
    <3>2. y - 1 \in 1..y
      <4>. HIDE DEF y
      <4>. QED  BY <1>2, <2>2
    <3>. QED  BY <1>1, <3>1, <3>2
  <2>3. y = 1 \/ y > 1
    <3>. HIDE DEF y
    <3>. QED  BY <1>2
  <2>. QED  BY <2>1, <2>2, <2>3
<1>6. Len(f) \in Nat /\ Len(f) >= 1
  <2>1. y >= 1
    <3>. HIDE DEF y
    <3>. QED  BY <1>2
  <2>. QED  BY <1>2, <2>1
<1>. QED  BY <1>1, <1>3, <1>4, <1>5, <1>6 DEF InTree

\* The files of the host and of the card are a tree.
LEMMA FilesRooted == Rooted(Files) /\ Rooted(CardFiles) /\ Rooted(HostFiles) /\ CardFiles \subseteq Files
BY ShellAssumption DEF FileRules, Rooted, Files

\* A file, as its numbering says: lengths apart, so that they are plain numbers.
LEMMA FileNumbers ==
    ASSUME NEW f \in Files
    PROVE  /\ \A i, j \in 1..Len(f) : f[i] = f[j] => i = j
           /\ \A i \in 1..Len(f) : f[i] \in EfIds => i = Len(f)
           /\ \A i \in 1..Len(f) : f[i] \in Apps => i = 2 /\ (i = Len(f) \/ f[i] \in AppsWithFs)
           /\ \A g \in Files : Len(f) > 2 /\ Len(g) = Len(f) - 1 /\ Parent(g) = Prefix(f, Len(f) - 2) /\ ~IsEF(g)
                              => LastId(g) # LastId(f)
BY ShellAssumption DEF FileRules, Numbered

\* An application hangs from the MF; what is above a file is no EF.
LEMMA AppPlace ==
    ASSUME NEW f \in Files, IsADF(f)
    PROVE  Len(f) = 2 /\ f = <<"3f00", LastId(f)>> /\ ~IsEF(f) /\ f # MF
<1>1. InTree(Files, f)
  BY FilesRooted, TreeFile
<1>2. Len(f) \in 1..Len(f) /\ f[Len(f)] \in Apps
  BY <1>1 DEF InTree, IsADF, LastId
<1>3. Len(f) = 2
  BY <1>2, FileNumbers
<1>. DEFINE a == <<"3f00", LastId(f)>>
<1>4. Len(a) = 2 /\ a[1] = f[1] /\ a[2] = f[2]
  BY <1>1, <1>3 DEF InTree, LastId
<1>5. f = a
  <2>. DEFINE S == Names
  <2>1. f \in Seq(S)
    BY <1>1 DEF InTree, Paths
  <2>. HIDE DEF S
  <2>2. f[1] \in S /\ f[2] \in S
    <3>1. 1 \in 1..Len(f) /\ 2 \in 1..Len(f)
      BY <1>3
    <3>. QED  BY <2>1, <3>1, ElementOfSeq
  <2>3. a = <<f[1], f[2]>>
    BY <1>1, <1>3 DEF InTree, LastId
  <2>4. a \in Seq(S)
    BY <2>2, <2>3
  <2>. HIDE DEF a
  <2>5. \A i \in 1..2 : f[i] = a[i]
    BY <1>4
  <2>. QED  BY <1>3, <1>4, <2>1, <2>4, <2>5, SeqEqual
<1>6. ~IsEF(f)
  BY ShellAssumption DEF FileRules, IsADF, IsEF
<1>7. f # MF
  BY <1>3, RootPath
<1>. QED  BY <1>3, <1>5, <1>6, <1>7

\* Where the files of the current DF are.
LEMMA CwdOf ==
    ASSUME NEW T, Rooted(T), NEW f \in T
    PROVE  get_cwd(f) \in T
BY TreeFile DEF get_cwd, InTree

\* What is above a file is no EF.
LEMMA AboveNoEF ==
    ASSUME NEW f \in Files, NEW n \in 1..(Len(f) - 1)
    PROVE  ~IsEF(Prefix(f, n)) /\ get_cwd(Prefix(f, n)) = Prefix(f, n) /\ (IsADF(Prefix(f, n)) => HasFs(Prefix(f, n)))
<1>1. InTree(Files, f)
  BY FilesRooted, TreeFile
<1>2. n \in 0..Len(f) /\ n \in 1..Len(f) /\ n # Len(f) /\ n \in 1..n
  BY <1>1 DEF InTree
<1>3. LastId(Prefix(f, n)) = f[n]
  BY <1>1, <1>2, PrefixOf DEF InTree, LastId
<1>. QED  BY <1>2, <1>3, FileNumbers DEF IsEF, IsADF, HasFs, get_cwd

-----------------------------------------------------------------------------
(* What the card selects. *)

\* b is where the card looks for an FID from the DF d, or above it.
Near(d, b) ==
    \/ \E n \in 1..Len(d) : b = Prefix(d, n)
    \/ Parent(b) = d
    \/ Parent(b) = Parent(d) /\ ~IsEF(b)

\* The rules of numbering leave one file of an identifier near a DF.
LEMMA OneNear ==
    ASSUME NEW d \in Files, NEW b \in Files, NEW g \in Files, Len(b) > 1, Len(g) > 1,
           LastId(b) = LastId(g), Near(d, b),
           Parent(g) = d \/ g = d \/ g = Parent(d) \/ (Parent(g) = Parent(d) /\ ~IsEF(g))
    PROVE  g = b
<1>1. InTree(Files, d) /\ InTree(Files, b) /\ InTree(Files, g)
  BY FilesRooted, TreeFile
<1>. DEFINE x == Len(d)
            y == Len(b)
            z == Len(g)
<1>2. x \in Nat /\ y \in Nat /\ z \in Nat /\ x >= 1 /\ y > 1 /\ z > 1
  BY <1>1 DEF InTree
<1>3. b[y] = g[z]
  BY DEF LastId
<1>4. d \in Paths /\ b \in Paths /\ g \in Paths
  BY <1>1 DEF InTree
<1>5. /\ Len(Parent(b)) = y - 1 /\ \A i \in 1..(y - 1) : Parent(b)[i] = b[i]
      /\ Len(Parent(g)) = z - 1 /\ \A i \in 1..(z - 1) : Parent(g)[i] = g[i]
  BY <1>4, ParentOf
<1>6. /\ \A i, j \in 1..y : b[i] = b[j] => i = j
      /\ \A i, j \in 1..z : g[i] = g[j] => i = j
      /\ \A i, j \in 1..x : d[i] = d[j] => i = j
  BY FileNumbers
<1>7. x > 1 => /\ Len(Parent(d)) = x - 1 /\ (\A i \in 1..(x - 1) : Parent(d)[i] = d[i])
               /\ Parent(d) = Prefix(d, x - 1)
  BY <1>4, ParentOf
<1>8. x = 1 => d = MF /\ Parent(d) = d
  BY <1>1, RootPath DEF InTree
<1>9. x = 1 \/ x > 1
  <2>. HIDE DEF x
  <2>. QED  BY <1>2
<1>10. CASE \E n \in 1..x : b = Prefix(d, n)
  <2>1. PICK n \in 1..x : b = Prefix(d, n)
    BY <1>10
  <2>2. y = n /\ \A i \in 1..y : b[i] = d[i]
    <3>1. n \in 0..Len(d)
      BY <1>2
    <3>. QED  BY <1>4, <2>1, <3>1, PrefixOf
  <2>3. x > 1 /\ y <= x /\ y \in 1..y
    <3>. HIDE DEF x, y
    <3>. QED  BY <1>2, <2>1, <2>2
  <2>4. d[y] = g[z]
    BY <1>3, <2>2, <2>3
  <2>. HIDE DEF x, y, z
  <2>5. CASE Parent(g) = d
    <3>1. x = z - 1 /\ g[y] = d[y]
      BY <1>2, <1>5, <2>3, <2>5 DEF x
    <3>2. y \in 1..z /\ z \in 1..z
      BY <1>2, <2>3, <3>1
    <3>3. y = z
      BY <1>6, <2>4, <3>1, <3>2
    <3>. QED  BY <1>2, <2>3, <3>1, <3>3
  <2>6. CASE g = d
    <3>1. x = z /\ d[z] = d[y] /\ y \in 1..x /\ x \in 1..x
      BY <1>2, <2>3, <2>4, <2>6 DEF x, z
    <3>2. y = x
      BY <1>6, <3>1
    <3>. QED  BY <1>4, <2>1, <2>2, <2>6, <3>2, WholePrefix DEF x
  <2>7. CASE g = Parent(d)
    <3>1. z = x - 1 /\ g[z] = d[x - 1]
      BY <1>2, <1>7, <2>3, <2>7 DEF z
    <3>2. y \in 1..x /\ x - 1 \in 1..x /\ d[y] = d[x - 1]
      BY <1>2, <2>3, <2>4, <3>1
    <3>3. y = x - 1
      BY <1>6, <3>2
    <3>. QED  BY <1>7, <2>1, <2>2, <2>3, <2>7, <3>3
  <2>8. CASE Parent(g) = Parent(d)
    <3>1. z = x /\ \A i \in 1..(x - 1) : g[i] = d[i]
      <4>1. z - 1 = x - 1
        BY <1>5, <1>7, <2>3, <2>8
      <4>2. z = x
        BY <1>2, <4>1
      <4>. QED  BY <1>5, <1>7, <2>3, <2>8, <4>2
    <3>2. CASE y < x
      <4>1. y \in 1..(x - 1) /\ y \in 1..z /\ z \in 1..z
        BY <1>2, <3>1, <3>2
      <4>2. g[y] = g[z]
        BY <2>4, <3>1, <4>1
      <4>3. y = z
        BY <1>6, <4>1, <4>2
      <4>. QED  BY <1>2, <3>1, <3>2, <4>3
    <3>3. CASE y = x
      <4>1. b = d
        BY <1>4, <2>1, <2>2, <3>3, WholePrefix DEF x
      <4>. QED  BY <1>2, <1>4, <2>3, <2>8, <4>1, SameSibling DEF x, z
    <3>. QED  BY <1>2, <2>3, <3>2, <3>3
  <2>. QED  BY <2>5, <2>6, <2>7, <2>8
<1>11. CASE Parent(b) = d
  <2>1. x = y - 1 /\ \A i \in 1..x : b[i] = d[i]
    BY <1>5, <1>11
  <2>2. CASE Parent(g) = d
    BY <1>2, <1>4, <1>11, <2>2, SameSibling
  <2>. HIDE DEF x, y, z
  <2>3. CASE g = d
    <3>1. z = x /\ b[y] = b[x] /\ x \in 1..y /\ y \in 1..y
      BY <1>2, <1>3, <2>1, <2>3 DEF x, z
    <3>2. x = y
      BY <1>6, <3>1
    <3>. QED  BY <1>2, <2>1, <3>2
  <2>4. CASE g = Parent(d) /\ x > 1
    <3>1. z = x - 1 /\ g[z] = d[z]
      BY <1>2, <1>7, <2>4 DEF z
    <3>2. z \in 1..x /\ z \in 1..y /\ y \in 1..y
      BY <1>2, <2>1, <3>1
    <3>3. b[z] = b[y]
      BY <1>3, <2>1, <3>1, <3>2
    <3>4. z = y
      BY <1>6, <3>2, <3>3
    <3>. QED  BY <1>2, <2>1, <3>1, <3>4
  <2>5. CASE Parent(g) = Parent(d) /\ ~IsEF(g) /\ x > 1
    <3>1. z = x
      <4>1. z - 1 = x - 1
        BY <1>5, <1>7, <2>5
      <4>. QED  BY <1>2, <4>1
    <3>2. y > 2 /\ z = y - 1
      BY <1>2, <2>1, <2>5, <3>1
    <3>3. Parent(g) = Prefix(b, y - 2)
      <4>1. Parent(b) = Prefix(b, y - 1)
        BY <1>2, <1>4, ParentOf DEF y
      <4>2. y - 1 \in 0..y /\ y - 2 \in 0..(y - 1) /\ x - 1 = y - 2
        BY <1>2, <2>1
      <4>3. Prefix(Prefix(b, y - 1), y - 2) = Prefix(b, y - 2)
        BY <1>4, <4>2, PrefixOfPrefix DEF y
      <4>. QED  BY <1>7, <1>11, <2>5, <4>1, <4>2, <4>3
    <3>. QED  BY <2>5, <3>2, <3>3, FileNumbers DEF y, z
  <2>6. CASE x = 1 /\ (g = Parent(d) \/ Parent(g) = Parent(d))
    BY <1>8, <2>2, <2>3, <2>6
  <2>. QED  BY <1>9, <2>2, <2>3, <2>4, <2>5, <2>6
<1>12. CASE Parent(b) = Parent(d) /\ ~IsEF(b)
  <2>1. CASE x = 1
    BY <1>8, <1>11, <1>12, <2>1
  <2>2. CASE x > 1
    <3>1. y = x
      <4>1. y - 1 = x - 1
        BY <1>5, <1>7, <1>12, <2>2
      <4>. HIDE DEF x, y
      <4>. QED  BY <1>2, <4>1
    <3>2. CASE Parent(g) = d
      <4>1. z - 1 = x
        BY <1>5, <3>2
      <4>. HIDE DEF x, y, z
      <4>2. z > 2 /\ y = z - 1
        BY <1>2, <2>2, <3>1, <4>1
      <4>3. Parent(b) = Prefix(g, z - 2)
        <5>1. Parent(g) = Prefix(g, z - 1)
          BY <1>2, <1>4, ParentOf DEF z
        <5>2. z - 1 \in 0..z /\ z - 2 \in 0..(z - 1) /\ x - 1 = z - 2
          BY <1>2, <4>1
        <5>3. Prefix(Prefix(g, z - 1), z - 2) = Prefix(g, z - 2)
          BY <1>4, <5>2, PrefixOfPrefix DEF z
        <5>. QED  BY <1>7, <1>12, <2>2, <3>2, <5>1, <5>2, <5>3
      <4>. QED  BY <1>12, <4>2, <4>3, FileNumbers DEF y, z
    <3>3. CASE g = d
      BY <1>2, <1>4, <1>12, <2>2, <3>3, SameSibling
    <3>4. CASE g = Parent(d)
      <4>1. z = y - 1 /\ g[z] = b[z]
        BY <1>2, <1>5, <1>12, <3>4
      <4>. HIDE DEF x, y, z
      <4>2. z \in 1..y /\ y \in 1..y
        BY <1>2, <4>1
      <4>3. z = y
        BY <1>3, <1>6, <4>1, <4>2
      <4>. QED  BY <1>2, <4>1, <4>3
    <3>5. CASE Parent(g) = Parent(d)
      BY <1>2, <1>4, <1>12, <3>5, SameSibling
    <3>. QED  BY <3>2, <3>3, <3>4, <3>5
  <2>. QED  BY <1>9, <2>1, <2>2
<1>. QED  BY <1>10, <1>11, <1>12 DEF Near

\* From a the card answers an FID or an AID with the file that is meant, or not
\* at all.
LEMMA CardAnswers ==
    ASSUME NEW a \in CardFiles, NEW b \in Files, b = MF \/ IsADF(b) \/ Near(get_cwd(a), b)
    PROVE  CardSelect(a, b) = None \/ (CardSelect(a, b) = b /\ b \in CardFiles)
<1>1. CASE IsADF(b)
  BY <1>1, AppPlace DEF CardSelect
<1>2. CASE ~IsADF(b)
  <2>. DEFINE d == get_cwd(a)
              id == LastId(b)
              near == {f \in CardFiles : ~IsADF(f) /\ LastId(f) = id /\
                   (Parent(f) = d \/ f = d \/ f = Parent(d) \/
                    (Parent(f) = Parent(d) /\ ~IsEF(f)))}
  <2>1. CardSelect(a, b) = CardSelectFid(a, id)
    BY <1>2 DEF CardSelect
  <2>2. d \in CardFiles /\ d \in Files
    BY FilesRooted, CwdOf
  <2>3. InTree(Files, b)
    BY FilesRooted, TreeFile
  <2>4. CASE id = "3f00"
    <3>1. Len(b) \in 1..Len(b) /\ 1 \in 1..Len(b) /\ b[Len(b)] = b[1]
      BY <2>3, <2>4 DEF InTree, LastId
    <3>2. Len(b) = 1
      BY <3>1, FileNumbers
    <3>3. b = MF /\ MF \in CardFiles
      BY <2>3, <3>2, FilesRooted DEF InTree, Rooted
    <3>. QED  BY <2>1, <2>4, <3>3 DEF CardSelectFid
  <2>5. CASE id # "3f00"
    <3>1. b # MF /\ Len(b) > 1 /\ Near(d, b)
      BY <1>2, <2>3, <2>5, RootPath DEF InTree
    <3>2. ASSUME NEW g \in near PROVE g = b
      <4>1. g \in Files /\ g # MF
        BY <2>5, RootPath DEF Files
      <4>2. Len(g) > 1
        BY <4>1, FilesRooted, TreeFile DEF InTree
      <4>3. LastId(b) = LastId(g) /\ (Parent(g) = d \/ g = d \/ g = Parent(d) \/ (Parent(g) = Parent(d) /\ ~IsEF(g)))
        BY <3>2
      <4>. QED  BY <2>2, <3>1, <4>1, <4>2, <4>3, OneNear
    <3>3. CardSelectFid(a, id) = None \/ (near # {} /\ CardSelectFid(a, id) = CHOOSE f \in near : \A g \in near : Len(g) <= Len(f))
      BY <2>5 DEF CardSelectFid
    <3>4. near # {} => b \in near /\ b \in CardFiles
      BY <3>2
    <3>. HIDE DEF near
    <3>5. near # {} => (CHOOSE f \in near : \A g \in near : Len(g) <= Len(f)) = b
      <4>1. Len(b) <= Len(b)
        BY <2>3 DEF InTree
      <4>2. near # {} => \A g \in near : Len(g) <= Len(b)
        BY <3>2, <4>1
      <4>. QED  BY <3>2, <3>4, <4>2
    <3>. QED  BY <2>1, <3>3, <3>4, <3>5
  <2>. QED  BY <2>4, <2>5
<1>. QED  BY <1>1, <1>2

\* Where the card looks for FIDs it finds what it has.
LEMMA CardFinds ==
    ASSUME NEW a \in CardFiles, NEW b \in CardFiles,
           LET d == get_cwd(a)
           IN  \/ IsADF(b)
               \/ /\ IsADF(d) => HasFs(d)
                  /\ b = MF \/ Parent(b) = d \/ b = d \/ b = Parent(d) \/ (Parent(b) = Parent(d) /\ ~IsEF(b))
    PROVE  CardSelect(a, b) = b
<1>. DEFINE d == get_cwd(a)
            id == LastId(b)
            near == {f \in CardFiles : ~IsADF(f) /\ LastId(f) = id /\
                   (Parent(f) = d \/ f = d \/ f = Parent(d) \/
                    (Parent(f) = Parent(d) /\ ~IsEF(f)))}
<1>1. a # None /\ b # None
  BY FilesRooted, TreeFile, ShellAssumption DEF FileRules, InTree
<1>2. b \in Files /\ a \in Files /\ d \in CardFiles /\ d \in Files
  BY FilesRooted, CwdOf
<1>3. CASE IsADF(b)
  BY <1>1, <1>2, <1>3, AppPlace DEF CardSelect
<1>4. CASE ~IsADF(b)
  <2>1. CardSelect(a, b) = CardSelectFid(a, id) /\ ~(IsADF(d) /\ ~HasFs(d))
    BY <1>4 DEF CardSelect
  <2>2. CASE b = MF
    BY <1>1, <2>1, <2>2, RootPath DEF CardSelectFid
  <2>3. CASE b # MF
    <3>1. b \in near
      BY <1>4, <2>3
    <3>2. Near(d, b)
      <4>1. InTree(Files, d) /\ InTree(Files, b)
        BY <1>2, FilesRooted, TreeFile
      <4>2. CASE b = d
        <5>1. Len(d) \in 1..Len(d) /\ b = Prefix(d, Len(d))
          BY <4>1, <4>2, WholePrefix DEF InTree
        <5>. QED  BY <5>1 DEF Near
      <4>3. CASE b = Parent(d)
        <5>1. d # MF
          BY <2>3, <4>3, RootPath
        <5>2. Len(d) > 1 /\ Len(d) \in Nat
          BY <4>1, <5>1 DEF InTree
        <5>3. Len(d) - 1 \in 1..Len(d) /\ b = Prefix(d, Len(d) - 1)
          BY <4>1, <4>3, <5>2, ParentOf DEF InTree
        <5>. QED  BY <5>3 DEF Near
      <4>. QED  BY <1>4, <2>3, <4>2, <4>3 DEF Near
    <3>3. CardSelect(a, b) = None \/ CardSelect(a, b) = b
      BY <1>2, <3>2, CardAnswers
    <3>4. CardSelectFid(a, id) # None
      <4>1. CASE id = "3f00"
        <5>1. MF # None
          BY FilesRooted, TreeFile, ShellAssumption DEF FileRules, InTree, Rooted
        <5>. QED  BY <1>1, <2>1, <4>1, <5>1 DEF CardSelectFid
      <4>2. CASE id # "3f00"
        <5>1. CardSelectFid(a, id) = CHOOSE f \in near : \A g \in near : Len(g) <= Len(f)
          BY <1>1, <2>1, <3>1, <4>2 DEF CardSelectFid
        <5>2. ASSUME NEW g \in near PROVE g = b
          <6>1. g \in Files /\ g # MF
            BY <4>2, RootPath DEF Files
          <6>2. Len(g) > 1 /\ Len(b) > 1
            BY <1>2, <2>3, <6>1, FilesRooted, TreeFile DEF InTree
          <6>3. LastId(b) = LastId(g) /\ (Parent(g) = d \/ g = d \/ g = Parent(d) \/ (Parent(g) = Parent(d) /\ ~IsEF(g)))
            BY <5>2
          <6>. QED  BY <1>2, <3>2, <6>1, <6>2, <6>3, OneNear
        <5>3. Len(b) <= Len(b)
          BY <1>2, FilesRooted, TreeFile DEF InTree
        <5>. HIDE DEF near
        <5>4. b \in near /\ \A g \in near : Len(g) <= Len(b)
          BY <3>1, <5>2, <5>3
        <5>5. (CHOOSE f \in near : \A g \in near : Len(g) <= Len(f)) \in near
          BY <5>4
        <5>. QED  BY <1>1, <5>1, <5>2, <5>5
      <4>. QED  BY <4>1, <4>2
    <3>. QED  BY <2>1, <3>3, <3>4
  <2>. QED  BY <2>2, <2>3
<1>. QED  BY <1>3, <1>4

\* In an application without files no FID can be selected, and a channel that is
\* closed answers nothing.
LEMMA CardSilent ==
    ASSUME NEW a, NEW b, ~IsADF(b), a = None \/ (IsADF(get_cwd(a)) /\ ~HasFs(get_cwd(a)))
    PROVE  CardSelect(a, b) = None
BY DEF CardSelect, CardSelectFid

LEMMA CardClosed ==
    ASSUME NEW b
    PROVE  CardSelect(None, b) = None
BY DEF CardSelect, CardSelectFid

\* A file that the card finds by an FID.
Found(a, id, c) ==
    LET d == get_cwd(a)
    IN  /\ a \in CardFiles /\ c \in CardFiles /\ ~IsADF(c) /\ LastId(c) = id
        /\ IsADF(d) => HasFs(d)
        /\ c = MF \/ Parent(c) = d \/ c = d \/ c = Parent(d) \/ (Parent(c) = Parent(d) /\ ~IsEF(c))

\* What the card answers an FID with is such a file: of several the one furthest
\* from the MF.
LEMMA FidFound ==
    ASSUME NEW a \in CardFiles \cup {None}, NEW id
    PROVE  CardSelectFid(a, id) = None \/ Found(a, id, CardSelectFid(a, id))
<1>. DEFINE d == get_cwd(a)
            near == {f \in CardFiles : ~IsADF(f) /\ LastId(f) = id /\
                   (Parent(f) = d \/ f = d \/ f = Parent(d) \/
                    (Parent(f) = Parent(d) /\ ~IsEF(f)))}
            far == CHOOSE f \in near : \A g \in near : Len(g) <= Len(f)
<1>1. CASE CardSelectFid(a, id) = None
  BY <1>1
<1>2. CASE id = "3f00" /\ CardSelectFid(a, id) # None
  <2>1. a \in CardFiles /\ CardSelectFid(a, id) = MF /\ (IsADF(d) => HasFs(d))
    BY <1>2 DEF CardSelectFid
  <2>2. MF \in CardFiles /\ ~IsADF(MF)
    BY FilesRooted, AppPlace DEF Rooted
  <2>. QED  BY <1>2, <2>1, <2>2, RootPath DEF Found
<1>3. CASE id # "3f00" /\ CardSelectFid(a, id) # None
  <2>1. a \in CardFiles /\ CardSelectFid(a, id) = far /\ near # {} /\ (IsADF(d) => HasFs(d))
    BY <1>3 DEF CardSelectFid
  <2>2. d \in CardFiles
    BY <2>1, FilesRooted, CwdOf
  <2>. DEFINE x == Len(d)
              S == {x + 1 - Len(g) : g \in near}
  <2>3. x \in Nat /\ x >= 1
    BY <2>2, FilesRooted, TreeFile DEF InTree
  <2>4. ASSUME NEW g \in near PROVE Len(g) \in Nat /\ Len(g) <= x + 1
    <3>1. g \in Paths /\ Len(g) \in Nat /\ d \in Paths
      BY <2>2, FilesRooted, TreeFile DEF InTree
    <3>. DEFINE z == Len(g)
    <3>2. z > 1 => Len(Parent(g)) = z - 1
      BY <3>1, ParentOf
    <3>3. x > 1 => Len(Parent(d)) = x - 1
      BY <3>1, ParentOf
    <3>4. x = 1 => Parent(d) = d
      BY DEF Parent
    <3>5. z = x \/ z = 1 \/ (z > 1 /\ (z - 1 = x \/ z - 1 = x - 1)) \/ (x > 1 /\ z = x - 1)
      <4>1. z \in Nat /\ (z = 1 \/ z > 1 \/ z = 0)
        <5>1. z \in Nat
          BY <3>1
        <5>. HIDE DEF z
        <5>. QED  BY <5>1
      <4>2. g # <<>>
        BY FilesRooted DEF Rooted
      <4>3. z > 0
        BY <3>1, <4>2, LenOfPath
      <4>4. x = 1 \/ x > 1
        <5>. HIDE DEF x
        <5>. QED  BY <2>3
      <4>5. Parent(g) = d \/ g = d \/ g = Parent(d) \/ Parent(g) = Parent(d)
        BY <2>4
      <4>. QED  BY <3>2, <3>3, <3>4, <4>1, <4>3, <4>4, <4>5
    <3>6. z \in Nat
      BY <3>1
    <3>7. z <= x + 1
      <4>. HIDE DEF x, z
      <4>. QED  BY <2>3, <3>5, <3>6
    <3>. QED  BY <3>6, <3>7
  <2>5. S \subseteq Nat /\ S # {}
    <3>1. ASSUME NEW g \in near PROVE x + 1 - Len(g) \in Nat
      <4>. DEFINE z == Len(g)
      <4>1. z \in Nat /\ z <= x + 1
        BY <2>4
      <4>. HIDE DEF x, z
      <4>2. x + 1 - z \in Nat
        BY <2>3, <4>1
      <4>. QED  BY <4>2 DEF z
    <3>. HIDE DEF near
    <3>. QED  BY <2>1, <3>1
  <2>6. PICK m \in S : \A k \in S : m <= k
    <3>. HIDE DEF S
    <3>. QED  BY <2>5, LeastNumber
  <2>7. PICK f \in near : m = x + 1 - Len(f)
    BY <2>6
  <2>8. ASSUME NEW g \in near PROVE Len(g) <= Len(f)
    <3>. DEFINE u == Len(f)
                v == Len(g)
    <3>1. x + 1 - u <= x + 1 - v /\ u \in Nat /\ v \in Nat
      BY <2>4, <2>6, <2>7
    <3>. HIDE DEF u, v, x
    <3>2. v <= u
      BY <2>3, <3>1
    <3>. QED  BY <3>2 DEF u, v
  <2>9. far \in near
    <3>. HIDE DEF near
    <3>. QED  BY <2>7, <2>8
  <2>. HIDE DEF far
  <2>. QED  BY <2>1, <2>9 DEF Found
<1>. QED  BY <1>1, <1>2, <1>3

\* The card has a file of its own selected, or none.
LEMMA CardType ==
    ASSUME NEW a \in CardFiles \cup {None}, NEW b
    PROVE  CardSelect(a, b) \in CardFiles \cup {None}
<1>1. CardSelectFid(a, LastId(b)) \in CardFiles \cup {None}
  BY FidFound DEF Found
<1>. QED  BY <1>1 DEF CardSelect

-----------------------------------------------------------------------------
(* The way from a file to another. *)

\* Files of one tree have a common ancestor, above the one that is not the MF.
LEMMA CommonAncestor ==
    ASSUME NEW T, Rooted(T), NEW from \in T, NEW to \in T, to # MF
    PROVE  LET c == Common(from, to)
           IN  c \in 1..Len(from) /\ c < Len(to) /\ Prefix(from, c) = Prefix(to, c)
<1>. DEFINE x == Len(from)
            y == Len(to)
            C == {n \in 1..x : n < y /\ Prefix(from, n) = Prefix(to, n)}
            S == {x - n : n \in C}
            P(n) == /\ n < Len(to) /\ Prefix(from, n) = Prefix(to, n)
                    /\ n + 1 \in 1..Len(from) /\ n + 1 < Len(to) => from[n + 1] # to[n + 1]
<1>1. InTree(T, from) /\ InTree(T, to)
  BY TreeFile
<1>2. from \in Paths /\ to \in Paths /\ x \in Nat /\ x >= 1 /\ y \in Nat /\ y > 1
  BY <1>1 DEF InTree
<1>3. ASSUME NEW n \in 1..x, n < y, \A i \in 1..n : from[i] = to[i]
      PROVE  Prefix(from, n) = Prefix(to, n)
  <2>1. n \in 0..x /\ n \in 0..y
    <3>. HIDE DEF x, y
    <3>. QED  BY <1>2, <1>3
  <2>. DEFINE a == Prefix(from, n)
              b == Prefix(to, n)
  <2>2. /\ a \in Paths /\ b \in Paths /\ Len(a) = n /\ Len(b) = n
        /\ \A i \in 1..n : a[i] = from[i] /\ b[i] = to[i]
    BY <1>2, <2>1, PrefixOf
  <2>. HIDE DEF a, b
  <2>3. Len(a) = Len(b) /\ \A i \in 1..Len(a) : a[i] = b[i]
    BY <1>3, <2>2
  <2>4. a = b
    BY <2>2, <2>3, SamePath
  <2>. QED  BY <2>4 DEF a, b
<1>4. 1 \in C
  <2>1. 1 \in 1..x /\ 1 < y
    <3>. HIDE DEF x, y
    <3>. QED  BY <1>2
  <2>2. \A i \in 1..1 : from[i] = to[i]
    BY <1>1 DEF InTree
  <2>. QED  BY <1>3, <2>1, <2>2
<1>5. S \subseteq Nat /\ S # {}
  <2>1. \A n \in C : n \in Nat /\ x - n \in Nat
    <3>1. C \subseteq 1..x
      OBVIOUS
    <3>. HIDE DEF x, C
    <3>. QED  BY <1>2, <3>1
  <2>. HIDE DEF C
  <2>. QED  BY <1>4, <2>1
<1>6. PICK m \in S : \A k \in S : m <= k
  <2>. HIDE DEF S
  <2>. QED  BY <1>5, LeastNumber
<1>7. PICK c \in C : m = x - c
  BY <1>6
<1>8. P(c)
  <2>1. c < Len(to) /\ Prefix(from, c) = Prefix(to, c) /\ c \in 1..x
    OBVIOUS
  <2>2. ASSUME c + 1 \in 1..x, c + 1 < y, from[c + 1] = to[c + 1] PROVE FALSE
    <3>1. c \in 0..x /\ c \in 0..y
      <4>1. c \in 1..x /\ c < y
        OBVIOUS
      <4>. HIDE DEF x, y
      <4>. QED  BY <1>2, <4>1
    <3>2. \A i \in 1..c : from[i] = to[i]
      <4>1. \A i \in 1..c : Prefix(from, c)[i] = from[i]
        BY <1>2, <3>1, PrefixOf
      <4>2. \A i \in 1..c : Prefix(to, c)[i] = to[i]
        BY <1>2, <3>1, PrefixOf
      <4>. QED  BY <2>1, <4>1, <4>2
    <3>3. \A i \in 1..(c + 1) : from[i] = to[i]
      <4>1. c \in Nat
        BY <3>1
      <4>2. \A i \in 1..(c + 1) : i \in 1..c \/ i = c + 1
        <5>. HIDE DEF C
        <5>. QED  BY <4>1
      <4>. QED  BY <2>2, <3>2, <4>2
    <3>4. c + 1 \in C
      BY <1>3, <2>2, <3>3
    <3>5. x - c <= x - (c + 1)
      <4>1. x - (c + 1) \in S
        <5>. HIDE DEF C
        <5>. QED  BY <3>4
      <4>. HIDE DEF S, C
      <4>. QED  BY <1>6, <1>7, <4>1
    <3>6. c \in Nat
      BY <3>1
    <3>. HIDE DEF x, C
    <3>. QED  BY <1>2, <3>5, <3>6
  <2>. QED  BY <2>1, <2>2
<1>9. c \in 1..Len(from)
  OBVIOUS
<1>. HIDE DEF P
<1>10. Common(from, to) = CHOOSE n \in 1..Len(from) : P(n)
  BY DEF Common, P
<1>11. Common(from, to) \in 1..Len(from) /\ P(Common(from, to))
  <2>. HIDE DEF C
  <2>. QED  BY <1>8, <1>9, <1>10
<1>. QED  BY <1>11 DEF P

\* The j-th file of the way by way of the ancestor of depth c.
Way(from, to, c, j) ==
    IF j <= Len(from) - c THEN Prefix(from, Len(from) - j) ELSE Prefix(to, c + (j - (Len(from) - c)))

\* p is that way from its k-th file on, which is its last application or its first file.
Shape(p, from, to, c, k) ==
    LET n == (Len(from) - c) + (Len(to) - c)
    IN  /\ c \in 1..Len(from) /\ c < Len(to) /\ Prefix(from, c) = Prefix(to, c)
        /\ k \in 1..n
        /\ Len(p) = n - k + 1
        /\ \A i \in 1..(n - k + 1) : p[i] = Way(from, to, c, k + i - 1)
        /\ \A j \in (k + 1)..n : ~IsADF(Way(from, to, c, j))
        /\ k = 1 \/ IsADF(Way(from, to, c, k))

\* Of a way what is left begins with its last application.
LEMMA LastApplication ==
    ASSUME NEW way, NEW n \in Nat, n > 0, Len(way) = n
    PROVE  \E k \in 1..n : /\ FromLastADF(way) = SubSeq(way, k, n)
                           /\ \A j \in (k + 1)..n : ~IsADF(way[j])
                           /\ k = 1 \/ IsADF(way[k])
<1>. DEFINE first == {i \in 1..n : \A j \in (i + 1)..n : ~IsADF(way[j])}
            k == CHOOSE i \in first : i = 1 \/ i - 1 \notin first
<1>1. n \in first
  OBVIOUS
<1>2. PICK m \in first : \A i \in first : m <= i
  <2>1. first \subseteq 1..n
    OBVIOUS
  <2>. HIDE DEF first
  <2>2. first \subseteq Nat /\ first # {}
    BY <1>1, <2>1
  <2>. QED  BY <2>2, LeastNumber
<1>3. m = 1 \/ m - 1 \notin first
  <2>1. m \in Nat
    OBVIOUS
  <2>2. m - 1 \notin first
    <3>. HIDE DEF first
    <3>. QED  BY <1>2, <2>1
  <2>. QED  BY <2>2
<1>4. k \in first /\ (k = 1 \/ k - 1 \notin first)
  <2>. HIDE DEF first
  <2>. QED  BY <1>2, <1>3
<1>5. FromLastADF(way) = SubSeq(way, k, n)
  BY DEF FromLastADF
<1>. HIDE DEF k
<1>6. k \in 1..n /\ \A j \in (k + 1)..n : ~IsADF(way[j])
  BY <1>4
<1>7. ASSUME k # 1 PROVE IsADF(way[k])
  <2>1. k - 1 \in 1..n
    BY <1>6, <1>7
  <2>2. PICK j \in ((k - 1) + 1)..n : IsADF(way[j])
    BY <1>4, <1>7, <2>1
  <2>3. j = k \/ j \in (k + 1)..n
    BY <1>6, <2>2
  <2>. QED  BY <1>6, <2>2, <2>3
<1>. QED  BY <1>5, <1>6, <1>7

\* build_select_path_to goes up to a common ancestor and down from it.
LEMMA PathShape ==
    ASSUME NEW T, Rooted(T), NEW from \in T, NEW to \in T, to # MF
    PROVE  \E c, k \in Nat : Shape(PathTo(from, to), from, to, c, k)
<1>. DEFINE c == Common(from, to)
            x == Len(from)
            y == Len(to)
            u == x - c
            v == y - c
            up == Up(from, c)
            down == Down(to, c)
            way == up \o down
<1>1. InTree(T, from) /\ InTree(T, to)
  BY TreeFile
<1>2. from \in Paths /\ to \in Paths /\ x \in Nat /\ x >= 1 /\ y \in Nat /\ y > 1
  BY <1>1 DEF InTree
<1>3. c \in 1..x /\ c < y /\ Prefix(from, c) = Prefix(to, c)
  BY CommonAncestor
<1>. HIDE DEF c
<1>4. c \in Nat /\ u \in Nat /\ v \in Nat /\ v > 0
  <2>. HIDE DEF x, y
  <2>. QED  BY <1>2, <1>3
<1>5. up \in Seq(T) /\ Len(up) = u /\ \A i \in 1..u : up[i] = Prefix(from, x - i)
  <2>1. \A i \in 1..u : x - i \in 1..x
    <3>. HIDE DEF x
    <3>. QED  BY <1>2, <1>3
  <2>2. up = [i \in 1..u |-> Prefix(from, x - i)]
    BY DEF Up
  <2>3. \A i \in 1..u : Prefix(from, x - i) \in T
    BY <1>1, <2>1 DEF InTree
  <2>. HIDE DEF up, u
  <2>4. up \in [1..u -> T]
    BY <2>2, <2>3
  <2>. QED  BY <1>4, <2>2, <2>4, FunctionIsSeq
<1>6. down \in Seq(T) /\ Len(down) = v /\ \A i \in 1..v : down[i] = Prefix(to, c + i)
  <2>1. \A i \in 1..v : c + i \in 1..y
    <3>. HIDE DEF y
    <3>. QED  BY <1>2, <1>3
  <2>2. down = [i \in 1..v |-> Prefix(to, c + i)]
    BY DEF Down
  <2>3. \A i \in 1..v : Prefix(to, c + i) \in T
    BY <1>1, <2>1 DEF InTree
  <2>. HIDE DEF down, v
  <2>4. down \in [1..v -> T]
    BY <2>2, <2>3
  <2>. QED  BY <1>4, <2>2, <2>4, FunctionIsSeq
<1>. HIDE DEF up, down
<1>7. /\ way \in Seq(T) /\ Len(way) = u + v
      /\ \A i \in 1..(u + v) : way[i] = IF i <= u THEN up[i] ELSE down[i - u]
  <2>. HIDE DEF u, v
  <2>. QED  BY <1>5, <1>6, ConcatProperties
<1>8. \A i \in 1..(u + v) : way[i] = Way(from, to, c, i)
  <2>1. ASSUME NEW i \in 1..(u + v) PROVE way[i] = Way(from, to, c, i)
    <3>. HIDE DEF way
    <3>1. i \in Nat
      OBVIOUS
    <3>2. CASE i <= u
      <4>1. i \in 1..u
        <5>. HIDE DEF u, v
        <5>. QED  BY <1>4, <3>1, <3>2
      <4>2. way[i] = Prefix(from, x - i)
        <5>. HIDE DEF u, v
        <5>. QED  BY <1>5, <1>7, <3>2, <4>1
      <4>. QED  BY <3>2, <4>2 DEF Way
    <3>3. CASE ~(i <= u)
      <4>1. i - u \in 1..v
        <5>. HIDE DEF u, v
        <5>. QED  BY <1>4, <3>1, <3>3
      <4>2. way[i] = Prefix(to, c + (i - u))
        <5>. HIDE DEF u, v
        <5>. QED  BY <1>6, <1>7, <3>3, <4>1
      <4>. QED  BY <3>3, <4>2 DEF Way
    <3>. QED  BY <3>2, <3>3
  <2>. QED  BY <2>1
<1>9. PathTo(from, to) = FromLastADF(way)
  BY DEF PathTo, c, up, down
<1>. HIDE DEF way
<1>. DEFINE n == u + v
<1>10. n \in Nat /\ n > 0
  <2>. HIDE DEF u, v
  <2>. QED  BY <1>4
<1>11. PICK k \in 1..n : /\ FromLastADF(way) = SubSeq(way, k, n)
                         /\ \A j \in (k + 1)..n : ~IsADF(way[j])
                         /\ k = 1 \/ IsADF(way[k])
  <2>. HIDE DEF n
  <2>1. Len(way) = n
    BY <1>7 DEF n
  <2>. QED  BY <1>10, <2>1, LastApplication
<1>. DEFINE p == SubSeq(way, k, n)
<1>12. Len(p) = n - k + 1 /\ \A i \in 1..(n - k + 1) : p[i] = way[k + i - 1]
  <2>. HIDE DEF n
  <2>1. \A i \in k..n : way[i] \in T
    <3>1. Len(way) = n
      BY <1>7 DEF n
    <3>2. \A i \in k..n : i \in 1..n
      BY <1>10
    <3>. QED  BY <1>7, <3>1, <3>2, ElementOfSeq
  <2>2. k \in Int /\ n \in Int /\ k <= n
    BY <1>10
  <2>. QED  BY <2>1, <2>2, SubSeqProperties
<1>. HIDE DEF p
<1>13. \A i \in 1..(n - k + 1) : p[i] = Way(from, to, c, k + i - 1)
  <2>1. \A i \in 1..(n - k + 1) : k + i - 1 \in 1..n
    <3>. HIDE DEF n
    <3>. QED  BY <1>10
  <2>. QED  BY <1>8, <1>12, <2>1
<1>14. \A j \in (k + 1)..n : ~IsADF(Way(from, to, c, j))
  <2>1. \A j \in (k + 1)..n : j \in 1..n
    <3>. HIDE DEF n
    <3>. QED  BY <1>10
  <2>. QED  BY <1>8, <1>11, <2>1
<1>15. k = 1 \/ IsADF(Way(from, to, c, k))
  BY <1>8, <1>11
<1>16. Shape(p, from, to, c, k)
  BY <1>3, <1>12, <1>13, <1>14, <1>15 DEF Shape
<1>17. p = PathTo(from, to) /\ k \in Nat
  <2>. HIDE DEF n
  <2>. QED  BY <1>9, <1>11 DEF p
<1>. QED  BY <1>4, <1>16, <1>17

\* q is above the one file, or the other or above it.
OnWay(from, to, q) ==
    \/ \E n \in 1..(Len(from) - 1) : q = Prefix(from, n)
    \/ \E n \in 1..Len(to) : q = Prefix(to, n)

\* A way ends at its target, and an application is selected at once.
Leads(p, from, to) ==
    /\ Len(p) \in Nat /\ Len(p) >= 1 /\ p[Len(p)] = to
    /\ \A i \in 1..Len(p) : OnWay(from, to, p[i])
    /\ IsADF(to) => Len(p) = 1
    /\ to = MF => Len(p) = 1

\* The files of the way of build_select_path_to.
LEMMA WayPlaces ==
    ASSUME NEW T, Rooted(T), NEW from \in T, NEW to \in T, NEW c \in Nat, NEW j \in Nat,
           c \in 1..Len(from), c < Len(to), j >= 1, j <= (Len(from) - c) + (Len(to) - c)
    PROVE  /\ OnWay(from, to, Way(from, to, c, j))
           /\ j = (Len(from) - c) + (Len(to) - c) => Way(from, to, c, j) = to
<1>. DEFINE x == Len(from)
            y == Len(to)
            a == x - j
            b == c + (j - (x - c))
<1>1. InTree(T, from) /\ InTree(T, to)
  BY TreeFile
<1>2. /\ x \in Nat /\ y \in Nat /\ from \in Paths /\ to \in Paths
      /\ c \in 1..x /\ c < y /\ j <= (x - c) + (y - c)
  BY <1>1 DEF InTree
<1>3. CASE j <= x - c
  <2>1. a \in 1..(x - 1) /\ j # (x - c) + (y - c)
    <3>. HIDE DEF x, y
    <3>. QED  BY <1>2, <1>3
  <2>2. Way(from, to, c, j) = Prefix(from, a)
    BY <1>3 DEF Way
  <2>. HIDE DEF a
  <2>. QED  BY <2>1, <2>2 DEF OnWay
<1>4. CASE ~(j <= x - c)
  <2>1. b \in 1..y /\ (j = (x - c) + (y - c) => b = y)
    <3>. HIDE DEF x, y
    <3>. QED  BY <1>2, <1>4
  <2>2. Way(from, to, c, j) = Prefix(to, b)
    BY <1>4 DEF Way
  <2>. HIDE DEF b
  <2>. QED  BY <1>2, <2>1, <2>2, WholePrefix DEF OnWay
<1>. QED  BY <1>3, <1>4

LEMMA PathLeads ==
    ASSUME NEW T, Rooted(T), NEW from \in T, NEW to \in T
    PROVE  Leads(PathTo(from, to), from, to)
<1>. DEFINE p == PathTo(from, to)
<1>1. InTree(T, from) /\ InTree(T, to)
  BY TreeFile
<1>2. CASE to = MF
  <2>1. p = <<MF>>
    BY <1>2 DEF PathTo
  <2>2. Len(p) = 1 /\ p[1] = MF
    BY <2>1
  <2>3. 1 \in 1..Len(to) /\ Prefix(to, 1) = MF
    <3>1. 1 \in 1..Len(to) /\ Len(to) = 1 /\ to \in Paths
      BY <1>2, RootPath
    <3>2. Prefix(to, Len(to)) = to
      BY <3>1, WholePrefix
    <3>. QED  BY <1>2, <3>1, <3>2
  <2>. HIDE DEF p
  <2>4. Len(p) \in Nat /\ Len(p) >= 1 /\ p[Len(p)] = to
    BY <1>2, <2>2
  <2>5. \A i \in 1..Len(p) : OnWay(from, to, p[i])
    BY <2>2, <2>3 DEF OnWay
  <2>6. Leads(p, from, to)
    BY <2>2, <2>4, <2>5 DEF Leads
  <2>. QED  BY <2>6 DEF p
<1>3. CASE to # MF
  <2>1. PICK c, k \in Nat : Shape(p, from, to, c, k)
    BY <1>3, PathShape
  <2>. DEFINE x == Len(from)
              y == Len(to)
              n == (x - c) + (y - c)
              z == n - k + 1
  <2>2. x \in Nat /\ y \in Nat
    BY <1>1 DEF InTree
  <2>3. /\ c \in 1..x /\ c < y /\ k \in 1..n /\ Len(p) = z
        /\ \A i \in 1..z : p[i] = Way(from, to, c, k + i - 1)
        /\ \A j \in (k + 1)..n : ~IsADF(Way(from, to, c, j))
    BY <2>1 DEF Shape
  <2>. HIDE DEF p
  <2>4. n \in Nat /\ z \in Nat /\ z >= 1
    <3>. HIDE DEF x, y
    <3>. QED  BY <2>2, <2>3
  <2>5. \A i \in 1..z : k + i - 1 \in Nat /\ k + i - 1 >= 1 /\ k + i - 1 <= n
    <3>. HIDE DEF n
    <3>. QED  BY <2>3, <2>4
  <2>6. \A i \in 1..z : OnWay(from, to, p[i])
    <3>1. ASSUME NEW i \in 1..z PROVE OnWay(from, to, p[i])
      <4>. DEFINE j == k + i - 1
      <4>1. j \in Nat /\ j >= 1 /\ j <= n /\ p[i] = Way(from, to, c, j)
        BY <2>3, <2>5
      <4>. HIDE DEF j
      <4>. QED  BY <2>3, <4>1, WayPlaces
    <3>. QED  BY <3>1
  <2>7. Way(from, to, c, n) = to
    <3>1. n >= 1 /\ n <= n
      <4>. HIDE DEF n
      <4>. QED  BY <2>3, <2>4
    <3>. QED  BY <2>3, <2>4, <3>1, WayPlaces
  <2>8. p[z] = to
    <3>1. k + z - 1 = n /\ z \in 1..z
      <4>. HIDE DEF n
      <4>. QED  BY <2>4
    <3>. QED  BY <2>3, <2>7, <3>1
  <2>9. IsADF(to) => z = 1
    <3>1. IsADF(to) => n \notin (k + 1)..n
      BY <2>3, <2>7
    <3>2. n \notin (k + 1)..n => z = 1
      <4>. HIDE DEF n
      <4>. QED  BY <2>3, <2>4
    <3>. QED  BY <3>1, <3>2
  <2>. HIDE DEF z
  <2>10. Leads(p, from, to)
    BY <1>3, <2>3, <2>4, <2>6, <2>8, <2>9 DEF Leads
  <2>. QED  BY <2>10 DEF p
<1>. QED  BY <1>2, <1>3

\* What is on the way is in the tree.
LEMMA OnWayInTree ==
    ASSUME NEW T, Rooted(T), NEW from \in T, NEW to \in T, NEW q, OnWay(from, to, q)
    PROVE  q \in T
<1>1. InTree(T, from) /\ InTree(T, to)
  BY TreeFile
<1>2. \A n \in 1..(Len(from) - 1) : n \in 1..Len(from)
  BY <1>1 DEF InTree
<1>. QED  BY <1>1, <1>2 DEF OnWay, InTree

\* The card can be taken from a to b with one command, if b is there.
Step(a, b) == b = MF \/ IsADF(b) \/ Near(get_cwd(a), b)

\* A way goes from each file to one the card selects next, and begins beside
\* the file it leads from.
Connected(p, from, to) ==
    /\ \/ p[1] = MF \/ IsADF(p[1]) \/ p[1] = Parent(from)
       \/ from # to /\ ~IsEF(from) /\ Parent(p[1]) = from
    /\ \A i \in 2..Len(p) : Step(p[i - 1], p[i])

\* Up or down by one.
LEMMA UpStep ==
    ASSUME NEW f \in Files, NEW n \in 1..Len(f), n > 1, n < Len(f)
    PROVE  Step(Prefix(f, n), Prefix(f, n - 1))
<1>1. InTree(Files, f)
  BY FilesRooted, TreeFile
<1>2. n \in 1..(Len(f) - 1) /\ n \in 0..Len(f) /\ n - 1 \in 0..n /\ n - 1 \in 1..n /\ f \in Paths
  BY <1>1 DEF InTree
<1>. DEFINE d == Prefix(f, n)
            b == Prefix(f, n - 1)
<1>3. get_cwd(d) = d
  BY <1>2, AboveNoEF
<1>4. Len(d) = n
  BY <1>2, PrefixOf
<1>5. b = Prefix(d, n - 1)
  BY <1>2, PrefixOfPrefix
<1>. HIDE DEF d, b
<1>6. Step(d, b)
  BY <1>2, <1>3, <1>4, <1>5 DEF Step, Near
<1>. QED  BY <1>6 DEF d, b

LEMMA DownStep ==
    ASSUME NEW f \in Files, NEW n \in 1..Len(f), n < Len(f)
    PROVE  Step(Prefix(f, n), Prefix(f, n + 1)) /\ Parent(Prefix(f, n + 1)) = Prefix(f, n)
<1>1. InTree(Files, f)
  BY FilesRooted, TreeFile
<1>2. n \in 1..(Len(f) - 1) /\ n + 1 \in 0..Len(f) /\ n \in 0..(n + 1) /\ f \in Paths /\ n + 1 > 1 /\ (n + 1) - 1 = n
  BY <1>1 DEF InTree
<1>. DEFINE d == Prefix(f, n)
            b == Prefix(f, n + 1)
<1>3. get_cwd(d) = d
  BY <1>2, AboveNoEF
<1>4. Len(b) = n + 1 /\ b \in Paths
  BY <1>2, PrefixOf
<1>5. Parent(b) = Prefix(b, (n + 1) - 1)
  BY <1>2, <1>4, ParentOf
<1>6. Prefix(b, n) = d
  BY <1>2, PrefixOfPrefix
<1>. HIDE DEF d, b
<1>7. Step(d, b) /\ Parent(b) = d
  BY <1>2, <1>3, <1>5, <1>6 DEF Step, Near
<1>. QED  BY <1>7 DEF d, b

LEMMA WayStep ==
    ASSUME NEW from \in Files, NEW to \in Files, NEW c \in Nat, NEW j \in Nat,
           c \in 1..Len(from), c < Len(to), Prefix(from, c) = Prefix(to, c),
           j >= 2, j <= (Len(from) - c) + (Len(to) - c)
    PROVE  Step(Way(from, to, c, j - 1), Way(from, to, c, j))
<1>. DEFINE x == Len(from)
            y == Len(to)
            u == x - c
            n == x - (j - 1)
            m == c + ((j - 1) - u)
<1>1. InTree(Files, from) /\ InTree(Files, to)
  BY FilesRooted, TreeFile
<1>2. /\ x \in Nat /\ y \in Nat /\ from \in Paths /\ to \in Paths
      /\ c \in 1..x /\ c < y /\ j <= (x - c) + (y - c)
  BY <1>1 DEF InTree
<1>3. CASE j <= u
  <2>1. n \in 1..x /\ n > 1 /\ n < x /\ n - 1 = x - j /\ j - 1 <= u
    <3>. HIDE DEF x, y
    <3>. QED  BY <1>2, <1>3
  <2>2. Way(from, to, c, j - 1) = Prefix(from, n)
    BY <2>1 DEF Way
  <2>3. Way(from, to, c, j) = Prefix(from, n - 1)
    BY <1>3, <2>1 DEF Way
  <2>. HIDE DEF n
  <2>. QED  BY <2>1, <2>2, <2>3, UpStep
<1>4. CASE ~(j <= u)
  <2>1. m \in 1..y /\ m < y /\ m + 1 = c + (j - u)
    <3>. HIDE DEF x, y
    <3>. QED  BY <1>2, <1>4
  <2>2. Way(from, to, c, j) = Prefix(to, m + 1)
    BY <1>4, <2>1 DEF Way
  <2>3. Way(from, to, c, j - 1) = Prefix(to, m)
    <3>1. CASE j - 1 <= u
      <4>1. x - (j - 1) = c /\ m = c
        <5>. HIDE DEF x, y
        <5>. QED  BY <1>2, <1>4, <3>1
      <4>. QED  BY <3>1, <4>1 DEF Way
    <3>2. CASE ~(j - 1 <= u)
      BY <3>2 DEF Way
    <3>. QED  BY <3>1, <3>2
  <2>. HIDE DEF m
  <2>. QED  BY <2>1, <2>2, <2>3, DownStep
<1>. QED  BY <1>3, <1>4

LEMMA PathConnected ==
    ASSUME NEW from \in Files, NEW to \in Files
    PROVE  Connected(PathTo(from, to), from, to)
<1>. DEFINE p == PathTo(from, to)
<1>1. InTree(Files, from) /\ InTree(Files, to)
  BY FilesRooted, TreeFile
<1>2. CASE to = MF
  <2>1. p = <<MF>>
    BY <1>2 DEF PathTo
  <2>2. Len(p) = 1 /\ p[1] = MF
    BY <2>1
  <2>. HIDE DEF p
  <2>3. Connected(p, from, to)
    BY <2>2 DEF Connected
  <2>. QED  BY <2>3 DEF p
<1>3. CASE to # MF
  <2>1. PICK c, k \in Nat : Shape(p, from, to, c, k)
    BY <1>3, FilesRooted, PathShape
  <2>. DEFINE x == Len(from)
              y == Len(to)
              n == (x - c) + (y - c)
              z == n - k + 1
  <2>2. x \in Nat /\ y \in Nat /\ from \in Paths /\ to \in Paths
    BY <1>1 DEF InTree
  <2>3. /\ c \in 1..x /\ c < y /\ k \in 1..n /\ Len(p) = z /\ Prefix(from, c) = Prefix(to, c)
        /\ \A i \in 1..z : p[i] = Way(from, to, c, k + i - 1)
        /\ k = 1 \/ IsADF(Way(from, to, c, k))
    BY <2>1 DEF Shape
  <2>. HIDE DEF p
  <2>4. n \in Nat /\ z \in Nat /\ z >= 1
    <3>. HIDE DEF x, y
    <3>. QED  BY <2>2, <2>3
  <2>5. \A i \in 2..Len(p) : Step(p[i - 1], p[i])
    <3>1. ASSUME NEW i \in 2..z PROVE Step(p[i - 1], p[i])
      <4>. DEFINE j == k + i - 1
      <4>1. j \in Nat /\ j >= 2 /\ j <= n /\ i \in 1..z /\ i - 1 \in 1..z /\ k + (i - 1) - 1 = j - 1
        <5>. HIDE DEF n
        <5>. QED  BY <2>3, <2>4
      <4>2. p[i] = Way(from, to, c, j) /\ p[i - 1] = Way(from, to, c, j - 1)
        BY <2>3, <4>1
      <4>. HIDE DEF j
      <4>. QED  BY <2>3, <4>1, <4>2, WayStep
    <3>. QED  BY <2>3, <3>1
  <2>6. p[1] = Way(from, to, c, k)
    <3>1. 1 \in 1..z /\ k + 1 - 1 = k
      <4>. HIDE DEF z
      <4>. QED  BY <2>3, <2>4
    <3>. QED  BY <2>3, <3>1
  <2>7. CASE k = 1 /\ 1 <= x - c
    <3>1. p[1] = Prefix(from, x - 1)
      BY <2>6, <2>7 DEF Way
    <3>2. x > 1
      <4>. HIDE DEF x, y
      <4>. QED  BY <2>2, <2>3, <2>7
    <3>3. p[1] = Parent(from)
      BY <2>2, <3>1, <3>2, ParentOf
    <3>. QED  BY <2>5, <3>3 DEF Connected, p
  <2>8. CASE k = 1 /\ ~(1 <= x - c)
    <3>1. x = c /\ c + (1 - (x - c)) = c + 1
      <4>. HIDE DEF x, y
      <4>. QED  BY <2>2, <2>3, <2>8
    <3>2. p[1] = Prefix(to, c + 1)
      BY <2>6, <2>8, <3>1 DEF Way
    <3>3. c \in 1..y /\ c \in 1..(y - 1)
      <4>. HIDE DEF x, y
      <4>. QED  BY <2>2, <2>3
    <3>4. Prefix(to, c) = from
      BY <2>2, <2>3, <3>1, WholePrefix
    <3>5. Parent(p[1]) = from
      BY <2>3, <3>2, <3>3, <3>4, DownStep
    <3>6. ~IsEF(from)
      BY <3>3, <3>4, AboveNoEF
    <3>7. from # to
      <4>1. x # y
        <5>. HIDE DEF x, y
        <5>. QED  BY <2>2, <2>3, <3>1
      <4>. QED  BY <4>1
    <3>. QED  BY <2>5, <3>5, <3>6, <3>7 DEF Connected, p
  <2>9. CASE k # 1
    <3>1. IsADF(p[1])
      BY <2>3, <2>6, <2>9
    <3>. QED  BY <2>5, <3>1 DEF Connected, p
  <2>. QED  BY <2>7, <2>8, <2>9
<1>. QED  BY <1>2, <1>3

\* So the card can be taken along it.
LEMMA FirstStep ==
    ASSUME NEW from \in Files, NEW to \in Files
    PROVE  Step(from, PathTo(from, to)[1])
<1>. DEFINE b == PathTo(from, to)[1]
            d == get_cwd(from)
<1>1. InTree(Files, from) /\ d \in Files
  BY FilesRooted, TreeFile, CwdOf
<1>2. InTree(Files, d)
  BY <1>1, FilesRooted, TreeFile
<1>3. b = MF \/ IsADF(b) \/ b = Parent(from) \/ (~IsEF(from) /\ Parent(b) = from)
  BY PathConnected DEF Connected
<1>. HIDE DEF b
<1>4. ASSUME b = Parent(from) PROVE Step(from, b)
  <2>1. CASE IsEF(from)
    <3>1. b = d /\ Len(d) \in 1..Len(d) /\ d = Prefix(d, Len(d))
      BY <1>2, <1>4, <2>1, WholePrefix DEF get_cwd, InTree
    <3>. HIDE DEF d
    <3>2. Near(d, b)
      BY <3>1 DEF Near
    <3>. QED  BY <3>2 DEF Step, d
  <2>2. CASE ~IsEF(from)
    <3>1. d = from
      BY <2>2 DEF get_cwd
    <3>2. CASE from = MF
      BY <1>4, <3>2, RootPath DEF Step
    <3>3. CASE from # MF
      <4>1. Len(from) \in Nat /\ Len(from) > 1 /\ from \in Paths
        BY <1>1, <3>3 DEF InTree
      <4>2. Len(from) - 1 \in 1..Len(from) /\ b = Prefix(from, Len(from) - 1)
        BY <1>4, <4>1, ParentOf
      <4>3. Near(from, b)
        BY <4>2 DEF Near
      <4>. QED  BY <3>1, <4>3 DEF Step
    <3>. QED  BY <3>2, <3>3
  <2>. QED  BY <2>1, <2>2
<1>5. ASSUME ~IsEF(from), Parent(b) = from PROVE Step(from, b)
  BY <1>5 DEF Step, Near, get_cwd
<1>6. Step(from, b)
  BY <1>3, <1>4, <1>5 DEF Step
<1>. QED  BY <1>6 DEF b

-----------------------------------------------------------------------------
(* The loop of select_file. *)

\* The state selection works on.
IsState(s) ==
    /\ s = [known |-> s.known, sel |-> s.sel, adf |-> s.adf, reg |-> s.reg, card |-> s.card, ok |-> s.ok]
    /\ Rooted(s.known) /\ HostFiles \subseteq s.known
    /\ s.sel \in s.known /\ s.adf \in s.known \cup {None}
    /\ s.card \in CardFiles \cup {None} /\ s.ok \in BOOLEAN

\* What it passes through along a path.
Stages(s) == [known : {s.known}, sel : s.known, adf : {s.adf}, reg : {s.reg \ {s.sel}},
              card : CardFiles \cup {None}, ok : BOOLEAN]

\* The stages one after the other, and how select_file ends after them.
Runs(at, s, path) ==
    /\ at \in [0..Len(path) -> Stages(s)]
    /\ at[0] = [s EXCEPT !.reg = @ \ {s.sel}]
    /\ \A i \in 1..Len(path) : at[i] = OneStep(at[i - 1], path[i], CardSelect(at[i - 1].card, path[i]))
Ended(at, s, path, g, late) ==
    IF g \in 1..Len(path)
    THEN [at[IF late THEN g ELSE g - 1] EXCEPT !.sel = s.sel, !.ok = FALSE]
    ELSE SelectPost(at[Len(path)], at[Len(path)].sel)

LEMMA StepType ==
    ASSUME NEW s, NEW b \in Stages(s), NEW f \in s.known
    PROVE  OneStep(b, f, CardSelect(b.card, f)) \in Stages(s)
<1>1. CardSelect(b.card, f) \in CardFiles \cup {None}
  BY CardType DEF Stages
<1>2. ASSUME NEW c \in CardFiles \cup {None} PROVE OneStep(b, f, c) \in Stages(s)
  BY DEF OneStep, Stages
<1>. QED  BY <1>1, <1>2

\* The loop over a path, which is of any length, is defined.
LEMMA AlongRuns ==
    ASSUME NEW s, IsState(s), NEW path, Len(path) \in Nat, \A i \in 1..Len(path) : path[i] \in s.known
    PROVE  \E at : Runs(at, s, path) /\ \A g, late : GoAlong(s, path, g, late) = Ended(at, s, path, g, late)
<1>. DEFINE n == Len(path)
            V == Stages(s)
            b == [s EXCEPT !.reg = @ \ {s.sel}]
            One(acc, i) == OneStep(acc, path[i], CardSelect(acc.card, path[i]))
            G == [p \in V \X (1..n) |-> One(p[1], p[2])]
            Body(f) == [i \in 0..n |-> IF i = 0 THEN b ELSE One(f[i - 1], i)]
            at == CHOOSE f : f = Body(f)
<1>1. b \in V
  BY DEF IsState, Stages
<1>2. ASSUME NEW acc \in V, NEW i \in 1..n PROVE One(acc, i) \in V
  BY StepType
<1>3. PICK f \in [0..n -> V] : f[0] = b /\ \A i \in 1..n : f[i] = G[<<f[i - 1], i>>]
  <2>. HIDE DEF V, b, n, One
  <2>1. G \in [V \X (1..n) -> V]
    BY <1>2
  <2>2. \E f : Unfolds(f, n, V, b, G)
    <3>1. n \in Nat
      BY DEF n
    <3>. HIDE DEF G
    <3>. QED  BY <1>1, <2>1, <3>1, Recursion
  <2>. HIDE DEF G
  <2>. QED  BY <2>2 DEF Unfolds
<1>. HIDE DEF V, b, One
<1>4. f = Body(f)
  <2>1. \A i \in 1..n : f[i] = One(f[i - 1], i)
    <3>1. ASSUME NEW i \in 1..n
          PROVE  G[<<f[i - 1], i>>] = One(f[i - 1], i)
      <4>1. i - 1 \in 0..n
        BY DEF n
      <4>2. f[i - 1] \in V
        BY <1>3, <4>1
      <4>. DEFINE p == <<f[i - 1], i>>
      <4>3. p \in V \X (1..n) /\ p[1] = f[i - 1] /\ p[2] = i
        BY <4>2
      <4>. HIDE DEF p
      <4>4. G[p] = One(p[1], p[2])
        BY <4>3
      <4>. QED  BY <4>3, <4>4 DEF p
    <3>. HIDE DEF G
    <3>. QED  BY <1>3, <3>1
  <2>. QED  BY <1>3, <2>1
<1>5. at = Body(at)
  <2>. HIDE DEF Body
  <2>. QED  BY <1>4
<1>6. \A g, late : GoAlong(s, path, g, late) = Ended(at, s, path, g, late)
  BY DEF GoAlong, Ended, One, b
<1>7. at[0] = b /\ \A i \in 1..n : at[i] = One(at[i - 1], i)
  <2>. HIDE DEF at
  <2>. QED  BY <1>5
<1>8. DOMAIN at = 0..n /\ at = [i \in 0..n |-> at[i]]
  <2>. HIDE DEF at
  <2>. QED  BY <1>5
<1>. HIDE DEF at
<1>. DEFINE Q == {k \in Nat : k <= n => at[k] \in V}
<1>9. 0 \in Q
  BY <1>1, <1>7
<1>10. ASSUME NEW k \in Nat, k \in Q PROVE k + 1 \in Q
  <2>1. CASE k + 1 <= n
    <3>1. k + 1 \in 1..n /\ (k + 1) - 1 = k /\ at[k] \in V
      BY <1>10, <2>1
    <3>2. at[k + 1] = One(at[k], k + 1)
      BY <1>7, <3>1
    <3>. QED  BY <1>2, <3>1, <3>2
  <2>2. CASE ~(k + 1 <= n)
    BY <2>2
  <2>. QED  BY <2>1, <2>2
<1>11. Nat \subseteq Q
  <2>. HIDE DEF Q
  <2>. QED  BY <1>9, <1>10, SetInduction
<1>12. at \in [0..n -> V]
  <2>1. \A k \in 0..n : at[k] \in V
    BY <1>11
  <2>. QED  BY <1>8, <2>1
<1>13. Runs(at, s, path)
  BY <1>7, <1>12 DEF Runs, V, b, One
<1>. QED  BY <1>6, <1>13

\* Induction over the positions of a path.
LEMMA UpTo ==
    ASSUME NEW n \in Nat, NEW Q, 0 \in Q, \A k \in Nat : k < n /\ k \in Q => k + 1 \in Q
    PROVE  n \in Q
<1>. DEFINE S == {k \in Nat : k <= n => k \in Q}
<1>1. 0 \in S
  OBVIOUS
<1>2. \A k \in Nat : k \in S => k + 1 \in S
  OBVIOUS
<1>3. n \in S
  <2>. HIDE DEF S
  <2>. QED  BY <1>1, <1>2, SetInduction
<1>. QED  BY <1>3

\* Two fields of a state are changed.
LEMMA PutSelAdf ==
    ASSUME NEW b, NEW f, NEW y,
           b = [known |-> b.known, sel |-> b.sel, adf |-> b.adf, reg |-> b.reg, card |-> b.card, ok |-> b.ok]
    PROVE  [b EXCEPT !.sel = f, !.adf = y]
             = [known |-> b.known, sel |-> f, adf |-> y, reg |-> b.reg, card |-> b.card, ok |-> b.ok]
<1>. DEFINE R == [known : {b.known}, sel : {b.sel, f}, adf : {b.adf, y}, reg : {b.reg}, card : {b.card}, ok : {b.ok}]
            a == [b EXCEPT !.sel = f]
            d == [a EXCEPT !.adf = y]
            e == [known |-> b.known, sel |-> f, adf |-> y, reg |-> b.reg, card |-> b.card, ok |-> b.ok]
<1>1. b \in R
  OBVIOUS
<1>2. a \in R /\ a.sel = f /\ a.adf = b.adf
  BY <1>1
<1>3. d \in R /\ d.sel = f /\ d.adf = y
  <2>. HIDE DEF a
  <2>. QED  BY <1>2
<1>4. [b EXCEPT !.sel = f, !.adf = y] = d
  OBVIOUS
<1>5. d = e
  <2>. HIDE DEF d
  <2>. QED  BY <1>3
<1>. QED  BY <1>4, <1>5

\* _select_post
Posted(b, f, r) ==
    /\ IsState(r)
    /\ r.known = b.known /\ r.sel = f /\ r.card = b.card
    /\ r.adf = IF IsADF(f) THEN f ELSE b.adf
    /\ r.ok => b.ok
    /\ b.ok /\ b.reg = {} => r.ok /\ r.reg = {f}

LEMMA PostOutcome ==
    ASSUME NEW b, IsState(b), NEW f \in b.known
    PROVE  Posted(b, f, SelectPost(b, f))
<1>. DEFINE a == [b EXCEPT !.sel = f, !.adf = IF IsADF(f) THEN f ELSE @]
            x == IF IsADF(f) THEN f ELSE b.adf
<1>1. a = [known |-> b.known, sel |-> f, adf |-> x, reg |-> b.reg, card |-> b.card, ok |-> b.ok]
  <2>1. b = [known |-> b.known, sel |-> b.sel, adf |-> b.adf, reg |-> b.reg, card |-> b.card, ok |-> b.ok]
    BY DEF IsState
  <2>2. a = [b EXCEPT !.sel = f, !.adf = x]
    OBVIOUS
  <2>. HIDE DEF a, x
  <2>. QED  BY <2>1, <2>2, PutSelAdf
<1>2. x \in b.known \cup {None}
  BY DEF IsState
<1>. HIDE DEF a, x
<1>3. CASE \E h \in a.reg : CmdType(h) = CmdType(a.sel)
  <2>1. SelectPost(b, f) = [known |-> b.known, sel |-> f, adf |-> x, reg |-> b.reg, card |-> b.card, ok |-> FALSE]
    BY <1>1, <1>3 DEF SelectPost, Registered, a
  <2>2. b.reg # {}
    BY <1>1, <1>3
  <2>. QED  BY <1>2, <2>1, <2>2 DEF Posted, IsState, x
<1>4. CASE ~(\E h \in a.reg : CmdType(h) = CmdType(a.sel))
  <2>1. SelectPost(b, f) = [known |-> b.known, sel |-> f, adf |-> x, reg |-> b.reg \cup {f}, card |-> b.card, ok |-> b.ok]
    BY <1>1, <1>4 DEF SelectPost, Registered, a
  <2>. QED  BY <1>2, <2>1 DEF Posted, IsState, x
<1>. QED  BY <1>3, <1>4

\* A stage is a state.
LEMMA StageState ==
    ASSUME NEW s, IsState(s), NEW b \in Stages(s)
    PROVE  /\ IsState(b) /\ b.known = s.known /\ b.adf = s.adf /\ b.reg = s.reg \ {s.sel}
           /\ b.sel \in s.known
<1>1. b = [known |-> b.known, sel |-> b.sel, adf |-> b.adf, reg |-> b.reg, card |-> b.card, ok |-> b.ok]
  BY DEF Stages
<1>2. /\ b.known = s.known /\ b.adf = s.adf /\ b.reg = s.reg \ {s.sel} /\ b.sel \in s.known
      /\ b.card \in CardFiles \cup {None} /\ b.ok \in BOOLEAN
  BY DEF Stages
<1>. QED  BY <1>1, <1>2 DEF IsState

\* The fields after a step of the loop.
Stepped(b, f, c, a) ==
    /\ ~b.ok \/ c = None => a.card = b.card /\ a.sel = b.sel /\ a.ok = FALSE
    /\ b.ok /\ c # None => a.card = c /\ a.sel = f /\ a.ok = TRUE

LEMMA StepFields ==
    ASSUME NEW s, NEW b \in Stages(s), NEW f, NEW c
    PROVE  Stepped(b, f, c, OneStep(b, f, c))
BY DEF Stages, OneStep, Stepped

\* How a selection ends, wherever the card was: the application is the one that
\* is selected or the one before, and a link error leaves the host where it was.
Outcome(s, f, g, r) ==
    /\ IsState(r) /\ r.known = s.known
    /\ g \in 1..Len(PathTo(s.sel, f)) => r.sel = s.sel /\ r.adf = s.adf /\ ~r.ok
    /\ g \notin 1..Len(PathTo(s.sel, f)) =>
         /\ r.adf = IF IsADF(r.sel) THEN r.sel ELSE s.adf
         /\ r.sel = s.sel \/ (IsADF(r.sel) /\ r.sel \in Files => r.sel \in CardFiles)
         /\ r.ok => r.sel = f

LEMMA GoOutcome ==
    ASSUME NEW s, IsState(s), NEW f \in s.known, NEW g, NEW late \in BOOLEAN
    PROVE  Outcome(s, f, g, Go(s, f, g, late))
<1>. DEFINE p == PathTo(s.sel, f)
            n == Len(p)
            r == Go(s, f, g, late)
<1>1. Rooted(s.known) /\ s.sel \in s.known
  BY DEF IsState
<1>2. Leads(p, s.sel, f)
  BY <1>1, PathLeads
<1>3. n \in Nat /\ n >= 1 /\ p[n] = f /\ \A i \in 1..n : p[i] \in s.known
  BY <1>1, <1>2, OnWayInTree DEF Leads
<1>. HIDE DEF p
<1>4. PICK at : Runs(at, s, p) /\ GoAlong(s, p, g, late) = Ended(at, s, p, g, late)
  BY <1>3, AlongRuns
<1>5. r = Ended(at, s, p, g, late)
  BY <1>4 DEF Go, p
<1>6. \A k \in 0..n : at[k] \in Stages(s)
  BY <1>4 DEF Runs
<1>. HIDE DEF r
<1>7. CASE g \in 1..n
  <2>. DEFINE m == IF late THEN g ELSE g - 1
  <2>1. m \in 0..n
    BY <1>3, <1>7
  <2>. HIDE DEF m
  <2>2. at[m] \in Stages(s)
    BY <1>6, <2>1
  <2>3. r = [at[m] EXCEPT !.sel = s.sel, !.ok = FALSE]
    BY <1>5, <1>7 DEF Ended, m
  <2>. DEFINE b == at[m]
  <2>4. /\ IsState(b) /\ b.known = s.known /\ b.adf = s.adf
    BY <2>2, StageState
  <2>. HIDE DEF b
  <2>5. r = [b EXCEPT !.sel = s.sel, !.ok = FALSE]
    BY <2>3 DEF b
  <2>6. r = [known |-> s.known, sel |-> s.sel, adf |-> s.adf, reg |-> b.reg, card |-> b.card, ok |-> FALSE]
    BY <2>4, <2>5 DEF IsState
  <2>7. b.card \in CardFiles \cup {None}
    BY <2>4 DEF IsState
  <2>8. IsState(r) /\ r.known = s.known /\ r.sel = s.sel /\ r.adf = s.adf /\ ~r.ok
    BY <2>6, <2>7 DEF IsState
  <2>. QED  BY <1>7, <2>8 DEF Outcome, p, r
<1>8. CASE g \notin 1..n
  <2>. DEFINE P(b, k) == /\ b.sel = s.sel \/ (IsADF(b.sel) /\ b.sel \in Files => b.sel \in CardFiles)
                         /\ k >= 1 /\ b.ok => b.sel = p[k]
              Q == {k \in Nat : k <= n => P(at[k], k)}
  <2>1. 0 \in Q
    <3>1. at[0].sel = s.sel
      BY <1>4 DEF Runs, IsState
    <3>. QED  BY <3>1
  <2>2. ASSUME NEW k \in Nat, k < n, k \in Q PROVE k + 1 \in Q
    <3>. DEFINE b == at[k]
                q == p[k + 1]
                c == CardSelect(b.card, q)
                a == at[k + 1]
    <3>1. k + 1 \in 1..n /\ (k + 1) - 1 = k /\ k \in 0..n /\ k <= n
      BY <1>3, <2>2
    <3>2. a = OneStep(b, q, c) /\ b \in Stages(s) /\ P(b, k)
      BY <1>4, <1>6, <2>2, <3>1 DEF Runs
    <3>6. Stepped(b, q, c, a)
      BY <3>2, StepFields
    <3>3. CASE ~b.ok \/ c = None
      <4>1. a.sel = b.sel /\ a.ok = FALSE
        BY <3>3, <3>6 DEF Stepped
      <4>. QED  BY <3>2, <4>1
    <3>4. CASE b.ok /\ c # None
      <4>1. a.sel = q
        BY <3>4, <3>6 DEF Stepped
      <4>2. IsADF(q) /\ q \in Files => q \in CardFiles
        BY <3>4, AppPlace DEF CardSelect
      <4>. HIDE DEF a, q
      <4>3. P(a, k + 1)
        BY <4>1, <4>2 DEF q
      <4>. QED  BY <4>3 DEF a
    <3>5. b.ok \in BOOLEAN
      BY <3>2 DEF Stages
    <3>. QED  BY <3>3, <3>4, <3>5
  <2>3. n \in Q
    <3>. HIDE DEF Q, n
    <3>. QED  BY <1>3, <2>1, <2>2, UpTo
  <2>4. P(at[n], n)
    BY <1>3, <2>3
  <2>. DEFINE b == at[n]
  <2>5. r = SelectPost(b, b.sel)
    BY <1>5, <1>8 DEF Ended
  <2>6. b \in Stages(s)
    BY <1>3, <1>6
  <2>. HIDE DEF b
  <2>7. IsState(b) /\ b.known = s.known /\ b.adf = s.adf /\ b.sel \in s.known
    BY <2>6, StageState
  <2>8. Posted(b, b.sel, r)
    BY <2>5, <2>7, PostOutcome
  <2>9. P(b, n)
    BY <2>4 DEF b
  <2>10. r.ok => r.sel = f
    BY <1>3, <2>8, <2>9 DEF Posted
  <2>11. r.sel = s.sel \/ (IsADF(r.sel) /\ r.sel \in Files => r.sel \in CardFiles)
    BY <2>8, <2>9 DEF Posted
  <2>12. /\ IsState(r) /\ r.known = s.known /\ r.adf = IF IsADF(r.sel) THEN r.sel ELSE s.adf
    BY <2>7, <2>8 DEF Posted
  <2>. QED  BY <1>8, <2>10, <2>11, <2>12 DEF Outcome, p, r
<1>. QED  BY <1>7, <1>8

\* The stages of a selection whose link does not fail.
Staged(at, s, f, r) ==
    LET p == PathTo(s.sel, f)
    IN  /\ Len(p) \in Nat /\ Len(p) >= 1 /\ p[Len(p)] = f
        /\ \A k \in 0..Len(p) : at[k] \in Stages(s)
        /\ at[0].card = s.card /\ at[0].sel = s.sel /\ at[0].ok = s.ok
        /\ \A k \in 1..Len(p) : Stepped(at[k - 1], p[k], CardSelect(at[k - 1].card, p[k]), at[k])
        /\ Posted(at[Len(p)], at[Len(p)].sel, r)

LEMMA GoStages ==
    ASSUME NEW s, IsState(s), NEW f \in s.known, NEW g, g \notin 1..Len(PathTo(s.sel, f)), NEW late \in BOOLEAN
    PROVE  \E at : Staged(at, s, f, Go(s, f, g, late))
<1>. DEFINE p == PathTo(s.sel, f)
            n == Len(p)
            r == Go(s, f, g, late)
<1>1. Rooted(s.known) /\ s.sel \in s.known
  BY DEF IsState
<1>2. Leads(p, s.sel, f)
  BY <1>1, PathLeads
<1>3. n \in Nat /\ n >= 1 /\ p[n] = f /\ \A i \in 1..n : p[i] \in s.known
  BY <1>1, <1>2, OnWayInTree DEF Leads
<1>9. g \notin 1..n
  OBVIOUS
<1>. HIDE DEF p
<1>4. PICK at : Runs(at, s, p) /\ GoAlong(s, p, g, late) = Ended(at, s, p, g, late)
  BY <1>3, AlongRuns
<1>5. r = Ended(at, s, p, g, late)
  BY <1>4 DEF Go, p
<1>6. \A k \in 0..n : at[k] \in Stages(s)
  BY <1>4 DEF Runs
<1>7. \A k \in 1..n : Stepped(at[k - 1], p[k], CardSelect(at[k - 1].card, p[k]), at[k])
  <2>. TAKE k \in 1..n
  <2>1. k - 1 \in 0..n
    BY <1>3
  <2>. DEFINE b == at[k - 1]
              c == CardSelect(b.card, p[k])
  <2>2. b \in Stages(s) /\ at[k] = OneStep(b, p[k], c)
    BY <1>4, <1>6, <2>1 DEF Runs
  <2>. HIDE DEF b, c
  <2>3. Stepped(b, p[k], c, at[k])
    BY <2>2, StepFields
  <2>. QED  BY <2>3 DEF b, c
<1>8. at[0].card = s.card /\ at[0].sel = s.sel /\ at[0].ok = s.ok
  BY <1>4 DEF Runs, IsState
<1>. HIDE DEF r
<1>10. Posted(at[n], at[n].sel, r)
  <2>. DEFINE b == at[n]
  <2>1. r = SelectPost(b, b.sel)
    BY <1>5, <1>9 DEF Ended
  <2>2. b \in Stages(s)
    BY <1>3, <1>6
  <2>. HIDE DEF b
  <2>3. IsState(b) /\ b.sel \in b.known
    BY <2>2, StageState
  <2>4. Posted(b, b.sel, r)
    BY <2>1, <2>3, PostOutcome
  <2>. QED  BY <2>4 DEF b
<1>11. Staged(at, s, f, r)
  BY <1>3, <1>6, <1>7, <1>8, <1>10 DEF Staged, p
<1>. QED  BY <1>11 DEF r

\* A way whose first file the card does not answer leads nowhere.
LEMMA GoStuck ==
    ASSUME NEW s, IsState(s), NEW f \in s.known, NEW g, g \notin 1..Len(PathTo(s.sel, f)), NEW late \in BOOLEAN,
           CardSelect(s.card, PathTo(s.sel, f)[1]) = None
    PROVE  LET r == Go(s, f, g, late) IN r.card = s.card /\ r.sel = s.sel /\ ~r.ok
<1>. DEFINE p == PathTo(s.sel, f)
            n == Len(p)
            r == Go(s, f, g, late)
<1>1. PICK at : Staged(at, s, f, r)
  BY GoStages
<1>. HIDE DEF r
<1>2. n \in Nat /\ n >= 1
  BY <1>1 DEF Staged
<1>. DEFINE P(b, k) == b.card = s.card /\ b.sel = s.sel /\ (k >= 1 => b.ok = FALSE)
            Q == {k \in Nat : k <= n => P(at[k], k)}
<1>3. 0 \in Q
  BY <1>1 DEF Staged
<1>4. ASSUME NEW k \in Nat, k < n, k \in Q PROVE k + 1 \in Q
  <2>. DEFINE b == at[k]
              q == p[k + 1]
              c == CardSelect(b.card, q)
              a == at[k + 1]
  <2>1. k + 1 \in 1..n /\ (k + 1) - 1 = k /\ k \in 0..n /\ k <= n
    BY <1>2, <1>4
  <2>2. Stepped(b, q, c, a)
    BY <1>1, <2>1 DEF Staged
  <2>3. P(b, k) /\ b \in Stages(s)
    BY <1>1, <1>4, <2>1 DEF Staged
  <2>4. k = 0 => c = None
    BY <2>3
  <2>5. ~b.ok \/ c = None
    BY <2>3, <2>4
  <2>. HIDE DEF a, b, c, q
  <2>6. a.card = b.card /\ a.sel = b.sel /\ a.ok = FALSE
    BY <2>2, <2>5 DEF Stepped
  <2>. QED  BY <2>3, <2>6 DEF a
<1>5. n \in Q
  <2>. HIDE DEF Q, n
  <2>. QED  BY <1>2, <1>3, <1>4, UpTo
<1>6. P(at[n], n)
  BY <1>2, <1>5
<1>7. Posted(at[n], at[n].sel, r)
  BY <1>1 DEF Staged
<1>. HIDE DEF n, p
<1>8. r.card = s.card /\ r.sel = s.sel /\ ~r.ok
  BY <1>2, <1>6, <1>7 DEF Posted, IsState
<1>. QED  BY <1>8 DEF r

\* A way whose first file the card answers ends with the host where the card
\* is, also when the card stops answering on it.
LEMMA GoMoves ==
    ASSUME NEW s, IsState(s), s.ok, s.known \subseteq Files, NEW f \in s.known,
           NEW g, g \notin 1..Len(PathTo(s.sel, f)), NEW late \in BOOLEAN,
           s.card \in CardFiles, Step(s.card, PathTo(s.sel, f)[1]), CardSelect(s.card, PathTo(s.sel, f)[1]) # None
    PROVE  LET r == Go(s, f, g, late) IN r.card = r.sel /\ r.card \in CardFiles
<1>. DEFINE p == PathTo(s.sel, f)
            n == Len(p)
            r == Go(s, f, g, late)
<1>1. PICK at : Staged(at, s, f, r)
  BY GoStages
<1>. HIDE DEF r
<1>2. n \in Nat /\ n >= 1
  BY <1>1 DEF Staged
<1>3. Connected(p, s.sel, f)
  BY PathConnected DEF IsState
<1>4. \A i \in 1..n : p[i] \in Files
  <2>1. Rooted(s.known) /\ s.sel \in s.known
    BY DEF IsState
  <2>. QED  BY <2>1, PathLeads, OnWayInTree DEF Leads
<1>. DEFINE P(b, k) == /\ k = 0 => b.ok = TRUE /\ b.card = s.card
                       /\ k >= 1 => b.card = b.sel /\ b.card \in CardFiles
                       /\ k >= 1 /\ b.ok => b.sel = p[k]
            Q == {k \in Nat : k <= n => P(at[k], k)}
<1>5. 0 \in Q
  <2>1. s.ok = TRUE /\ at[0].ok = s.ok /\ at[0].card = s.card
    BY <1>1 DEF Staged, IsState
  <2>2. at[0].ok = TRUE
    BY <2>1
  <2>3. P(at[0], 0)
    BY <2>1, <2>2
  <2>. HIDE DEF P
  <2>. QED  BY <2>3
<1>6. ASSUME NEW k \in Nat, k < n, k \in Q PROVE k + 1 \in Q
  <2>. DEFINE b == at[k]
              q == p[k + 1]
              c == CardSelect(b.card, q)
              a == at[k + 1]
  <2>1. k + 1 \in 1..n /\ (k + 1) - 1 = k /\ k \in 0..n /\ k <= n /\ (k >= 1 => k + 1 \in 2..n)
    BY <1>2, <1>6
  <2>2. Stepped(b, q, c, a)
    BY <1>1, <2>1 DEF Staged
  <2>3. P(b, k) /\ b \in Stages(s)
    BY <1>1, <1>6, <2>1 DEF Staged
  <2>4. b.ok \in BOOLEAN
    BY <2>3 DEF Stages
  <2>5. q \in Files
    BY <1>4, <2>1
  <2>6. k = 0 => c # None
    BY <2>3
  <2>7. b.ok => Step(b.card, q) /\ b.card \in CardFiles
    <3>1. CASE k = 0
      BY <2>3, <3>1
    <3>2. CASE k >= 1
      <4>1. k + 1 \in 2..n /\ (k + 1) - 1 = k
        BY <2>1, <3>2
      <4>2. Step(p[k], q)
        BY <1>3, <4>1 DEF Connected
      <4>. QED  BY <2>3, <3>2, <4>2
    <3>. QED  BY <3>1, <3>2
  <2>8. b.ok => c = None \/ (c = q /\ q \in CardFiles)
    BY <2>5, <2>7, CardAnswers DEF Step
  <2>9. P(a, k + 1)
    <3>. HIDE DEF a, b, c, q
    <3>1. CASE b.ok /\ c # None
      <4>1. a.card = q /\ a.sel = q /\ q \in CardFiles
        BY <2>2, <2>8, <3>1 DEF Stepped
      <4>. QED  BY <4>1 DEF q
    <3>2. CASE ~(b.ok /\ c # None)
      <4>1. a.card = b.card /\ a.sel = b.sel /\ a.ok = FALSE
        BY <2>2, <2>4, <3>2 DEF Stepped
      <4>2. k >= 1
        BY <2>3, <2>6, <3>2
      <4>. QED  BY <2>3, <4>1, <4>2
    <3>. QED  BY <3>1, <3>2
  <2>. QED  BY <2>9
<1>7. n \in Q
  <2>. HIDE DEF Q, n
  <2>. QED  BY <1>2, <1>5, <1>6, UpTo
<1>8. P(at[n], n)
  BY <1>2, <1>7
<1>9. Posted(at[n], at[n].sel, r)
  BY <1>1 DEF Staged
<1>. HIDE DEF n, p
<1>10. r.card = r.sel /\ r.card \in CardFiles
  BY <1>2, <1>8, <1>9 DEF Posted
<1>. QED  BY <1>10 DEF r

\* A way of one file that the card answers: nothing but a command set that is
\* still installed can refuse it.
Answered(s, f, r) ==
    /\ r.sel = f /\ r.card = CardSelect(s.card, f)
    /\ s.reg \ {s.sel} = {} => r.ok /\ r.reg = {f}

LEMMA GoOne ==
    ASSUME NEW s, IsState(s), s.ok, NEW f \in s.known,
           NEW g, g \notin 1..Len(PathTo(s.sel, f)), NEW late \in BOOLEAN,
           f = MF \/ IsADF(f), CardSelect(s.card, f) # None
    PROVE  Answered(s, f, Go(s, f, g, late))
<1>. DEFINE p == PathTo(s.sel, f)
            r == Go(s, f, g, late)
            c == CardSelect(s.card, f)
<1>1. PICK at : Staged(at, s, f, r)
  BY GoStages
<1>. HIDE DEF r
<1>2. Len(p) = 1
  <2>1. Rooted(s.known) /\ s.sel \in s.known
    BY DEF IsState
  <2>. QED  BY <2>1, PathLeads DEF Leads
<1>3. p[1] = f /\ at[0].card = s.card /\ at[0].ok = s.ok /\ at[1] \in Stages(s)
  BY <1>1, <1>2 DEF Staged
<1>4. Stepped(at[0], p[1], CardSelect(at[0].card, p[1]), at[1])
  <2>1. 1 \in 1..Len(p) /\ 1 - 1 = 0
    BY <1>2
  <2>. QED  BY <1>1, <2>1 DEF Staged
<1>. DEFINE b == at[1]
<1>5. b.card = c /\ b.sel = f /\ b.ok = TRUE
  BY <1>3, <1>4 DEF Stepped, IsState
<1>6. b.reg = s.reg \ {s.sel}
  BY <1>3 DEF Stages
<1>7. Posted(b, b.sel, r)
  BY <1>1, <1>2 DEF Staged
<1>. HIDE DEF b, c
<1>8. r.sel = f /\ r.card = c /\ (s.reg \ {s.sel} = {} => r.ok /\ r.reg = {f})
  BY <1>5, <1>6, <1>7 DEF Posted
<1>. QED  BY <1>8 DEF r, c, Answered

\* No file is selected on a closed channel.
LEMMA GoClosed ==
    ASSUME NEW s, IsState(s), NEW f \in s.known, NEW g, NEW late \in BOOLEAN, s.card = None
    PROVE  Go(s, f, g, late).card = None
<1>. DEFINE p == PathTo(s.sel, f)
            n == Len(p)
            r == Go(s, f, g, late)
<1>1. Rooted(s.known) /\ s.sel \in s.known
  BY DEF IsState
<1>2. Leads(p, s.sel, f)
  BY <1>1, PathLeads
<1>3. n \in Nat /\ n >= 1 /\ \A i \in 1..n : p[i] \in s.known
  BY <1>1, <1>2, OnWayInTree DEF Leads
<1>4. CASE g \notin 1..n
  <2>1. CardSelect(s.card, p[1]) = None
    BY CardClosed
  <2>. QED  BY <1>4, <2>1, GoStuck
<1>5. CASE g \in 1..n
  <2>. HIDE DEF p
  <2>1. PICK at : Runs(at, s, p) /\ GoAlong(s, p, g, late) = Ended(at, s, p, g, late)
    BY <1>3, AlongRuns
  <2>2. r = Ended(at, s, p, g, late)
    BY <2>1 DEF Go, p
  <2>3. at[0].card = None
    BY <2>1 DEF Runs, IsState
  <2>4. ASSUME NEW k \in 0..n PROVE at[k].card = None
    <3>. DEFINE Q == {j \in Nat : j <= n => at[j].card = None}
    <3>1. 0 \in Q
      BY <2>3
    <3>2. ASSUME NEW j \in Nat, j < k, j \in Q PROVE j + 1 \in Q
      <4>1. j + 1 \in 1..n /\ (j + 1) - 1 = j /\ j \in 0..n /\ j <= n
        BY <1>3, <3>2
      <4>. DEFINE b == at[j]
                  c == CardSelect(b.card, p[j + 1])
      <4>2. b.card = None /\ b \in Stages(s) /\ at[j + 1] = OneStep(b, p[j + 1], c)
        BY <2>1, <3>2, <4>1 DEF Runs
      <4>3. c = None
        BY <4>2, CardClosed
      <4>. HIDE DEF b, c
      <4>4. Stepped(b, p[j + 1], c, at[j + 1])
        BY <4>2, StepFields
      <4>. QED  BY <4>2, <4>3, <4>4 DEF Stepped
    <3>3. k \in Nat /\ k <= n
      BY <1>3
    <3>4. k \in Q
      <4>. HIDE DEF Q, n
      <4>. QED  BY <3>1, <3>2, <3>3, UpTo
    <3>. QED  BY <3>3, <3>4
  <2>. DEFINE m == IF late THEN g ELSE g - 1
              b == at[m]
  <2>5. m \in 0..n
    BY <1>3, <1>5
  <2>6. r = [b EXCEPT !.sel = s.sel, !.ok = FALSE]
    BY <1>5, <2>2 DEF Ended
  <2>7. b.card = None /\ b \in Stages(s)
    BY <2>1, <2>4, <2>5 DEF Runs
  <2>. HIDE DEF b
  <2>8. r.card = b.card
    BY <2>6, <2>7 DEF Stages
  <2>. QED  BY <2>7, <2>8
<1>. QED  BY <1>4, <1>5

-----------------------------------------------------------------------------
(* select_file. *)

\* Another flag.
Flagged(r, v, q) ==
    /\ IsState(q) /\ q.known = r.known /\ q.sel = r.sel /\ q.adf = r.adf /\ q.reg = r.reg /\ q.card = r.card
    /\ q.ok = v

LEMMA PutOk ==
    ASSUME NEW r, IsState(r), NEW v \in BOOLEAN
    PROVE  Flagged(r, v, [r EXCEPT !.ok = v])
<1>1. r = [known |-> r.known, sel |-> r.sel, adf |-> r.adf, reg |-> r.reg, card |-> r.card, ok |-> r.ok]
  BY DEF IsState
<1>2. [r EXCEPT !.ok = v] = [known |-> r.known, sel |-> r.sel, adf |-> r.adf, reg |-> r.reg, card |-> r.card, ok |-> v]
  BY <1>1
<1>. QED  BY <1>2 DEF IsState, Flagged

\* An application without files.
Bare(a) == a # None /\ ~HasFs(a)

\* What the host knows of the application it is in: in one without files no
\* other file is selected.
Settled(s) ==
    /\ Bare(s.adf) => IsADF(s.adf) /\ s.sel = s.adf /\ s.adf \in CardFiles
    /\ IsADF(s.sel) /\ ~HasFs(s.sel) => s.adf = s.sel

\* The card and the host agree.
Sound(s) == Settled(s) /\ s.card = s.sel /\ s.card \in CardFiles

LEMMA FlagSound ==
    ASSUME NEW r, NEW q, NEW v, Flagged(r, v, q), Sound(r)
    PROVE  Sound(q)
BY DEF Flagged, Sound, Settled

LEMMA FlagSettled ==
    ASSUME NEW r, NEW q, NEW v, Flagged(r, v, q), Settled(r)
    PROVE  Settled(q)
BY DEF Flagged, Settled

\* The way to an application is that application.
LEMMA WayToApp ==
    ASSUME NEW T, Rooted(T), NEW from \in T, NEW to \in T, IsADF(to)
    PROVE  PathTo(from, to)[1] = to
<1>. DEFINE p == PathTo(from, to)
<1>1. Leads(p, from, to)
  BY PathLeads
<1>. HIDE DEF p
<1>2. Len(p) = 1 /\ p[Len(p)] = to
  BY <1>1 DEF Leads
<1>3. p[1] = to
  BY <1>2
<1>. QED  BY <1>3 DEF p

\* A selection that does not begin in an application without files, or leads to
\* an application, keeps what the host knows of it, wherever the card is.
LEMMA GoSettles ==
    ASSUME NEW s, IsState(s), s.ok, s.known \subseteq Files, Settled(s), NEW f \in s.known, NEW g, NEW late \in BOOLEAN,
           IsADF(f) \/ ~Bare(s.adf)
    PROVE  Settled(Go(s, f, g, late))
<1>. DEFINE p == PathTo(s.sel, f)
            r == Go(s, f, g, late)
<1>. SUFFICES Settled(r)
  OBVIOUS
<1>1. Outcome(s, f, g, r)
  BY GoOutcome
<1>2. ASSUME g \notin 1..Len(p), Bare(s.adf) PROVE r.sel = s.sel \/ IsADF(r.sel)
  <2>1. IsADF(f)
    BY <1>2
  <2>2. p[1] = f
    <3>1. Rooted(s.known) /\ s.sel \in s.known
      BY DEF IsState
    <3>. QED  BY <2>1, <3>1, WayToApp
  <2>3. CASE CardSelect(s.card, f) = None
    BY <1>2, <2>2, <2>3, GoStuck
  <2>4. CASE CardSelect(s.card, f) # None
    BY <1>2, <2>1, <2>4, GoOne DEF Answered
  <2>. QED  BY <2>3, <2>4
<1>. HIDE DEF r, p
<1>3. r.sel \in Files
  BY <1>1 DEF Outcome, IsState
<1>4. CASE g \in 1..Len(p)
  BY <1>1, <1>4 DEF Outcome, Settled, p
<1>5. CASE g \notin 1..Len(p)
  <2>1. /\ r.adf = IF IsADF(r.sel) THEN r.sel ELSE s.adf
        /\ r.sel = s.sel \/ (IsADF(r.sel) => r.sel \in CardFiles)
    BY <1>1, <1>3, <1>5 DEF Outcome, p
  <2>2. None # r.sel
    BY <1>3, ShellAssumption DEF FileRules, Rooted, Files
  <2>3. CASE IsADF(r.sel)
    <3>1. r.adf = r.sel
      BY <2>1, <2>3
    <3>2. Bare(r.adf) => r.sel \in CardFiles
      <4>1. CASE r.sel = s.sel
        BY <2>3, <3>1, <4>1 DEF Settled, Bare
      <4>2. CASE r.sel # s.sel
        BY <2>1, <2>3, <4>2
      <4>. QED  BY <4>1, <4>2
    <3>. QED  BY <2>3, <3>1, <3>2 DEF Settled
  <2>4. CASE ~IsADF(r.sel)
    <3>1. r.adf = s.adf
      BY <2>1, <2>4
    <3>2. ~Bare(s.adf)
      <4>1. SUFFICES ASSUME Bare(s.adf) PROVE FALSE
        OBVIOUS
      <4>2. r.sel = s.sel
        BY <1>2, <1>5, <2>4, <4>1
      <4>. QED  BY <2>4, <4>1, <4>2 DEF Settled
    <3>. QED  BY <2>4, <3>1, <3>2 DEF Settled
  <2>. QED  BY <2>3, <2>4
<1>. QED  BY <1>4, <1>5

\* The applications with files, which lead out of the others.
Ways(k) == {a \in k : IsADF(a) /\ HasFs(a)}

\* Where the card follows, a selection keeps card and host together.
LEMMA GoSound ==
    ASSUME NEW s, IsState(s), s.ok, s.known \subseteq Files, Sound(s), NEW f \in s.known, NEW late \in BOOLEAN,
           NEW g, g \notin 1..Len(PathTo(s.sel, f)), IsADF(f) \/ ~Bare(s.adf) \/ Ways(s.known) = {}
    PROVE  Sound(Go(s, f, g, late))
<1>. DEFINE p == PathTo(s.sel, f)
            r == Go(s, f, g, late)
<1>1. s.sel \in Files /\ f \in Files /\ Rooted(s.known) /\ s.sel \in s.known /\ s.card = s.sel /\ s.card \in CardFiles
  BY DEF IsState, Sound
<1>2. Step(s.card, p[1])
  BY <1>1, FirstStep
<1>3. r.card = r.sel /\ r.card \in CardFiles
  <2>1. CASE CardSelect(s.card, p[1]) = None
    BY <1>1, <2>1, GoStuck
  <2>2. CASE CardSelect(s.card, p[1]) # None
    BY <1>1, <1>2, <2>2, GoMoves
  <2>. QED  BY <2>1, <2>2
<1>4. CASE IsADF(f) \/ ~Bare(s.adf)
  <2>1. Settled(r)
    BY <1>4, GoSettles DEF Sound
  <2>. QED  BY <1>3, <2>1 DEF Sound
<1>5. CASE ~IsADF(f) /\ Bare(s.adf) /\ Ways(s.known) = {}
  <2>1. IsADF(s.sel) /\ ~HasFs(s.sel) /\ s.adf = s.sel
    BY <1>5 DEF Sound, Settled, Bare
  <2>2. get_cwd(s.sel) = s.sel
    BY <1>1, <2>1, AppPlace DEF get_cwd
  <2>3. ~IsADF(p[1])
    <3>1. SUFFICES ASSUME IsADF(p[1]) PROVE FALSE
      OBVIOUS
    <3>2. Len(p) \in Nat /\ Len(p) >= 1 /\ OnWay(s.sel, f, p[1])
      BY <1>1, PathLeads DEF Leads
    <3>3. p[1] \in s.known
      BY <1>1, <3>2, OnWayInTree
    <3>4. ~HasFs(p[1])
      BY <1>5, <3>1, <3>3 DEF Ways
    <3>5. Len(s.sel) \in Nat /\ Len(f) \in Nat /\ Prefix(f, Len(f)) = f
      <4>1. InTree(s.known, s.sel) /\ InTree(s.known, f)
        BY <1>1, TreeFile
      <4>. QED  BY <4>1, WholePrefix DEF InTree
    <3>. HIDE DEF p
    <3>6. CASE \E n \in 1..(Len(s.sel) - 1) : p[1] = Prefix(s.sel, n)
      BY <1>1, <3>1, <3>4, <3>6, AboveNoEF
    <3>7. CASE \E n \in 1..Len(f) : p[1] = Prefix(f, n)
      <4>1. PICK n \in 1..Len(f) : p[1] = Prefix(f, n)
        BY <3>7
      <4>2. CASE n = Len(f)
        BY <1>5, <3>1, <3>5, <4>1, <4>2
      <4>3. CASE n # Len(f)
        <5>1. \A m \in Nat : \A i \in 1..m : i # m => i \in 1..(m - 1)
          OBVIOUS
        <5>2. n \in 1..(Len(f) - 1)
          BY <3>5, <4>3, <5>1
        <5>. QED  BY <1>1, <3>1, <3>4, <4>1, <5>2, AboveNoEF
      <4>. QED  BY <4>2, <4>3
    <3>. QED  BY <3>2, <3>6, <3>7 DEF OnWay
  <2>4. CardSelect(s.card, p[1]) = None
    BY <1>1, <2>1, <2>2, <2>3, CardSilent
  <2>5. r.sel = s.sel
    BY <2>4, GoStuck
  <2>6. r.adf = r.sel
    <3>1. Outcome(s, f, g, r)
      BY GoOutcome
    <3>. QED  BY <2>1, <2>5, <3>1 DEF Outcome
  <2>. HIDE DEF r
  <2>7. Settled(r)
    BY <1>1, <2>1, <2>5, <2>6 DEF Settled
  <2>. QED  BY <1>3, <2>7 DEF Sound, r
<1>. QED  BY <1>4, <1>5

\* What a selection keeps whatever the card does.
Kept(s, r) ==
    /\ IsState(r) /\ s.known \subseteq r.known
    /\ s.card = None => r.card = None

LEMMA KeptTwice ==
    ASSUME NEW s, NEW q, NEW r, Kept(s, q), Kept(q, r)
    PROVE  Kept(s, r)
BY DEF Kept

LEMMA FlagKept ==
    ASSUME NEW s, NEW q, NEW r, NEW v, Kept(s, q), Flagged(q, v, r)
    PROVE  Kept(s, r)
BY DEF Kept, Flagged

LEMMA GoKept ==
    ASSUME NEW s, IsState(s), NEW f \in s.known, NEW g, NEW late \in BOOLEAN
    PROVE  LET r == Go(s, f, g, late) IN Kept(s, r) /\ r.known = s.known
<1>1. Outcome(s, f, g, Go(s, f, g, late))
  BY GoOutcome
<1>. QED  BY <1>1, GoClosed DEF Outcome, Kept

\* The two ways through select_file.
Direct(s, f) == IsADF(f) \/ ~Bare(s.adf) \/ Ways(s.known) = {}

LEMMA SelectDirect ==
    ASSUME NEW s, NEW f, NEW g, NEW late, Direct(s, f)
    PROVE  SelectFile(s, f, g, late) = Go(s, f, g, late)
BY DEF Direct, SelectFile, Bare, Ways

LEMMA SelectThrough ==
    ASSUME NEW s, NEW f, NEW g, NEW late, ~Direct(s, f)
    PROVE  \E w \in Ways(s.known) : SelectFile(s, f, g, late) = GoFrom(Go(s, w, 0, FALSE), s.sel, f, g, late)
<1>1. Ways(s.known) # {}
  BY DEF Direct
<1>2. (CHOOSE w \in Ways(s.known) : TRUE) \in Ways(s.known)
  BY <1>1
<1>3. SelectFile(s, f, g, late) = GoFrom(Go(s, CHOOSE w \in Ways(s.known) : TRUE, 0, FALSE), s.sel, f, g, late)
  BY DEF Direct, SelectFile, Bare, Ways
<1>. QED  BY <1>2, <1>3

\* Back to where it began, without an exception on the way.
Return(r, start) == Go([r EXCEPT !.ok = TRUE], start, 0, FALSE)

LEMMA ReturnKept ==
    ASSUME NEW r, IsState(r), NEW start \in r.known
    PROVE  LET q == [Return(r, start) EXCEPT !.ok = FALSE]
           IN  Kept(r, q) /\ q.known = r.known /\ q.ok = FALSE
<1>. DEFINE a == [r EXCEPT !.ok = TRUE]
            b == Return(r, start)
            q == [b EXCEPT !.ok = FALSE]
<1>1. Flagged(r, TRUE, a)
  BY PutOk
<1>2. Kept(a, b) /\ b.known = a.known
  <2>1. IsState(a) /\ start \in a.known
    BY <1>1 DEF Flagged
  <2>. HIDE DEF a
  <2>2. Kept(a, Go(a, start, 0, FALSE)) /\ Go(a, start, 0, FALSE).known = a.known
    BY <2>1, GoKept
  <2>. QED  BY <2>2 DEF Return, a
<1>. HIDE DEF b
<1>3. Flagged(b, FALSE, q)
  <2>1. IsState(b)
    BY <1>2 DEF Kept
  <2>. QED  BY <2>1, PutOk
<1>. HIDE DEF a, q
<1>4. Kept(r, q) /\ q.known = r.known /\ q.ok = FALSE
  BY <1>1, <1>2, <1>3 DEF Kept, Flagged
<1>. QED  BY <1>4 DEF q, b

LEMMA SelectFileKept ==
    ASSUME NEW s, IsState(s), NEW f \in s.known, NEW g, NEW late \in BOOLEAN
    PROVE  LET r == SelectFile(s, f, g, late) IN Kept(s, r) /\ r.known = s.known
<1>1. CASE Direct(s, f)
  BY <1>1, SelectDirect, GoKept
<1>2. CASE ~Direct(s, f)
  <2>1. PICK w \in Ways(s.known) : SelectFile(s, f, g, late) = GoFrom(Go(s, w, 0, FALSE), s.sel, f, g, late)
    BY <1>2, SelectThrough
  <2>. DEFINE a == Go(s, w, 0, FALSE)
  <2>2. Kept(s, a) /\ a.known = s.known
    BY GoKept DEF Ways
  <2>3. s.sel \in s.known
    BY DEF IsState
  <2>. HIDE DEF a
  <2>4. CASE a.ok
    <3>. DEFINE r == Go(a, f, g, late)
    <3>1. Kept(a, r) /\ r.known = a.known
      BY <2>2, GoKept DEF Kept
    <3>2. SelectFile(s, f, g, late) = r
      BY <2>1, <2>4 DEF GoFrom, a
    <3>. HIDE DEF r
    <3>. QED  BY <2>2, <3>1, <3>2, KeptTwice
  <2>5. CASE ~a.ok
    <3>. DEFINE r == [Return(a, s.sel) EXCEPT !.ok = FALSE]
    <3>1. Kept(a, r) /\ r.known = a.known
      BY <2>2, <2>3, ReturnKept DEF Kept
    <3>2. SelectFile(s, f, g, late) = r
      BY <2>1, <2>5 DEF GoFrom, a, Return
    <3>. HIDE DEF r
    <3>. QED  BY <2>2, <3>1, <3>2, KeptTwice
  <2>. QED  BY <2>4, <2>5
<1>. QED  BY <1>1, <1>2

\* Back to an application, or to anywhere from outside an application without
\* files.
LEMMA ReturnSound ==
    ASSUME NEW r, IsState(r), r.known \subseteq Files, Sound(r), NEW start \in r.known,
           Direct(r, start)
    PROVE  Sound([Return(r, start) EXCEPT !.ok = FALSE])
<1>. DEFINE a == [r EXCEPT !.ok = TRUE]
            b == Return(r, start)
<1>1. Flagged(r, TRUE, a)
  BY PutOk
<1>. HIDE DEF a
<1>2. Sound(a) /\ IsState(a) /\ a.known = r.known /\ a.adf = r.adf /\ a.ok
  BY <1>1, FlagSound DEF Flagged
<1>3. Rooted(a.known) /\ a.sel \in a.known
  BY <1>2 DEF IsState
<1>4. 0 \notin 1..Len(PathTo(a.sel, start))
  <2>1. Len(PathTo(a.sel, start)) \in Nat
    BY <1>2, <1>3, PathLeads DEF Leads
  <2>. QED  BY <2>1
<1>5. Sound(Go(a, start, 0, FALSE)) /\ IsState(Go(a, start, 0, FALSE))
  BY <1>2, <1>4, GoSound, GoKept DEF Direct, Kept
<1>6. Sound(b) /\ IsState(b)
  BY <1>5 DEF Return, a
<1>. HIDE DEF b
<1>7. Flagged(b, FALSE, [b EXCEPT !.ok = FALSE])
  BY <1>6, PutOk
<1>8. Sound([b EXCEPT !.ok = FALSE])
  BY <1>6, <1>7, FlagSound
<1>. QED  BY <1>8 DEF b

\* Command 0 is none of a way.
LEMMA NoFailure ==
    ASSUME NEW s, IsState(s), NEW f \in s.known
    PROVE  0 \notin 1..Len(PathTo(s.sel, f))
<1>1. Rooted(s.known) /\ s.sel \in s.known
  BY DEF IsState
<1>2. Len(PathTo(s.sel, f)) \in Nat
  BY <1>1, PathLeads DEF Leads
<1>. QED  BY <1>2

\* After a link error at command g the host is where it was, or in an
\* application with files.
Linked(s, g, r) ==
    \/ Sound(r)
    \/ g # 0 /\ Settled(r) /\ (r.sel = s.sel \/ ~Bare(r.adf))

LEMMA SelectFileLinked ==
    ASSUME NEW s, IsState(s), s.ok, s.known \subseteq Files, Sound(s), NEW f \in s.known,
           NEW g, NEW late \in BOOLEAN
    PROVE  Linked(s, g, SelectFile(s, f, g, late))
<1>1. Settled(s) /\ s.sel \in s.known
  BY DEF Sound, IsState
<1>2. ASSUME NEW a, IsState(a), a.ok, a.known = s.known, Sound(a), Direct(a, f), a.sel = s.sel \/ ~Bare(a.adf)
      PROVE  Linked(s, g, Go(a, f, g, late))
  <2>. DEFINE r == Go(a, f, g, late)
  <2>1. CASE g \notin 1..Len(PathTo(a.sel, f))
    <3>1. Sound(r)
      BY <1>2, <2>1, GoSound DEF Direct
    <3>. QED  BY <3>1 DEF Linked
  <2>2. CASE g \in 1..Len(PathTo(a.sel, f))
    <3>1. Outcome(a, f, g, r)
      BY <1>2, GoOutcome
    <3>. HIDE DEF r
    <3>2. r.sel = a.sel /\ r.adf = a.adf
      BY <2>2, <3>1 DEF Outcome
    <3>3. g # 0
      BY <1>2, <2>2, NoFailure
    <3>4. Settled(r)
      BY <1>2, <3>2 DEF Sound, Settled
    <3>5. Linked(s, g, r)
      BY <1>2, <3>2, <3>3, <3>4 DEF Linked
    <3>. QED  BY <3>5 DEF r
  <2>. QED  BY <2>1, <2>2
<1>3. CASE Direct(s, f)
  BY <1>2, <1>3, SelectDirect
<1>4. CASE ~Direct(s, f)
  <2>1. PICK w \in Ways(s.known) : SelectFile(s, f, g, late) = GoFrom(Go(s, w, 0, FALSE), s.sel, f, g, late)
    BY <1>4, SelectThrough
  <2>2. w \in s.known /\ IsADF(w) /\ HasFs(w)
    BY DEF Ways
  <2>3. IsADF(s.sel)
    BY <1>1, <1>4 DEF Direct, Settled
  <2>. DEFINE a == Go(s, w, 0, FALSE)
  <2>4. Kept(s, a) /\ a.known = s.known /\ Outcome(s, w, 0, a)
    BY <2>2, GoKept, GoOutcome
  <2>5. 0 \notin 1..Len(PathTo(s.sel, w))
    BY <2>2, NoFailure
  <2>6. Sound(a)
    BY <2>2, <2>5, GoSound
  <2>. HIDE DEF a
  <2>7. CASE a.ok
    <3>1. a.sel = w /\ a.adf = w
      BY <2>2, <2>4, <2>5, <2>7 DEF Outcome
    <3>2. ~Bare(a.adf)
      BY <2>2, <3>1 DEF Bare
    <3>3. Linked(s, g, Go(a, f, g, late))
      BY <1>2, <2>4, <2>6, <2>7, <3>2 DEF Direct, Kept
    <3>. QED  BY <2>1, <2>7, <3>3 DEF GoFrom, a
  <2>8. CASE ~a.ok
    <3>1. Sound([Return(a, s.sel) EXCEPT !.ok = FALSE])
      BY <1>1, <2>3, <2>4, <2>6, ReturnSound DEF Direct, Kept
    <3>2. SelectFile(s, f, g, late) = [Return(a, s.sel) EXCEPT !.ok = FALSE]
      BY <2>1, <2>8 DEF GoFrom, a, Return
    <3>. QED  BY <3>1, <3>2 DEF Linked
  <2>. QED  BY <2>7, <2>8
<1>. QED  BY <1>3, <1>4

LEMMA SelectFileSound ==
    ASSUME NEW s, IsState(s), s.ok, s.known \subseteq Files, Sound(s), NEW f \in s.known
    PROVE  Sound(SelectFile(s, f, 0, FALSE))
<1>1. Linked(s, 0, SelectFile(s, f, 0, FALSE))
  BY SelectFileLinked
<1>. QED  BY <1>1 DEF Linked

\* The same with an exception pending.
Again(r, start) == SelectFile([r EXCEPT !.ok = TRUE], start, 0, FALSE)

LEMMA AgainKept ==
    ASSUME NEW r, IsState(r), NEW start \in r.known
    PROVE  /\ Kept(r, Again(r, start)) /\ Again(r, start).known = r.known
           /\ r.known \subseteq Files /\ Sound(r) => Sound(Again(r, start))
<1>. DEFINE a == [r EXCEPT !.ok = TRUE]
            b == SelectFile(a, start, 0, FALSE)
<1>1. Flagged(r, TRUE, a)
  BY PutOk
<1>. HIDE DEF a
<1>2. IsState(a) /\ a.known = r.known /\ a.ok /\ a.card = r.card /\ (Sound(r) => Sound(a))
  BY <1>1, FlagSound DEF Flagged
<1>3. Kept(a, b) /\ b.known = a.known
  BY <1>2, SelectFileKept
<1>4. r.known \subseteq Files /\ Sound(r) => Sound(b)
  BY <1>2, SelectFileSound
<1>. HIDE DEF b
<1>5. Kept(r, b)
  BY <1>2, <1>3 DEF Kept
<1>. QED  BY <1>2, <1>3, <1>4, <1>5 DEF Again, a, b

\* An exception leads back to where select() began.
LEMMA OrBackKept ==
    ASSUME NEW r, IsState(r), NEW start \in r.known
    PROVE  /\ Kept(r, OrBack(r, start)) /\ OrBack(r, start).known = r.known
           /\ r.known \subseteq Files /\ Sound(r) => Sound(OrBack(r, start))
<1>. DEFINE b == Again(r, start)
            q == [b EXCEPT !.ok = FALSE]
<1>1. Kept(r, b) /\ b.known = r.known /\ (r.known \subseteq Files /\ Sound(r) => Sound(b))
  BY AgainKept
<1>2. OrBack(r, start) = IF r.ok THEN r ELSE q
  BY DEF OrBack, Again
<1>. HIDE DEF b
<1>3. Flagged(b, FALSE, q)
  BY <1>1, PutOk DEF Kept
<1>. HIDE DEF q
<1>4. Kept(r, q) /\ q.known = r.known /\ (r.known \subseteq Files /\ Sound(r) => Sound(q))
  BY <1>1, <1>3, FlagKept, FlagSound DEF Flagged
<1>5. Kept(r, r)
  BY DEF Kept
<1>. QED  BY <1>2, <1>4, <1>5

LEMMA OrBackSettles ==
    ASSUME NEW s, NEW g, NEW r, IsState(r), r.known \subseteq Files, Linked(s, g, r), s.sel \in r.known
    PROVE  Settled(OrBack(r, s.sel))
<1>1. CASE Sound(r)
  BY <1>1, OrBackKept DEF Sound
<1>2. CASE ~Sound(r)
  <2>1. Settled(r) /\ (r.sel = s.sel \/ ~Bare(r.adf))
    BY <1>2 DEF Linked
  <2>2. CASE r.ok
    BY <2>1, <2>2 DEF OrBack
  <2>3. CASE ~r.ok
    <3>. DEFINE a == [r EXCEPT !.ok = TRUE]
                b == Go(a, s.sel, 0, FALSE)
                q == [b EXCEPT !.ok = FALSE]
    <3>1. Flagged(r, TRUE, a)
      BY PutOk
    <3>. HIDE DEF a
    <3>2. IsState(a) /\ a.known = r.known /\ a.ok /\ a.sel = r.sel /\ a.adf = r.adf /\ Settled(a)
      BY <2>1, <3>1, FlagSettled DEF Flagged
    <3>3. IsADF(s.sel) \/ ~Bare(a.adf)
      BY <2>1, <3>2 DEF Settled
    <3>4. Settled(b) /\ IsState(b)
      BY <3>2, <3>3, GoSettles, GoKept DEF Kept
    <3>5. SelectFile(a, s.sel, 0, FALSE) = b
      BY <3>3, SelectDirect DEF Direct
    <3>6. OrBack(r, s.sel) = q
      BY <2>3, <3>5 DEF OrBack, a
    <3>. HIDE DEF b
    <3>7. Flagged(b, FALSE, q)
      BY <3>4, PutOk
    <3>. HIDE DEF q
    <3>. QED  BY <3>4, <3>6, <3>7, FlagSettled
  <2>. QED  BY <2>2, <2>3
<1>. QED  BY <1>1, <1>2

-----------------------------------------------------------------------------
(* probe_file and select(). *)

\* What an identifier names is a file of the model; one that names none is not
\* that of the MF or of a file below the current DF.
Named(k, f, id, g) ==
    /\ g = None \/ g \in k
    /\ g = None => /\ id # "3f00"
                   /\ \A h \in k : Len(h) = Len(get_cwd(f)) + 1 /\ Parent(h) = get_cwd(f) => LastId(h) # id

LEMMA SelectableNamed ==
    ASSUME NEW k, Rooted(k), NEW f \in k, NEW id
    PROVE  Named(k, f, id, Selectable(k, f, id))
<1>. DEFINE below == {g \in Children(k, get_cwd(f)) : LastId(g) = id}
            apps  == {g \in Children(k, MF) : IsADF(g) /\ LastId(g) = id}
            above == {g \in {Prefix(f, n) : n \in 1..Len(f)} : LastId(g) = id}
            B == CHOOSE g \in below : TRUE
            A == CHOOSE g \in apps : TRUE
            U == CHOOSE g \in above : \A h \in above : Len(g) <= Len(h)
            r == Selectable(k, f, id)
<1>. SUFFICES Named(k, f, id, r)
  OBVIOUS
<1>1. r = IF below # {} THEN B ELSE IF apps # {} THEN A ELSE IF above # {} THEN U ELSE None
  BY DEF Selectable
<1>2. below \subseteq k /\ apps \subseteq k
  BY DEF Children
<1>3. InTree(k, f)
  BY TreeFile
<1>4. above \subseteq k
  BY <1>3 DEF InTree
<1>5. None \notin k
  BY ShellAssumption DEF FileRules, Rooted
<1>6. below # {} => B \in below
  <2>. HIDE DEF below
  <2>. QED  OBVIOUS
<1>7. apps # {} => A \in apps
  <2>. HIDE DEF apps
  <2>. QED  OBVIOUS
<1>8. above # {} => U \in above
  <2>1. SUFFICES ASSUME above # {} PROVE U \in above
    OBVIOUS
  <2>2. \A g \in above : Len(g) \in Nat
    <3>. TAKE g \in above
    <3>1. g \in k
      BY <1>4
    <3>. HIDE DEF above
    <3>. QED  BY <3>1, TreeFile DEF InTree
  <2>. HIDE DEF above
  <2>. DEFINE S == {Len(g) : g \in above}
  <2>3. S \subseteq Nat /\ S # {}
    BY <2>1, <2>2
  <2>4. PICK m \in S : \A n \in S : m <= n
    <3>. HIDE DEF S
    <3>. QED  BY <2>3, LeastNumber
  <2>5. PICK g \in above : m = Len(g)
    BY <2>4
  <2>6. \A h \in above : Len(g) <= Len(h)
    BY <2>4, <2>5
  <2>. QED  BY <2>5, <2>6
<1>9. ASSUME id = "3f00" PROVE above # {}
  <2>1. 1 \in 1..Len(f)
    BY <1>3 DEF InTree
  <2>4. 1 \in 0..Len(f) /\ f \in Paths /\ f[1] = "3f00"
    BY <1>3, <2>1 DEF InTree
  <2>5. Len(Prefix(f, 1)) = 1 /\ \A i \in 1..1 : Prefix(f, 1)[i] = f[i]
    BY <2>4, PrefixOf
  <2>2. Len(Prefix(f, 1)) = 1 /\ Prefix(f, 1)[1] = f[1] /\ f[1] = "3f00"
    BY <2>4, <2>5
  <2>3. LastId(Prefix(f, 1)) = id
    BY <1>9, <2>2 DEF LastId
  <2>. QED  BY <2>1, <2>3
<1>10. \A h \in k : Len(h) = Len(get_cwd(f)) + 1 /\ Parent(h) = get_cwd(f) /\ LastId(h) = id => h \in below
  BY DEF Children
<1>. HIDE DEF below, apps, above, A, B, U, r
<1>11. CASE below # {}
  BY <1>1, <1>2, <1>5, <1>6, <1>11 DEF Named
<1>12. CASE below = {} /\ apps # {}
  BY <1>1, <1>2, <1>5, <1>7, <1>12 DEF Named
<1>13. CASE below = {} /\ apps = {} /\ above # {}
  BY <1>1, <1>4, <1>5, <1>8, <1>13 DEF Named
<1>14. CASE below = {} /\ apps = {} /\ above = {}
  BY <1>1, <1>9, <1>10, <1>14 DEF Named
<1>. QED  BY <1>11, <1>12, <1>13, <1>14

\* A new child of a file of a tree.
Child(f, id, h) == h \in Paths /\ Len(h) = Len(f) + 1 /\ Parent(h) = f /\ LastId(h) = id

LEMMA NewFile ==
    ASSUME NEW k, Rooted(k), NEW f \in k, NEW id \in Names
    PROVE  Child(f, id, Append(f, id)) /\ Rooted(k \cup {Append(f, id)})
<1>. DEFINE h == Append(f, id)
            S == Names
            n == Len(f)
<1>1. f \in Seq(S) /\ id \in S /\ n \in Nat /\ n >= 1 /\ f[1] = "3f00" /\ \A i \in 1..n : Prefix(f, i) \in k
  <2>1. InTree(k, f)
    BY TreeFile
  <2>. QED  BY <2>1 DEF InTree, Paths
<1>. HIDE DEF S
<1>2. h \in Seq(S) /\ Len(h) = n + 1 /\ h[n + 1] = id /\ \A i \in 1..n : h[i] = f[i]
  BY <1>1
<1>3. h \in Paths
  BY <1>2 DEF Paths, S
<1>. HIDE DEF h
<1>4. Prefix(h, n) = f
  <2>1. n \in 0..Len(h) /\ f \in Paths
    BY <1>1, <1>2 DEF Paths, S
  <2>2. Prefix(h, n) \in Paths /\ Len(Prefix(h, n)) = n /\ \A i \in 1..n : Prefix(h, n)[i] = h[i]
    BY <1>3, <2>1, PrefixOf
  <2>. QED  BY <1>2, <2>1, <2>2, SamePath
<1>5. Len(h) > 1 /\ Len(h) - 1 = n
  <2>. HIDE DEF n
  <2>. QED  BY <1>1, <1>2
<1>6. Parent(h) = f
  BY <1>3, <1>4, <1>5, ParentOf
<1>7. Child(f, id, h)
  BY <1>2, <1>3, <1>6 DEF Child, LastId
<1>8. \A i \in 1..Len(h) : Prefix(h, i) \in k \cup {h}
  <2>. TAKE i \in 1..Len(h)
  <2>1. CASE i = Len(h)
    BY <1>3, <2>1, WholePrefix
  <2>2. CASE i # Len(h)
    <3>1. i \in 1..n /\ n \in 0..Len(h) /\ i \in 0..n
      <4>. HIDE DEF n
      <4>. QED  BY <1>1, <1>2, <2>2
    <3>2. Prefix(h, i) = Prefix(f, i)
      BY <1>3, <1>4, <3>1, PrefixOfPrefix
    <3>. QED  BY <1>1, <3>1, <3>2
  <2>. QED  BY <2>1, <2>2
<1>9. h # <<>> /\ h[1] = "3f00"
  BY <1>1, <1>2, <1>5
<1>10. Rooted(k \cup {h})
  BY <1>3, <1>8, <1>9 DEF Rooted
<1>. QED  BY <1>7, <1>10 DEF h

\* register_cmds changes the command sets and the flag.
LEMMA RegisteredSame ==
    ASSUME NEW b, IsState(b)
    PROVE  LET r == Registered(b)
           IN  IsState(r) /\ r.known = b.known /\ r.sel = b.sel /\ r.adf = b.adf /\ r.card = b.card
<1>1. b = [known |-> b.known, sel |-> b.sel, adf |-> b.adf, reg |-> b.reg, card |-> b.card, ok |-> b.ok]
  BY DEF IsState
<1>2. CASE \E f \in b.reg : CmdType(f) = CmdType(b.sel)
  <2>1. Registered(b) = [known |-> b.known, sel |-> b.sel, adf |-> b.adf, reg |-> b.reg, card |-> b.card, ok |-> FALSE]
    BY <1>1, <1>2 DEF Registered
  <2>. QED  BY <2>1 DEF IsState
<1>3. CASE ~(\E f \in b.reg : CmdType(f) = CmdType(b.sel))
  <2>1. Registered(b) = [known |-> b.known, sel |-> b.sel, adf |-> b.adf, reg |-> b.reg \cup {b.sel}, card |-> b.card, ok |-> b.ok]
    BY <1>1, <1>3 DEF Registered
  <2>. QED  BY <2>1 DEF IsState
<1>. QED  BY <1>2, <1>3

\* A state is the record of its fields.
AllFields(b) == b = [known |-> b.known, sel |-> b.sel, adf |-> b.adf, reg |-> b.reg, card |-> b.card, ok |-> b.ok]

\* The card's file is written and a file is learnt, as EXCEPT writes it and as a record.
Widened(b, c, f) == [b EXCEPT !.card = c, !.known = @ \cup {f}]

Wider(b, c, f) == [known |-> b.known \cup {f}, sel |-> b.sel, adf |-> b.adf, reg |-> b.reg, card |-> c, ok |-> b.ok]

LEMMA PutCardKnown ==
    ASSUME NEW b, NEW c, NEW f, AllFields(b)
    PROVE  Widened(b, c, f) = Wider(b, c, f)
<1>. DEFINE k == b.known \cup {f}
            R == [known : {b.known, k}, sel : {b.sel}, adf : {b.adf}, reg : {b.reg}, card : {b.card, c}, ok : {b.ok}]
            a == [b EXCEPT !.card = c]
            d == [a EXCEPT !.known = k]
            e == [known |-> k, sel |-> b.sel, adf |-> b.adf, reg |-> b.reg, card |-> c, ok |-> b.ok]
<1>1. b \in R
  BY DEF AllFields
<1>2. a \in R /\ a.card = c /\ a.known = b.known
  BY <1>1
<1>3. d \in R /\ d.card = c /\ d.known = k
  <2>. HIDE DEF a
  <2>. QED  BY <1>2
<1>4. [b EXCEPT !.card = c, !.known = @ \cup {f}] = d
  BY <1>2
<1>5. d = e
  <2>. HIDE DEF d, k
  <2>. QED  BY <1>3
<1>. QED  BY <1>4, <1>5 DEF Widened, Wider

\* What probe_file leaves behind.
Probed(s, id, r) ==
    LET c == CardSelectFid(s.card, id)
        f == Append(s.sel, id)
    IN  /\ IsState(r) /\ r.adf = s.adf
        /\ \/ (c = None \/ id \in Apps) /\ r.known = s.known /\ r.sel = s.sel /\ r.card = s.card /\ ~r.ok
           \/ c # None /\ id \notin Apps /\ IsEF(s.sel)
              /\ r.known = s.known /\ r.sel = s.sel /\ r.card = c /\ ~r.ok
           \/ c # None /\ id \notin Apps /\ ~IsEF(s.sel)
              /\ r.known = s.known \cup {f} /\ r.sel = f /\ r.card = c

LEMMA ProbeOutcome ==
    ASSUME NEW s, IsState(s), NEW id \in Names
    PROVE  Probed(s, id, Probe(s, id))
<1>. DEFINE c == CardSelectFid(s.card, id)
            f == Append(s.sel, id)
            b == [s EXCEPT !.reg = @ \ {s.sel}]
            R == s.reg \ {s.sel}
<1>1. Rooted(s.known) /\ s.sel \in s.known /\ s.card \in CardFiles \cup {None}
  BY DEF IsState
<1>2. c = None \/ c \in CardFiles
  BY <1>1, FidFound DEF Found
<1>3. b = [known |-> s.known, sel |-> s.sel, adf |-> s.adf, reg |-> R, card |-> s.card, ok |-> s.ok]
  <2>1. s = [known |-> s.known, sel |-> s.sel, adf |-> s.adf, reg |-> s.reg, card |-> s.card, ok |-> s.ok]
    BY DEF IsState
  <2>. QED  BY <2>1
<1>4. Probe(s, id) = IF c = None \/ id \in Apps THEN [Registered(b) EXCEPT !.ok = FALSE]
                     ELSE IF IsEF(s.sel) THEN [b EXCEPT !.card = c, !.ok = FALSE]
                     ELSE SelectPost([b EXCEPT !.card = c, !.known = @ \cup {f}], f)
  BY DEF Probe
<1>5. Child(s.sel, id, f) /\ Rooted(s.known \cup {f})
  BY <1>1, NewFile
<1>. HIDE DEF R, b, c, f
<1>6. CASE c = None \/ id \in Apps
  <2>. DEFINE a == Registered(b)
  <2>1. IsState(b)
    BY <1>3 DEF IsState
  <2>2. IsState(a) /\ a.known = s.known /\ a.sel = s.sel /\ a.adf = s.adf /\ a.card = s.card
    BY <1>3, <2>1, RegisteredSame
  <2>. HIDE DEF a
  <2>3. Flagged(a, FALSE, [a EXCEPT !.ok = FALSE])
    BY <2>2, PutOk
  <2>4. Probe(s, id) = [a EXCEPT !.ok = FALSE]
    BY <1>4, <1>6 DEF a
  <2>. QED  BY <1>6, <2>2, <2>3, <2>4 DEF Flagged, Probed, c, f
<1>7. CASE c # None /\ id \notin Apps /\ IsEF(s.sel)
  <2>1. Probe(s, id) = [known |-> s.known, sel |-> s.sel, adf |-> s.adf, reg |-> R, card |-> c, ok |-> FALSE]
    BY <1>3, <1>4, <1>7
  <2>2. IsState(Probe(s, id))
    BY <1>2, <2>1 DEF IsState
  <2>. QED  BY <1>7, <2>1, <2>2 DEF Probed, c, f
<1>8. CASE c # None /\ id \notin Apps /\ ~IsEF(s.sel)
  <2>. DEFINE a == [known |-> s.known \cup {f}, sel |-> s.sel, adf |-> s.adf, reg |-> R, card |-> c, ok |-> s.ok]
  <2>7. AllFields(b)
    BY <1>3 DEF AllFields
  <2>8. b.known = s.known /\ b.sel = s.sel /\ b.adf = s.adf /\ b.reg = R /\ b.ok = s.ok
    BY <1>3
  <2>9. Widened(b, c, f) = Wider(b, c, f)
    BY <2>7, PutCardKnown
  <2>5. Widened(b, c, f) = a
    BY <2>8, <2>9 DEF Wider
  <2>6. Probe(s, id) = SelectPost(Widened(b, c, f), f)
    BY <1>4, <1>8 DEF Widened
  <2>1. Probe(s, id) = SelectPost(a, f)
    BY <2>5, <2>6
  <2>2. IsState(a) /\ f \in a.known /\ a.known = s.known \cup {f} /\ a.card = c /\ a.adf = s.adf
    BY <1>2, <1>5 DEF IsState
  <2>. HIDE DEF a
  <2>3. Posted(a, f, Probe(s, id))
    BY <2>1, <2>2, PostOutcome
  <2>4. ~IsADF(f)
    BY <1>5, <1>8 DEF Child, IsADF
  <2>. QED  BY <1>8, <2>2, <2>3, <2>4 DEF Posted, Probed, c, f
<1>. QED  BY <1>6, <1>7, <1>8

LEMMA ProbeKept ==
    ASSUME NEW s, IsState(s), NEW id \in Names
    PROVE  Kept(s, Probe(s, id))
<1>1. Probed(s, id, Probe(s, id))
  BY ProbeOutcome
<1>2. s.card = None => CardSelectFid(s.card, id) = None
  BY DEF CardSelectFid
<1>. QED  BY <1>1, <1>2 DEF Probed, Kept

\* What the card finds by FID is near.
LEMMA NearFound ==
    ASSUME NEW d \in CardFiles, NEW q \in CardFiles, q # MF,
           Parent(q) = d \/ q = d \/ q = Parent(d) \/ (Parent(q) = Parent(d) /\ ~IsEF(q))
    PROVE  Near(d, q)
<1>1. d \in Paths /\ Len(d) \in Nat /\ Len(d) >= 1
  BY FilesRooted, TreeFile DEF InTree
<1>2. CASE q = d
  <2>1. Len(d) \in 1..Len(d) /\ q = Prefix(d, Len(d))
    BY <1>1, <1>2, WholePrefix
  <2>. QED  BY <2>1 DEF Near
<1>3. CASE q = Parent(d)
  <2>1. Len(d) > 1
    <3>1. Len(d) # 1
      BY <1>3, FilesRooted, TreeFile, RootPath DEF InTree
    <3>2. \A n \in Nat : n >= 1 /\ n # 1 => n > 1
      OBVIOUS
    <3>. QED  BY <1>1, <3>1, <3>2
  <2>2. Len(d) - 1 \in 1..Len(d) /\ q = Prefix(d, Len(d) - 1)
    BY <1>1, <1>3, <2>1, ParentOf
  <2>. QED  BY <2>2 DEF Near
<1>. QED  BY <1>2, <1>3 DEF Near

\* The DF of a file the card has selected by its FID lets FIDs in.
LEMMA CwdOpen ==
    ASSUME NEW c \in CardFiles, ~IsADF(c)
    PROVE  IsADF(get_cwd(c)) => HasFs(get_cwd(c))
<1>1. CASE IsEF(c)
  <2>1. get_cwd(c) = Parent(c)
    BY <1>1 DEF get_cwd
  <2>2. c # MF
    BY <1>1, RootPath, ShellAssumption DEF FileRules, IsEF
  <2>3. Len(c) > 1 /\ Len(c) \in Nat /\ c \in Files /\ c \in Paths
    BY <2>2, FilesRooted, TreeFile DEF InTree
  <2>4. Len(c) - 1 \in 1..(Len(c) - 1) /\ Parent(c) = Prefix(c, Len(c) - 1)
    BY <2>3, ParentOf
  <2>. QED  BY <2>1, <2>3, <2>4, AboveNoEF
<1>2. CASE ~IsEF(c)
  BY <1>2 DEF get_cwd
<1>. QED  BY <1>1, <1>2

\* The parent of a file is no EF.
LEMMA ParentNoEF ==
    ASSUME NEW e \in CardFiles
    PROVE  ~IsEF(Parent(e)) /\ Parent(e) \in CardFiles /\ (IsADF(Parent(e)) => HasFs(Parent(e)))
<1>1. e \in Paths /\ Len(e) \in Nat /\ e \in Files /\ Parent(e) \in CardFiles /\ (e # MF => Len(e) > 1)
  BY FilesRooted, TreeFile DEF InTree
<1>2. CASE e = MF
  BY <1>1, <1>2, RootPath, AppPlace, FilesRooted, ShellAssumption DEF FileRules, IsEF, Rooted
<1>3. CASE e # MF
  <2>1. Len(e) - 1 \in 1..(Len(e) - 1) /\ Parent(e) = Prefix(e, Len(e) - 1)
    BY <1>1, <1>3, ParentOf
  <2>. QED  BY <1>1, <2>1, AboveNoEF
<1>. QED  BY <1>2, <1>3

\* From a file the card found near an EF the way back to the EF is open.
LEMMA WayBack ==
    ASSUME NEW e \in CardFiles, IsEF(e), NEW c \in CardFiles, NEW id, Found(e, id, c), id # "3f00",
           NEW q \in CardFiles, q = MF \/ IsADF(q) \/ q = Parent(e)
    PROVE  Step(c, q) /\ CardSelect(c, q) # None
<1>. DEFINE d == Parent(e)
            y == get_cwd(c)
<1>1. get_cwd(e) = d /\ d \in CardFiles /\ ~IsEF(d)
  BY ParentNoEF DEF get_cwd
<1>2. c # MF /\ ~IsADF(c) /\ (Parent(c) = d \/ c = d \/ c = Parent(d) \/ (Parent(c) = Parent(d) /\ ~IsEF(c)))
  BY <1>1, RootPath DEF Found
<1>3. None \notin CardFiles
  BY ShellAssumption DEF FileRules, Rooted
<1>4. IsADF(y) => HasFs(y)
  BY <1>2, CwdOpen
<1>5. y \in CardFiles
  BY FilesRooted, CwdOf
<1>6. CASE q = MF \/ IsADF(q)
  <2>1. CardSelect(c, q) = q
    BY <1>4, <1>6, CardFinds
  <2>. QED  BY <1>3, <1>6, <2>1 DEF Step
<1>7. CASE q # MF /\ ~IsADF(q)
  <2>1. q = d
    BY <1>7
  <2>2. Parent(q) = y \/ q = y \/ q = Parent(y) \/ (Parent(q) = Parent(y) /\ ~IsEF(q))
    <3>1. CASE IsEF(c)
      <4>1. y = Parent(c)
        BY <3>1 DEF get_cwd
      <4>2. c # d /\ c # Parent(d)
        BY <1>1, <3>1, ParentNoEF
      <4>. QED  BY <1>2, <2>1, <3>1, <4>1, <4>2
    <3>2. CASE ~IsEF(c)
      <4>1. y = c
        BY <3>2 DEF get_cwd
      <4>. QED  BY <1>1, <1>2, <2>1, <4>1
    <3>. QED  BY <3>1, <3>2
  <2>3. CardSelect(c, q) = q
    BY <1>4, <2>2, CardFinds
  <2>4. Near(y, q)
    BY <1>5, <1>7, <2>2, NearFound
  <2>. QED  BY <1>3, <2>3, <2>4 DEF Step
<1>. QED  BY <1>6, <1>7

\* A probe, and the way back when it has failed: card and host agree again,
\* unless the card found the file where the host does not look for it.
LEMMA ProbeBack ==
    ASSUME NEW s, IsState(s), s.known \subseteq Files, Sound(s), NEW id \in Names,
           Selectable(s.known, s.sel, id) = None, OrBack(Probe(s, id), s.sel).known \subseteq Files
    PROVE  Sound(OrBack(Probe(s, id), s.sel))
<1>. DEFINE c == CardSelectFid(s.card, id)
            f == Append(s.sel, id)
            r == Probe(s, id)
            q == OrBack(r, s.sel)
<1>1. Rooted(s.known) /\ s.sel \in s.known /\ HostFiles \subseteq s.known
  BY DEF IsState
<1>2. Named(s.known, s.sel, id, None)
  BY <1>1, SelectableNamed
<1>3. Probed(s, id, r) /\ Kept(s, r)
  BY ProbeOutcome, ProbeKept
<1>4. IsState(r) /\ s.sel \in r.known
  BY <1>1, <1>3 DEF Kept
<1>5. q.known = r.known /\ (r.known \subseteq Files /\ Sound(r) => Sound(q))
  BY <1>4, OrBackKept
<1>6. s.card = s.sel /\ s.card \in CardFiles /\ s.sel \in Files /\ Settled(s)
  BY FilesRooted DEF Sound
<1>7. c = None \/ Found(s.card, id, c)
  BY <1>6, FidFound
<1>8. SUFFICES Sound(q)
  OBVIOUS
<1>. HIDE DEF q, r, c, f
<1>9. r.known \subseteq Files
  BY <1>5 DEF q, r
<1>10. CASE r.known = s.known /\ r.sel = s.sel /\ r.card = s.card
  <2>1. Sound(r)
    BY <1>3, <1>10 DEF Probed, Sound, Settled
  <2>. QED  BY <1>5, <1>9, <2>1
<1>11. CASE c # None /\ IsEF(s.sel) /\ r.known = s.known /\ r.sel = s.sel /\ r.card = c /\ ~r.ok
  <2>. DEFINE a == [r EXCEPT !.ok = TRUE]
              b == Go(a, s.sel, 0, FALSE)
              z == [b EXCEPT !.ok = FALSE]
              p == PathTo(s.sel, s.sel)
  <2>1. Flagged(r, TRUE, a)
    BY <1>4, PutOk
  <2>. HIDE DEF a
  <2>2. IsState(a) /\ a.known = s.known /\ a.ok /\ a.sel = s.sel /\ a.adf = s.adf /\ a.card = c
    BY <1>3, <1>11, <2>1 DEF Flagged, Probed
  <2>3. ~IsADF(s.sel)
    BY <1>11, ShellAssumption DEF FileRules, IsEF, IsADF
  <2>4. ~Bare(s.adf)
    BY <1>6, <2>3 DEF Settled
  <2>5. Settled(a)
    BY <2>2, <2>3, <2>4 DEF Settled
  <2>6. Settled(b) /\ IsState(b)
    BY <1>1, <2>2, <2>4, <2>5, GoSettles, GoKept DEF Kept
  <2>7. Found(s.sel, id, c) /\ c \in CardFiles
    BY <1>6, <1>7, <1>11 DEF Found
  <2>8. p[1] = MF \/ IsADF(p[1]) \/ p[1] = Parent(s.sel)
    BY <1>6, PathConnected DEF Connected
  <2>9. p[1] \in CardFiles
    <3>1. Rooted(CardFiles)
      BY FilesRooted
    <3>2. Len(p) \in Nat /\ Len(p) >= 1 /\ \A i \in 1..Len(p) : OnWay(s.sel, s.sel, p[i])
      BY <1>6, <3>1, PathLeads DEF Leads
    <3>. QED  BY <1>6, <3>1, <3>2, OnWayInTree
  <2>10. id # "3f00"
    BY <1>2 DEF Named
  <2>. HIDE DEF p
  <2>11. Step(c, p[1]) /\ CardSelect(c, p[1]) # None
    BY <1>6, <1>11, <2>7, <2>8, <2>9, <2>10, WayBack
  <2>12. 0 \notin 1..Len(PathTo(a.sel, s.sel))
    BY <1>1, <2>2, NoFailure
  <2>13. b.card = b.sel /\ b.card \in CardFiles
    BY <1>1, <2>2, <2>7, <2>11, <2>12, GoMoves DEF p
  <2>. HIDE DEF b
  <2>14. Sound(b)
    BY <2>6, <2>13 DEF Sound
  <2>15. Flagged(b, FALSE, z)
    BY <2>6, PutOk
  <2>16. Sound(z)
    BY <2>14, <2>15, FlagSound
  <2>19. Direct(a, s.sel)
    BY <2>2, <2>4 DEF Direct
  <2>17. SelectFile(a, s.sel, 0, FALSE) = b
    BY <2>19, SelectDirect DEF b
  <2>18. q = z
    BY <1>11, <2>17 DEF q, OrBack, a
  <2>. QED  BY <2>16, <2>18
<1>12. CASE c # None /\ id \notin Apps /\ ~IsEF(s.sel) /\ r.known = s.known \cup {f} /\ r.sel = f /\ r.card = c
  <2>1. Child(s.sel, id, f)
    BY <1>1, NewFile DEF f
  <2>2. get_cwd(s.sel) = s.sel
    BY <1>12 DEF get_cwd
  <2>3. f \notin s.known
    BY <1>2, <2>1, <2>2 DEF Named, Child
  <2>4. f \in CardFiles
    BY <1>1, <1>9, <1>12, <2>3 DEF Files
  <2>5. ~IsADF(f) /\ LastId(f) = id /\ Parent(f) = s.sel
    BY <1>12, <2>1 DEF Child, IsADF
  <2>6. IsADF(s.sel) => HasFs(s.sel)
    BY <1>6, <1>7, <1>12, <2>2 DEF Found
  <2>7. CardSelect(s.sel, f) = f
    BY <1>6, <2>2, <2>4, <2>5, <2>6, CardFinds
  <2>8. c = f
    BY <1>6, <2>5, <2>7 DEF CardSelect, c
  <2>9. ~Bare(s.adf)
    BY <1>6, <2>6 DEF Settled, Bare
  <2>10. r.adf = s.adf
    BY <1>3 DEF Probed
  <2>11. Sound(r)
    BY <1>12, <2>4, <2>5, <2>8, <2>9, <2>10 DEF Sound, Settled
  <2>. QED  BY <1>5, <1>9, <2>11
<1>. QED  BY <1>3, <1>10, <1>11, <1>12 DEF Probed, c, f

\* What select() promises: wherever it ends, card and host agree, or after a
\* link error the next reset finds a host that can be led back.
Chosen(s, g, q) ==
    /\ Kept(s, q)
    /\ s.known \subseteq Files /\ Sound(s) /\ q.known \subseteq Files => Settled(q) /\ (g = 0 => Sound(q))

LEMMA SelectIdChosen ==
    ASSUME NEW s, IsState(s), s.ok, NEW id \in Names, NEW g, NEW late \in BOOLEAN
    PROVE  Chosen(s, g, SelectId(s, id, g, late))
<1>. DEFINE f == Selectable(s.known, s.sel, id)
            r == IF f # None THEN SelectFile(s, f, g, late) ELSE Probe(s, id)
            q == OrBack(r, s.sel)
<1>1. Rooted(s.known) /\ s.sel \in s.known
  BY DEF IsState
<1>2. f = None \/ f \in s.known
  BY <1>1, SelectableNamed DEF Named
<1>3. SelectId(s, id, g, late) = q
  BY DEF SelectId
<1>4. CASE f # None
  <2>. DEFINE a == SelectFile(s, f, g, late)
  <2>1. f \in s.known
    BY <1>2, <1>4
  <2>. HIDE DEF f
  <2>2. Kept(s, a) /\ a.known = s.known
    BY <2>1, SelectFileKept
  <2>3. s.known \subseteq Files /\ Sound(s) => Linked(s, g, a)
    BY <2>1, SelectFileLinked
  <2>4. r = a
    BY <1>4
  <2>. HIDE DEF a, r
  <2>5. IsState(a) /\ s.sel \in a.known
    BY <1>1, <2>2 DEF Kept
  <2>6. Kept(a, q) /\ q.known = a.known /\ (a.known \subseteq Files /\ Sound(a) => Sound(q))
    BY <2>4, <2>5, OrBackKept
  <2>7. a.known \subseteq Files /\ Linked(s, g, a) => Settled(q)
    BY <2>4, <2>5, OrBackSettles
  <2>8. g = 0 /\ Linked(s, g, a) => Sound(a)
    BY DEF Linked
  <2>. HIDE DEF q
  <2>9. Kept(s, q)
    BY <2>2, <2>6, KeptTwice
  <2>. QED  BY <1>3, <2>2, <2>3, <2>6, <2>7, <2>8, <2>9 DEF Chosen
<1>5. CASE f = None
  <2>. DEFINE a == Probe(s, id)
  <2>1. Kept(s, a)
    BY ProbeKept
  <2>2. r = a
    BY <1>5
  <2>3. s.known \subseteq Files /\ Sound(s) /\ OrBack(a, s.sel).known \subseteq Files => Sound(OrBack(a, s.sel))
    BY <1>5, ProbeBack
  <2>. HIDE DEF a, r
  <2>4. IsState(a) /\ s.sel \in a.known
    BY <1>1, <2>1 DEF Kept
  <2>5. Kept(a, q)
    BY <2>2, <2>4, OrBackKept
  <2>6. Kept(s, q)
    BY <2>1, <2>5, KeptTwice
  <2>7. s.known \subseteq Files /\ Sound(s) /\ q.known \subseteq Files => Sound(q)
    BY <2>2, <2>3
  <2>. HIDE DEF q
  <2>. QED  BY <1>3, <2>6, <2>7 DEF Chosen, Sound
<1>. QED  BY <1>4, <1>5

LEMMA SelectTwoChosen ==
    ASSUME NEW s, IsState(s), s.ok, NEW id1 \in Names, NEW id2 \in Names
    PROVE  Chosen(s, 0, SelectTwo(s, id1, id2))
<1>. DEFINE a == SelectId(s, id1, 0, FALSE)
            b == Further(a, id2)
            q == OrBack(b, s.sel)
<1>1. Chosen(s, 0, a)
  BY SelectIdChosen
<1>. HIDE DEF a
<1>2. IsState(a) /\ s.known \subseteq a.known
  BY <1>1 DEF Chosen, Kept
<1>3. Chosen(a, 0, b)
  <2>1. CASE a.ok
    BY <1>2, <2>1, SelectIdChosen DEF Further
  <2>2. CASE ~a.ok
    BY <1>2, <2>2 DEF Further, Chosen, Kept, Sound
  <2>. QED  BY <2>1, <2>2
<1>. HIDE DEF b
<1>4. IsState(b) /\ a.known \subseteq b.known /\ s.sel \in b.known
  BY <1>2, <1>3 DEF Chosen, Kept, IsState
<1>5. Kept(b, q) /\ q.known = b.known /\ (b.known \subseteq Files /\ Sound(b) => Sound(q))
  BY <1>4, OrBackKept
<1>6. SelectTwo(s, id1, id2) = q
  BY DEF SelectTwo, a, b
<1>. HIDE DEF q
<1>7. Kept(s, q)
  BY <1>1, <1>3, <1>5, KeptTwice DEF Chosen
<1>8. s.known \subseteq Files /\ Sound(s) /\ q.known \subseteq Files => Sound(q)
  BY <1>1, <1>3, <1>4, <1>5 DEF Chosen
<1>. QED  BY <1>6, <1>7, <1>8 DEF Chosen, Sound

-----------------------------------------------------------------------------
(* The shell. *)

\* What a channel object holds.
Objects(k) == [sel : k, adf : k \cup {None}]

\* A directory of a walk.
Visits(k) == [dir : k, todo : SUBSET k]

\* Types. A channel object that is no longer one of the runtime state has no
\* channel of the card, and during a walk the card is not lost.
ShellType ==
    /\ Rooted(known) /\ HostFiles \subseteq known
    /\ lchans \in [DOMAIN lchans -> Objects(known)]
    /\ DOMAIN lchans \subseteq Channels /\ 0 \in DOMAIN lchans
    /\ active \in Channels
    /\ loose = None => active \in DOMAIN lchans
    /\ loose # None => loose \in Objects(known) /\ cur[active] = None /\ active # 0
    /\ cur \in [Channels -> CardFiles \cup {None}]
    /\ lost \in BOOLEAN
    /\ walk \in Seq(Visits(known))
    /\ walk # <<>> => ~lost

\* Card and host agree about every channel; after a link error, when they need
\* not, the host still knows which application without files it is in.
Agreed ==
    known \subseteq Files =>
        \A c \in DOMAIN lchans : /\ Settled(lchans[c])
                                 /\ ~lost => cur[c] = lchans[c].sel /\ cur[c] \in CardFiles

ShellInv == ShellType /\ Agreed

\* Types for a tree that has grown.
LEMMA Grown ==
    ASSUME NEW k, NEW m, k \subseteq m
    PROVE  Objects(k) \subseteq Objects(m) /\ Visits(k) \subseteq Visits(m) /\ Seq(Visits(k)) \subseteq Seq(Visits(m))
<1>1. Objects(k) \subseteq Objects(m) /\ Visits(k) \subseteq Visits(m)
  BY DEF Objects, Visits
<1>2. Seq(Visits(k)) \subseteq Seq(Visits(m))
  <2>. HIDE DEF Visits
  <2>. QED  BY <1>1
<1>. QED  BY <1>1, <1>2

\* The state a command works on.
LEMMA CommandState ==
    ASSUME ShellType
    PROVE  /\ IsState(State) /\ State.ok = TRUE /\ State.known = known
           /\ State.sel = Object.sel /\ State.adf = Object.adf /\ State.card = cur[active] /\ State.reg = reg
           /\ Object \in Objects(known)
           /\ Object.sel \in known
<1>1. Object \in Objects(known)
  BY DEF ShellType, Object
<1>2. cur[active] \in CardFiles \cup {None}
  BY DEF ShellType
<1>. DEFINE x == Object.sel
            y == Object.adf
<1>3. x \in known /\ y \in known \cup {None}
  BY <1>1 DEF Objects
<1>4. State = [known |-> known, sel |-> x, adf |-> y, reg |-> reg, card |-> cur[active], ok |-> TRUE]
  BY DEF State
<1>. HIDE DEF x, y
<1>5. IsState(State) /\ State.ok = TRUE /\ State.known = known /\ State.card = cur[active] /\ State.sel = x /\ State.adf = y
      /\ State.reg = reg
  BY <1>2, <1>3, <1>4 DEF IsState, ShellType
<1>. QED  BY <1>1, <1>3, <1>5 DEF x, y

LEMMA CommandSound ==
    ASSUME ShellInv, loose = None, known \subseteq Files
    PROVE  Settled(State) /\ (~lost => Sound(State))
<1>1. active \in DOMAIN lchans /\ Object = lchans[active]
  BY DEF ShellInv, ShellType, Object
<1>2. State.sel = Object.sel /\ State.adf = Object.adf /\ State.card = cur[active]
  BY CommandState DEF ShellInv
<1>3. Settled(Object) /\ (~lost => cur[active] = Object.sel /\ cur[active] \in CardFiles)
  BY <1>1 DEF ShellInv, Agreed
<1>. QED  BY <1>2, <1>3 DEF Sound, Settled

\* What a command leaves behind keeps the invariant.
LEMMA PutInv ==
    ASSUME ShellInv, NEW q, Kept(State, q), Put(q), active' = active,
           walk' \in Seq(Visits(known')), walk' # <<>> => ~lost', lost' \in BOOLEAN, lost => lost',
           loose = None /\ q.known \subseteq Files => Settled(q) /\ (~lost' => Sound(q))
    PROVE  ShellInv'
<1>1. /\ IsState(State) /\ State.known = known /\ State.card = cur[active]
  BY CommandState DEF ShellInv
<1>2. IsState(q) /\ known \subseteq q.known /\ (cur[active] = None => q.card = None)
  BY <1>1 DEF Kept
<1>3. /\ Rooted(q.known) /\ HostFiles \subseteq q.known /\ q.sel \in q.known /\ q.adf \in q.known \cup {None}
      /\ q.card \in CardFiles \cup {None}
  BY <1>2 DEF IsState
<1>. DEFINE o == [sel |-> q.sel, adf |-> q.adf]
<1>4. o \in Objects(q.known) /\ o.sel = q.sel /\ o.adf = q.adf
  BY <1>3 DEF Objects
<1>5. known' = q.known /\ cur' = [cur EXCEPT ![active] = q.card]
  BY DEF Put
<1>6. lchans \in [DOMAIN lchans -> Objects(q.known)]
  BY <1>2, Grown DEF ShellInv, ShellType
<1>7. /\ cur \in [Channels -> CardFiles \cup {None}] /\ active \in Channels
      /\ DOMAIN lchans \subseteq Channels /\ 0 \in DOMAIN lchans
  BY DEF ShellInv, ShellType
<1>8. cur' \in [Channels -> CardFiles \cup {None}] /\ cur'[active] = q.card /\ \A c \in Channels : c # active => cur'[c] = cur[c]
  BY <1>3, <1>5, <1>7
<1>9. ASSUME NEW c \in DOMAIN lchans, c # active \/ loose # None, q.known \subseteq Files
      PROVE  Settled(lchans[c]) /\ (~lost' => cur'[c] = lchans[c].sel /\ cur'[c] \in CardFiles)
  <2>1. Settled(lchans[c]) /\ (~lost' => cur[c] = lchans[c].sel /\ cur[c] \in CardFiles)
    BY <1>2, <1>9 DEF ShellInv, Agreed
  <2>2. CASE c # active
    BY <1>7, <1>8, <2>1, <2>2
  <2>3. CASE c = active
    <3>1. cur[active] = None
      BY <1>9, <2>3 DEF ShellInv, ShellType
    <3>2. q.card = None
      BY <1>2, <3>1
    <3>. QED  BY <1>8, <2>1, <2>3, <3>1, <3>2
  <2>. QED  BY <2>2, <2>3
<1>. HIDE DEF o
<1>10. CASE loose = None
  <2>1. lchans' = [lchans EXCEPT ![active] = o] /\ loose' = None /\ active \in DOMAIN lchans
    BY <1>10 DEF Put, o, ShellInv, ShellType
  <2>2. lchans' \in [DOMAIN lchans -> Objects(q.known)] /\ DOMAIN lchans' = DOMAIN lchans
        /\ lchans'[active] = o /\ \A c \in DOMAIN lchans : c # active => lchans'[c] = lchans[c]
    BY <1>4, <1>6, <2>1
  <2>3. ShellType'
    BY <1>3, <1>5, <1>7, <1>8, <2>1, <2>2 DEF ShellType
  <2>4. ASSUME NEW c \in DOMAIN lchans', q.known \subseteq Files
        PROVE  Settled(lchans'[c]) /\ (~lost' => cur'[c] = lchans'[c].sel /\ cur'[c] \in CardFiles)
    <3>1. CASE c = active
      <4>1. Settled(q) /\ (~lost' => Sound(q))
        BY <1>10, <2>4
      <4>. QED  BY <1>4, <1>8, <2>2, <3>1, <4>1 DEF Settled, Sound
    <3>2. CASE c # active
      BY <1>9, <2>2, <2>4, <3>2
    <3>. QED  BY <3>1, <3>2
  <2>5. Agreed'
    BY <1>5, <2>4 DEF Agreed
  <2>. QED  BY <2>3, <2>5 DEF ShellInv
<1>11. CASE loose # None
  <2>1. lchans' = lchans /\ loose' = o
    BY <1>11 DEF Put, o
  <2>2. cur'[active] = None
    BY <1>2, <1>8, <1>11 DEF ShellInv, ShellType
  <2>3. None \notin Objects(q.known)
    <3>1. q.known \subseteq Paths /\ None \notin [sel : Paths, adf : Paths \cup {None}]
      BY <1>3, ShellAssumption DEF Rooted, FileRules
    <3>. QED  BY <3>1 DEF Objects
  <2>4. loose' # None
    BY <1>4, <2>1, <2>3
  <2>5. ShellType'
    <3>1. Rooted(known') /\ HostFiles \subseteq known'
      BY <1>3, <1>5
    <3>2. lchans' \in [DOMAIN lchans' -> Objects(known')]
      BY <1>5, <1>6, <2>1
    <3>3. DOMAIN lchans' \subseteq Channels /\ 0 \in DOMAIN lchans' /\ active' \in Channels
      BY <1>7, <2>1
    <3>4. loose' \in Objects(known') /\ cur'[active'] = None /\ active' # 0
      BY <1>4, <1>5, <1>11, <2>1, <2>2 DEF ShellInv, ShellType
    <3>. QED  BY <1>8, <2>4, <3>1, <3>2, <3>3, <3>4 DEF ShellType
  <2>6. Agreed'
    BY <1>5, <1>9, <1>11, <2>1 DEF Agreed
  <2>. QED  BY <2>5, <2>6 DEF ShellInv
<1>. QED  BY <1>10, <1>11

\* An object is none of the model values.
LEMMA ObjectsNone ==
    ASSUME NEW k, Rooted(k)
    PROVE  None \notin Objects(k)
<1>1. k \subseteq Paths /\ None \notin [sel : Paths, adf : Paths \cup {None}]
  BY ShellAssumption DEF Rooted, FileRules
<1>. QED  BY <1>1 DEF Objects

\* do_select.
LEMMA SelectInv ==
    ASSUME ShellInv, NEW id \in Ids, NEW g \in Nat, NEW late \in BOOLEAN, Select(id, g, late)
    PROVE  ShellInv'
<1>. DEFINE q == SelectId(State, id, g, late)
<1>1. Put(q) /\ active' = active /\ walk' = walk /\ walk = <<>> /\ lost' = (lost \/ g > 0) /\ ~lost
  BY DEF Select, Ready, Idle
<1>6. id \in Names
  BY DEF Names
<1>2. Chosen(State, g, q)
  BY <1>6, CommandState, SelectIdChosen DEF ShellInv
<1>. HIDE DEF q
<1>3. walk' \in Seq(Visits(known'))
  BY <1>1
<1>4. ASSUME loose = None, q.known \subseteq Files PROVE Settled(q) /\ (~lost' => Sound(q))
  <2>1. State.known = known
    BY CommandState DEF ShellInv
  <2>2. known \subseteq Files
    BY <1>2, <1>4, <2>1 DEF Chosen, Kept
  <2>3. Sound(State)
    BY <1>1, <1>4, <2>2, CommandSound
  <2>5. g = 0 \/ g > 0
    OBVIOUS
  <2>6. g > 0 => lost'
    BY <1>1, Zenon
  <2>4. ~lost' => g = 0
    BY <2>5, <2>6, Zenon
  <2>. QED  BY <1>2, <1>4, <2>1, <2>2, <2>3, <2>4 DEF Chosen
<1>5. lost' \in BOOLEAN
  BY <1>1
<1>. QED  BY <1>1, <1>2, <1>3, <1>4, <1>5, PutInv DEF Chosen

LEMMA SelectPathInv ==
    ASSUME ShellInv, NEW id1 \in Ids, NEW id2 \in Ids, SelectPath(id1, id2)
    PROVE  ShellInv'
<1>. DEFINE q == SelectTwo(State, id1, id2)
<1>1. Put(q) /\ active' = active /\ walk' = walk /\ walk = <<>> /\ lost' = lost /\ ~lost /\ lost \in BOOLEAN
  BY DEF SelectPath, Ready, Idle, ShellInv, ShellType
<1>5. id1 \in Names /\ id2 \in Names
  BY DEF Names
<1>2. Chosen(State, 0, q)
  BY <1>5, CommandState, SelectTwoChosen DEF ShellInv
<1>. HIDE DEF q
<1>3. walk' \in Seq(Visits(known'))
  BY <1>1
<1>4. ASSUME loose = None, q.known \subseteq Files PROVE Settled(q) /\ (~lost' => Sound(q))
  <2>1. State.known = known
    BY CommandState DEF ShellInv
  <2>2. known \subseteq Files
    BY <1>2, <1>4, <2>1 DEF Chosen, Kept
  <2>3. Sound(State)
    BY <1>1, <1>4, <2>2, CommandSound
  <2>. QED  BY <1>2, <1>4, <2>1, <2>2, <2>3 DEF Chosen
<1>. QED  BY <1>1, <1>2, <1>3, <1>4, PutInv DEF Chosen

\* The MF, where every card and every channel begins.
LEMMA Beginning ==
    /\ MF \in CardFiles /\ MF \in HostFiles /\ ~IsADF(MF) /\ ~IsEF(MF) /\ get_cwd(MF) = MF
    /\ Settled(NewChannel) /\ NewChannel.sel = MF
    /\ \A k : HostFiles \subseteq k => NewChannel \in Objects(k)
<1>1. MF \in CardFiles /\ MF \in HostFiles /\ MF \in Files
  BY FilesRooted DEF Rooted
<1>2. ~IsADF(MF) /\ ~IsEF(MF)
  BY <1>1, AppPlace, RootPath, ShellAssumption DEF FileRules, IsEF
<1>. QED  BY <1>1, <1>2 DEF Settled, NewChannel, Objects, Bare, get_cwd

LEMMA OpenInv ==
    ASSUME ShellInv, NEW c \in Channels, OpenChannel(c)
    PROVE  ShellInv'
<1>. DEFINE o == IF active = 0 THEN NewChannel ELSE [sel |-> get_cwd(Object.sel), adf |-> Object.adf]
            x == IF active = 0 THEN MF ELSE get_cwd(cur[active])
<1>1. /\ ~lost /\ walk = <<>> /\ c # 0 /\ cur[active] # None /\ cur[c] = None /\ c \notin DOMAIN lchans
      /\ cur' = [cur EXCEPT ![c] = x]
      /\ lchans' = [d \in DOMAIN lchans \cup {c} |-> IF d # c THEN lchans[d] ELSE o]
      /\ UNCHANGED <<known, active, loose, reg, walk, lost>>
  BY DEF OpenChannel, Ready, Idle
<1>2. loose = None /\ active \in DOMAIN lchans /\ Object = lchans[active] /\ active # c
  BY <1>1 DEF ShellInv, ShellType, Object
<1>3. Object \in Objects(known) /\ Object.sel \in known /\ Object.adf \in known \cup {None}
  BY CommandState DEF ShellInv, Objects
<1>4. /\ Rooted(known) /\ HostFiles \subseteq known /\ cur \in [Channels -> CardFiles \cup {None}]
      /\ DOMAIN lchans \subseteq Channels /\ 0 \in DOMAIN lchans /\ lchans \in [DOMAIN lchans -> Objects(known)]
      /\ active \in Channels
  BY DEF ShellInv, ShellType
<1>5. o \in Objects(known)
  <2>1. get_cwd(Object.sel) \in known
    BY <1>3, <1>4, CwdOf
  <2>2. [sel |-> get_cwd(Object.sel), adf |-> Object.adf] \in Objects(known)
    BY <1>3, <2>1 DEF Objects
  <2>. QED  BY <1>4, <2>2, Beginning
<1>6. x \in CardFiles
  <2>1. cur[active] \in CardFiles
    BY <1>1, <1>4
  <2>. QED  BY <2>1, Beginning, FilesRooted, CwdOf
<1>7. ASSUME known \subseteq Files PROVE Settled(o) /\ x = o.sel
  <2>1. CASE active = 0
    BY <2>1, Beginning
  <2>2. CASE active # 0
    <3>1. Settled(Object) /\ cur[active] = Object.sel /\ cur[active] \in CardFiles
      BY <1>1, <1>2, <1>7 DEF ShellInv, Agreed
    <3>. DEFINE y == Object.sel
                z == get_cwd(y)
    <3>2. o.sel = z /\ o.adf = Object.adf /\ x = z
      BY <2>2, <3>1
    <3>3. y \in Files /\ y \in CardFiles
      BY <1>3, <1>7, <3>1
    <3>4. CASE IsEF(y)
      <4>1. ~IsADF(y)
        BY <3>4, ShellAssumption DEF FileRules, IsEF, IsADF
      <4>2. IsADF(z) => HasFs(z)
        BY <3>3, <4>1, CwdOpen
      <4>3. ~Bare(o.adf)
        BY <3>1, <3>2, <4>1 DEF Settled
      <4>. HIDE DEF o, z
      <4>4. Settled(o)
        BY <3>2, <4>2, <4>3 DEF Settled
      <4>. QED  BY <3>2, <4>4
    <3>5. CASE ~IsEF(y)
      <4>1. z = y
        BY <3>5 DEF get_cwd
      <4>. HIDE DEF o, z
      <4>2. Settled(o)
        BY <3>1, <3>2, <4>1 DEF Settled
      <4>. QED  BY <3>2, <4>2
    <3>. QED  BY <3>4, <3>5
  <2>. QED  BY <2>1, <2>2
<1>. HIDE DEF o, x
<1>8. /\ cur' \in [Channels -> CardFiles \cup {None}] /\ cur'[c] = x /\ \A d \in Channels : d # c => cur'[d] = cur[d]
  BY <1>1, <1>4, <1>6
<1>9. /\ DOMAIN lchans' = DOMAIN lchans \cup {c} /\ lchans'[c] = o
      /\ \A d \in DOMAIN lchans : lchans'[d] = lchans[d]
  BY <1>1
<1>10. lchans' \in [DOMAIN lchans' -> Objects(known)]
  <2>1. \A d \in DOMAIN lchans' : lchans'[d] \in Objects(known)
    BY <1>4, <1>5, <1>9
  <2>2. lchans' = [d \in DOMAIN lchans' |-> lchans'[d]]
    BY <1>1, <1>9
  <2>. QED  BY <2>1, <2>2
<1>11. ShellType'
  BY <1>1, <1>2, <1>4, <1>8, <1>9, <1>10 DEF ShellInv, ShellType
<1>12. Agreed'
  <2>1. SUFFICES ASSUME known \subseteq Files, NEW d \in DOMAIN lchans'
                 PROVE  Settled(lchans'[d]) /\ cur'[d] = lchans'[d].sel /\ cur'[d] \in CardFiles
    BY <1>1 DEF Agreed
  <2>2. CASE d = c
    BY <1>6, <1>7, <1>8, <1>9, <2>1, <2>2
  <2>3. CASE d # c
    <3>1. d \in DOMAIN lchans /\ d \in Channels
      BY <1>4, <1>9, <2>3
    <3>2. Settled(lchans[d]) /\ cur[d] = lchans[d].sel /\ cur[d] \in CardFiles
      BY <1>1, <2>1, <3>1 DEF ShellInv, Agreed
    <3>. QED  BY <1>8, <1>9, <2>3, <3>1, <3>2
  <2>. QED  BY <2>2, <2>3
<1>. QED  BY <1>11, <1>12 DEF ShellInv

LEMMA CloseInv ==
    ASSUME ShellInv, NEW c \in Channels, CloseChannel(c)
    PROVE  ShellInv'
<1>1. /\ ~lost /\ walk = <<>> /\ c # 0 /\ cur[active] # None
      /\ cur' = [cur EXCEPT ![c] = None]
      /\ lchans' = [d \in DOMAIN lchans \ {c} |-> lchans[d]]
      /\ loose' = IF active = c THEN Object ELSE loose
      /\ UNCHANGED <<known, active, reg, walk, lost>>
  BY DEF CloseChannel, Ready, Idle
<1>2. loose = None /\ active \in DOMAIN lchans /\ Object \in Objects(known)
  BY <1>1, CommandState DEF ShellInv, ShellType
<1>3. /\ Rooted(known) /\ HostFiles \subseteq known /\ cur \in [Channels -> CardFiles \cup {None}]
      /\ DOMAIN lchans \subseteq Channels /\ 0 \in DOMAIN lchans /\ lchans \in [DOMAIN lchans -> Objects(known)]
      /\ active \in Channels
  BY DEF ShellInv, ShellType
<1>4. Object # None
  BY <1>2, <1>3, ObjectsNone
<1>5. /\ cur' \in [Channels -> CardFiles \cup {None}] /\ cur'[c] = None /\ \A d \in Channels : d # c => cur'[d] = cur[d]
  BY <1>1, <1>3
<1>6. /\ DOMAIN lchans' = DOMAIN lchans \ {c} /\ lchans' \in [DOMAIN lchans' -> Objects(known)]
      /\ \A d \in DOMAIN lchans' : lchans'[d] = lchans[d]
  BY <1>1, <1>3
<1>7. ShellType'
  <2>1. CASE active = c
    BY <1>1, <1>2, <1>3, <1>4, <1>5, <1>6, <2>1 DEF ShellInv, ShellType
  <2>2. CASE active # c
    BY <1>1, <1>2, <1>3, <1>5, <1>6, <2>2 DEF ShellInv, ShellType
  <2>. QED  BY <2>1, <2>2
<1>8. Agreed'
  <2>1. SUFFICES ASSUME known \subseteq Files, NEW d \in DOMAIN lchans'
                 PROVE  Settled(lchans'[d]) /\ cur'[d] = lchans'[d].sel /\ cur'[d] \in CardFiles
    BY <1>1 DEF Agreed
  <2>2. d \in DOMAIN lchans /\ d \in Channels /\ d # c
    BY <1>3, <1>6
  <2>3. Settled(lchans[d]) /\ cur[d] = lchans[d].sel /\ cur[d] \in CardFiles
    BY <1>1, <2>1, <2>2 DEF ShellInv, Agreed
  <2>. QED  BY <1>5, <1>6, <2>2, <2>3
<1>. QED  BY <1>7, <1>8 DEF ShellInv

LEMMA SwitchInv ==
    ASSUME ShellInv, NEW c \in Channels, SwitchChannel(c)
    PROVE  ShellInv'
<1>1. /\ c \in DOMAIN lchans /\ active' = c /\ loose' = None
      /\ UNCHANGED <<known, lchans, walk, cur, lost>>
  BY DEF SwitchChannel
<1>2. ShellType'
  BY <1>1 DEF ShellInv, ShellType
<1>3. Agreed'
  BY <1>1 DEF ShellInv, Agreed
<1>. QED  BY <1>2, <1>3 DEF ShellInv

\* rs.reset: what is selected after it, from wherever the host was.  The first
\* selection is of the MF, and where that fails the host returns.
ResetState == [State EXCEPT !.sel = lchans[0].sel, !.adf = lchans[0].adf, !.card = MF]
ResetEnd ==
    LET r == SelectFile(ResetState, MF, 0, FALSE)
    IN  IF r.ok THEN [r EXCEPT !.adf = None] ELSE Again(r, lchans[0].sel)

\* Another application.
Apart(r, q) ==
    /\ IsState(q) /\ q.known = r.known /\ q.sel = r.sel /\ q.adf = None /\ q.card = r.card

LEMMA PutNoAdf ==
    ASSUME NEW r, IsState(r)
    PROVE  Apart(r, [r EXCEPT !.adf = None])
<1>1. r = [known |-> r.known, sel |-> r.sel, adf |-> r.adf, reg |-> r.reg, card |-> r.card, ok |-> r.ok]
  BY DEF IsState
<1>2. [r EXCEPT !.adf = None] = [known |-> r.known, sel |-> r.sel, adf |-> None, reg |-> r.reg, card |-> r.card, ok |-> r.ok]
  BY <1>1
<1>. QED  BY <1>2 DEF IsState, Apart

\* The card answers the selection of the MF, and of an application it has,
\* where it has the MF selected.
LEMMA FromRoot ==
    ASSUME NEW f \in CardFiles, f = MF \/ IsADF(f)
    PROVE  CardSelect(MF, f) = f /\ f # None
<1>1. None \notin CardFiles
  BY ShellAssumption DEF FileRules, Rooted
<1>2. CardSelect(MF, f) = f
  BY Beginning, CardFinds
<1>. QED  BY <1>1, <1>2

\* To an application of the card or to the MF, where the card answers.
LEMMA GoAnswered ==
    ASSUME NEW s, IsState(s), s.ok, s.known \subseteq Files, NEW f \in s.known, f \in CardFiles, f = MF \/ IsADF(f),
           CardSelect(s.card, f) = f, IsADF(f) \/ ~Bare(s.adf)
    PROVE  Sound(Go(s, f, 0, FALSE)) /\ Go(s, f, 0, FALSE).sel = f
<1>. DEFINE r == Go(s, f, 0, FALSE)
<1>1. 0 \notin 1..Len(PathTo(s.sel, f))
  BY NoFailure
<1>2. f # None
  BY ShellAssumption DEF FileRules, Rooted
<1>8. CardSelect(s.card, f) # None
  BY <1>2
<1>9. Answered(s, f, r)
  BY <1>1, <1>8, GoOne
<1>3. r.sel = f /\ r.card = f
  BY <1>9 DEF Answered
<1>4. Outcome(s, f, 0, r)
  BY GoOutcome
<1>5. r.adf = IF IsADF(r.sel) THEN r.sel ELSE s.adf
  BY <1>1, <1>4 DEF Outcome
<1>. HIDE DEF r
<1>6. Settled(r)
  BY <1>3, <1>5 DEF Settled
<1>7. Sound(r) /\ r.sel = f
  BY <1>3, <1>6 DEF Sound
<1>. QED  BY <1>7 DEF r

\* A selection of the MF right after a reset, by a host that knows its application.
LEMMA ResetSound ==
    ASSUME NEW s, IsState(s), s.ok, s.known \subseteq Files, Settled(s), s.card = MF
    PROVE  LET r == SelectFile(s, MF, 0, FALSE)
               q == IF r.ok THEN [r EXCEPT !.adf = None] ELSE Again(r, s.sel)
           IN  Sound(q)
<1>. DEFINE r == SelectFile(s, MF, 0, FALSE)
            q == IF r.ok THEN [r EXCEPT !.adf = None] ELSE Again(r, s.sel)
<1>1. MF \in CardFiles /\ MF \in s.known /\ s.sel \in s.known /\ ~IsADF(MF)
  BY Beginning DEF IsState
<1>2. Kept(s, r) /\ r.known = s.known
  BY <1>1, SelectFileKept
<1>. SUFFICES Sound(q)
  OBVIOUS
<1>. HIDE DEF r
<1>3. IsState(r)
  BY <1>2 DEF Kept
<1>4. r.ok \in BOOLEAN /\ (r.ok => q = [r EXCEPT !.adf = None]) /\ (~r.ok => q = Again(r, s.sel))
  BY <1>3 DEF IsState
<1>5. Apart(r, [r EXCEPT !.adf = None])
  BY <1>3, PutNoAdf
<1>. HIDE DEF q
<1>6. ASSUME Sound(r), r.sel = MF \/ ~r.ok PROVE Sound(q)
  <2>1. CASE r.ok
    <3>1. Apart(r, q) /\ r.sel = MF
      BY <1>4, <1>5, <1>6, <2>1
    <3>2. q.sel = MF /\ q.adf = None /\ q.card = q.sel /\ q.card \in CardFiles
      BY <1>6, <3>1 DEF Apart, Sound
    <3>. QED  BY <1>1, <3>2 DEF Sound, Settled, Bare
  <2>2. CASE ~r.ok
    <3>1. q = Again(r, s.sel)
      BY <1>4, <2>2
    <3>. QED  BY <1>1, <1>2, <1>3, <1>6, <3>1, AgainKept
  <2>. QED  BY <2>1, <2>2
<1>7. CASE ~Bare(s.adf)
  <2>1. r = Go(s, MF, 0, FALSE)
    BY <1>7, SelectDirect DEF Direct, r
  <2>2. Sound(r) /\ r.sel = MF
    BY <1>1, <1>7, <2>1, FromRoot, GoAnswered
  <2>. QED  BY <1>6, <2>2
<1>8. CASE Bare(s.adf) /\ Ways(s.known) = {}
  <2>1. r = Go(s, MF, 0, FALSE)
    BY <1>8, SelectDirect DEF Direct, r
  <2>2. 0 \notin 1..Len(PathTo(s.sel, MF)) /\ CardSelect(s.card, MF) = MF /\ MF # None
    BY <1>1, NoFailure, FromRoot
  <2>6. CardSelect(s.card, MF) # None
    BY <2>2
  <2>7. Answered(s, MF, r)
    BY <1>1, <2>1, <2>2, <2>6, GoOne
  <2>3. r.sel = MF /\ r.card = MF
    BY <2>2, <2>7 DEF Answered
  <2>4. CASE r.ok
    <3>1. Apart(r, q)
      BY <1>4, <1>5, <2>4
    <3>. QED  BY <1>1, <2>3, <3>1 DEF Apart, Sound, Settled, Bare
  <2>5. CASE ~r.ok
    <3>. DEFINE a == [r EXCEPT !.ok = TRUE]
    <3>1. Flagged(r, TRUE, a)
      BY <1>3, PutOk
    <3>2. IsADF(s.sel) /\ s.sel \in CardFiles
      BY <1>8 DEF Settled
    <3>3. q = SelectFile(a, s.sel, 0, FALSE)
      BY <1>4, <2>5 DEF Again
    <3>. HIDE DEF a
    <3>4. q = Go(a, s.sel, 0, FALSE)
      BY <3>2, <3>3, SelectDirect DEF Direct
    <3>5. IsState(a) /\ a.ok /\ a.known = s.known /\ a.card = MF
      BY <1>2, <2>3, <3>1 DEF Flagged
    <3>6. CardSelect(MF, s.sel) = s.sel
      BY <3>2, FromRoot
    <3>. QED  BY <1>1, <3>2, <3>4, <3>5, <3>6, GoAnswered
  <2>. QED  BY <2>4, <2>5
<1>9. CASE Bare(s.adf) /\ Ways(s.known) # {}
  <2>1. ~Direct(s, MF)
    BY <1>1, <1>9 DEF Direct
  <2>2. PICK w \in Ways(s.known) : SelectFile(s, MF, 0, FALSE) = GoFrom(Go(s, w, 0, FALSE), s.sel, MF, 0, FALSE)
    BY <2>1, SelectThrough
  <2>. DEFINE a == Go(s, w, 0, FALSE)
  <2>3. w \in s.known /\ IsADF(w) /\ HasFs(w) /\ w \in Files
    BY DEF Ways
  <2>4. Kept(s, a) /\ a.known = s.known /\ Outcome(s, w, 0, a)
    BY <2>3, GoKept, GoOutcome
  <2>5. 0 \notin 1..Len(PathTo(s.sel, w))
    BY <2>3, NoFailure
  <2>6. IsADF(s.sel) /\ s.sel \in CardFiles
    BY <1>9 DEF Settled
  <2>7. CASE w \in CardFiles
    <3>1. Sound(a) /\ a.sel = w
      BY <2>3, <2>7, FromRoot, GoAnswered
    <3>2. a.adf = w
      BY <2>3, <2>4, <2>5, <3>1 DEF Outcome
    <3>. HIDE DEF a
    <3>3. IsState(a) /\ a.ok \in BOOLEAN
      BY <2>4 DEF Kept, IsState
    <3>4. CASE a.ok
      <4>1. r = Go(a, MF, 0, FALSE)
        BY <2>2, <3>4 DEF GoFrom, a, r
      <4>2. ~Bare(a.adf)
        BY <2>3, <3>2 DEF Bare
      <4>3. 0 \notin 1..Len(PathTo(a.sel, MF))
        BY <1>1, <2>4, <3>3, NoFailure
      <4>4. Sound(r)
        BY <1>1, <2>4, <3>1, <3>3, <3>4, <4>1, <4>2, <4>3, GoSound
      <4>5. Outcome(a, MF, 0, r)
        BY <1>1, <2>4, <3>3, <4>1, GoOutcome
      <4>6. r.ok => r.sel = MF
        BY <4>3, <4>5 DEF Outcome
      <4>. QED  BY <1>4, <1>6, <4>4, <4>6
    <3>5. CASE ~a.ok
      <4>1. r = [Return(a, s.sel) EXCEPT !.ok = FALSE]
        BY <2>2, <3>5 DEF GoFrom, Return, a, r
      <4>2. Sound(r)
        BY <1>1, <2>4, <2>6, <3>1, <3>3, <4>1, ReturnSound DEF Direct
      <4>3. r.ok = FALSE
        BY <1>1, <2>4, <3>3, <4>1, ReturnKept
      <4>. QED  BY <1>6, <4>2, <4>3
    <3>. QED  BY <3>3, <3>4, <3>5
  <2>8. CASE w \notin CardFiles
    <3>1. CardSelect(MF, w) = None
      BY <2>3, <2>8, AppPlace DEF CardSelect
    <3>2. PathTo(s.sel, w)[1] = w
      <4>1. Rooted(s.known)
        BY DEF IsState
      <4>. QED  BY <1>1, <2>3, <4>1, WayToApp
    <3>3. a.card = MF /\ a.sel = s.sel /\ ~a.ok
      BY <2>3, <2>5, <3>1, <3>2, GoStuck
    <3>. HIDE DEF a
    <3>4. IsState(a)
      BY <2>4 DEF Kept
    <3>. DEFINE b == [a EXCEPT !.ok = TRUE]
                d == Go(b, s.sel, 0, FALSE)
    <3>5. Flagged(a, TRUE, b)
      BY <3>4, PutOk
    <3>6. r = [d EXCEPT !.ok = FALSE]
      BY <2>2, <3>3 DEF GoFrom, a, r
    <3>. HIDE DEF b
    <3>7. IsState(b) /\ b.ok /\ b.known = s.known /\ b.card = MF
      BY <2>4, <3>3, <3>5 DEF Flagged
    <3>8. CardSelect(MF, s.sel) = s.sel
      BY <2>6, FromRoot
    <3>9. Sound(d) /\ IsState(d)
      BY <1>1, <2>6, <3>7, <3>8, GoAnswered, GoKept DEF Kept
    <3>. HIDE DEF d
    <3>10. Flagged(d, FALSE, r)
      BY <3>6, <3>9, PutOk
    <3>11. Sound(r) /\ ~r.ok
      BY <3>9, <3>10, FlagSound DEF Flagged
    <3>. QED  BY <1>6, <3>11
  <2>. QED  BY <2>7, <2>8
<1>. QED  BY <1>7, <1>8, <1>9

\* The state after a reset of the card.
LEMMA ResetBegins ==
    ASSUME ShellInv
    PROVE  LET s == ResetState
           IN  /\ IsState(s) /\ s.ok /\ s.known = known /\ s.card = MF /\ s.sel = lchans[0].sel /\ s.sel \in known
               /\ known \subseteq Files => Settled(s)
<1>. DEFINE x == lchans[0].sel
            y == lchans[0].adf
            s == ResetState
            v == Object.sel
            w == Object.adf
            u == cur[active]
<1>1. State = [known |-> known, sel |-> v, adf |-> w, reg |-> reg, card |-> u, ok |-> TRUE]
  BY DEF State
<1>2. lchans[0] \in Objects(known) /\ Rooted(known) /\ HostFiles \subseteq known
  BY DEF ShellInv, ShellType
<1>3. x \in known /\ y \in known \cup {None}
  BY <1>2 DEF Objects
<1>4. s = [known |-> known, sel |-> x, adf |-> y, reg |-> reg, card |-> MF, ok |-> TRUE]
  <2>. DEFINE b == State
              R == [known : {known}, sel : {v, x}, adf : {w, y}, reg : {reg}, card : {u, MF}, ok : {TRUE}]
              a == [b EXCEPT !.sel = x]
              c == [a EXCEPT !.adf = y]
              d == [c EXCEPT !.card = MF]
  <2>1. s = d
    BY DEF ResetState
  <2>. HIDE DEF x, y, v, w, u, b
  <2>2. b \in R
    BY <1>1 DEF b
  <2>3. a \in R /\ a.sel = x
    BY <2>2
  <2>. HIDE DEF a
  <2>4. c \in R /\ c.sel = x /\ c.adf = y
    BY <2>3
  <2>. HIDE DEF c
  <2>5. d \in R /\ d.sel = x /\ d.adf = y /\ d.card = MF
    BY <2>4
  <2>. HIDE DEF d
  <2>6. d = [known |-> known, sel |-> x, adf |-> y, reg |-> reg, card |-> MF, ok |-> TRUE]
    BY <2>5
  <2>. QED  BY <2>1, <2>6 DEF x, y
<1>5. known \subseteq Files => Settled(lchans[0])
  BY DEF ShellInv, ShellType, Agreed
<1>. HIDE DEF s
<1>6. s.sel = x /\ s.adf = y /\ s.ok = TRUE /\ s.known = known /\ s.card = MF
  BY <1>4
<1>7. IsState(s)
  <2>. HIDE DEF x, y
  <2>. QED  BY <1>2, <1>3, <1>4, Beginning DEF IsState
<1>8. known \subseteq Files => Settled(s)
  BY <1>5, <1>6 DEF Settled
<1>. QED  BY <1>3, <1>6, <1>7, <1>8 DEF s

\* One channel, and the walk of a shell that is idle.
LEMMA OneChannel ==
    ASSUME Rooted(known'), HostFiles \subseteq known', NEW o \in Objects(known'), NEW c \in CardFiles \cup {None},
           lchans' = [d \in {0} |-> o], cur' = [d \in Channels |-> IF d = 0 THEN c ELSE None],
           active' = 0, loose' = None, lost' = FALSE, walk' = <<>>,
           known' \subseteq Files => Settled(o) /\ c = o.sel /\ c \in CardFiles
    PROVE  ShellInv'
<1>1. 0 \in Channels
  BY ShellAssumption DEF FileRules
<1>2. DOMAIN lchans' = {0} /\ lchans'[0] = o /\ cur'[0] = c
  BY <1>1
<1>3. lchans' \in [DOMAIN lchans' -> Objects(known')] /\ cur' \in [Channels -> CardFiles \cup {None}]
  BY <1>2
<1>6. walk' \in Seq(Visits(known'))
  OBVIOUS
<1>4. ShellType'
  BY <1>1, <1>2, <1>3, <1>6 DEF ShellType
<1>5. Agreed'
  BY <1>2 DEF Agreed
<1>. QED  BY <1>4, <1>5 DEF ShellInv

LEMMA ResetInv ==
    ASSUME ShellInv, Reset
    PROVE  ShellInv'
<1>. DEFINE s == ResetState
            r == SelectFile(s, MF, 0, FALSE)
            q == ResetEnd
            o == [sel |-> q.sel, adf |-> q.adf]
<1>1. /\ walk = <<>> /\ walk' = walk /\ known' = known
      /\ lchans' = [c \in {0} |-> o] /\ cur' = [c \in Channels |-> IF c = 0 THEN q.card ELSE None]
      /\ active' = 0 /\ loose' = None /\ lost' = FALSE
  BY DEF Reset, Idle, ResetEnd, ResetState, Again
<1>2. /\ IsState(s) /\ s.ok /\ s.known = known /\ s.card = MF /\ s.sel = lchans[0].sel /\ s.sel \in known
      /\ known \subseteq Files => Settled(s)
  BY ResetBegins
<1>. HIDE DEF s
<1>3. MF \in s.known
  BY <1>2, Beginning DEF IsState
<1>4. Kept(s, r) /\ r.known = s.known
  BY <1>2, <1>3, SelectFileKept
<1>5. q = IF r.ok THEN [r EXCEPT !.adf = None] ELSE Again(r, s.sel)
  BY <1>2 DEF ResetEnd, s
<1>6. known \subseteq Files => Sound(q)
  BY <1>2, <1>5, ResetSound
<1>. HIDE DEF r, q
<1>7. IsState(r) /\ s.sel \in r.known /\ r.ok \in BOOLEAN
  BY <1>2, <1>4 DEF Kept, IsState
<1>8. IsState(q) /\ q.known = known
  <2>1. CASE r.ok
    <3>1. Apart(r, q)
      BY <1>5, <1>7, <2>1, PutNoAdf
    <3>. QED  BY <1>2, <1>4, <3>1 DEF Apart
  <2>2. CASE ~r.ok
    <3>1. q = Again(r, s.sel)
      BY <1>5, <2>2
    <3>2. Kept(r, q) /\ q.known = r.known
      BY <1>7, <3>1, AgainKept
    <3>. QED  BY <1>2, <1>4, <3>2 DEF Kept
  <2>. QED  BY <1>7, <2>1, <2>2
<1>9. Rooted(known) /\ HostFiles \subseteq known /\ q.sel \in known /\ q.adf \in known \cup {None} /\ q.card \in CardFiles \cup {None}
  BY <1>8 DEF IsState
<1>10. o \in Objects(known) /\ o.sel = q.sel /\ o.adf = q.adf
  BY <1>9 DEF Objects
<1>. HIDE DEF o
<1>11. known \subseteq Files => Settled(o) /\ q.card = o.sel /\ q.card \in CardFiles
  BY <1>6, <1>10 DEF Sound, Settled
<1>. QED  BY <1>1, <1>9, <1>10, <1>11, OneChannel

LEMMA EquipInv ==
    ASSUME ShellInv, Equip
    PROVE  ShellInv'
<1>1. /\ walk' = <<>> /\ known' = HostFiles /\ lchans' = [c \in {0} |-> NewChannel]
      /\ cur' = [c \in Channels |-> IF c = 0 THEN MF ELSE None]
      /\ active' = 0 /\ loose' = None /\ lost' = FALSE
  BY DEF Equip, Idle, CardReset
<1>2. NewChannel \in Objects(known') /\ Settled(NewChannel) /\ MF = NewChannel.sel /\ MF \in CardFiles
  BY <1>1, Beginning
<1>3. Rooted(known') /\ HostFiles \subseteq known'
  BY <1>1, FilesRooted
<1>. QED  BY <1>1, <1>2, <1>3, OneChannel

LEMMA EquipFailsInv ==
    ASSUME ShellInv, EquipFails
    PROVE  ShellInv'
<1>1. /\ walk = <<>> /\ cur' = [c \in Channels |-> IF c = 0 THEN MF ELSE None] /\ lost' = TRUE
      /\ UNCHANGED <<known, lchans, active, loose, reg, walk>>
  BY DEF EquipFails, Ready, Idle, CardReset
<1>2. cur' \in [Channels -> CardFiles \cup {None}]
  BY <1>1, Beginning
<1>3. loose # None => active # 0
  BY DEF ShellInv, ShellType
<1>4. ShellType'
  BY <1>1, <1>2, <1>3 DEF ShellInv, ShellType
<1>5. Agreed'
  BY <1>1 DEF ShellInv, Agreed
<1>. QED  BY <1>4, <1>5 DEF ShellInv

\* A file that is selected again by its FID is the file that is selected.
LEMMA WriteHits ==
    ASSUME NEW e \in CardFiles, IsEF(e)
    PROVE  CardSelectFid(e, LastId(e)) = e /\ e # None
<1>1. e \in Files /\ None \notin CardFiles
  BY FilesRooted, ShellAssumption DEF FileRules, Rooted
<1>2. ~IsADF(e)
  BY <1>1, AppPlace
<1>3. Parent(e) = get_cwd(e)
  BY DEF get_cwd
<1>4. IsADF(get_cwd(e)) => HasFs(get_cwd(e))
  BY <1>2, CwdOpen
<1>5. CardSelect(e, e) = e
  BY <1>3, <1>4, CardFinds
<1>6. CardSelect(e, e) = CardSelectFid(e, LastId(e))
  BY <1>2 DEF CardSelect
<1>. QED  BY <1>1, <1>5, <1>6

LEMMA UpdateInv ==
    ASSUME ShellInv, Update
    PROVE  ShellInv'
<1>. DEFINE c == CardSelectFid(cur[active], LastId(Object.sel))
<1>1. /\ walk = <<>> /\ ~lost /\ IsEF(Object.sel) /\ c # None /\ cur' = [cur EXCEPT ![active] = c]
      /\ UNCHANGED <<known, lchans, active, loose, reg, walk, lost>>
  BY DEF Update, Ready, Idle
<1>2. cur \in [Channels -> CardFiles \cup {None}] /\ active \in Channels
  BY DEF ShellInv, ShellType
<1>3. cur[active] # None
  BY <1>1 DEF CardSelectFid
<1>4. loose = None
  BY <1>3 DEF ShellInv, ShellType
<1>5. active \in DOMAIN lchans /\ Object = lchans[active]
  BY <1>4 DEF ShellInv, ShellType, Object
<1>6. c \in CardFiles
  BY <1>1, <1>2, FidFound DEF Found
<1>7. known \subseteq Files => c = cur[active]
  <2>1. SUFFICES ASSUME known \subseteq Files PROVE c = cur[active]
    OBVIOUS
  <2>2. cur[active] = Object.sel /\ cur[active] \in CardFiles
    BY <1>1, <1>5, <2>1 DEF ShellInv, Agreed
  <2>. QED  BY <1>1, <2>2, WriteHits
<1>. HIDE DEF c
<1>8. cur' \in [Channels -> CardFiles \cup {None}] /\ (c = cur[active] => cur' = cur)
  BY <1>1, <1>2, <1>6
<1>9. ShellType'
  BY <1>1, <1>4, <1>8 DEF ShellInv, ShellType
<1>10. Agreed'
  BY <1>1, <1>7, <1>8 DEF ShellInv, Agreed
<1>. QED  BY <1>9, <1>10 DEF ShellInv

\* The command sets and the card's file are no part of what the host knows.
LEMMA PutReg ==
    ASSUME NEW r, IsState(r), NEW R
    PROVE  LET q == [r EXCEPT !.reg = R]
           IN  IsState(q) /\ q.known = r.known /\ q.sel = r.sel /\ q.adf = r.adf /\ q.card = r.card
<1>. DEFINE q == [r EXCEPT !.reg = R]
<1>1. r = [known |-> r.known, sel |-> r.sel, adf |-> r.adf, reg |-> r.reg, card |-> r.card, ok |-> r.ok]
  BY DEF IsState
<1>2. q = [known |-> r.known, sel |-> r.sel, adf |-> r.adf, reg |-> R, card |-> r.card, ok |-> r.ok]
  BY <1>1
<1>. HIDE DEF q
<1>3. IsState(q) /\ q.known = r.known /\ q.sel = r.sel /\ q.adf = r.adf /\ q.card = r.card
  BY <1>2 DEF IsState
<1>. QED  BY <1>3 DEF q

LEMMA PutCard ==
    ASSUME NEW r, IsState(r), NEW c \in CardFiles
    PROVE  LET q == [r EXCEPT !.card = c]
           IN  IsState(q) /\ q.known = r.known /\ q.sel = r.sel /\ q.adf = r.adf /\ q.card = c /\ q.ok = r.ok
<1>. DEFINE q == [r EXCEPT !.card = c]
<1>1. r = [known |-> r.known, sel |-> r.sel, adf |-> r.adf, reg |-> r.reg, card |-> r.card, ok |-> r.ok]
  BY DEF IsState
<1>2. q = [known |-> r.known, sel |-> r.sel, adf |-> r.adf, reg |-> r.reg, card |-> c, ok |-> r.ok]
  BY <1>1
<1>. HIDE DEF q
<1>3. IsState(q) /\ q.known = r.known /\ q.sel = r.sel /\ q.adf = r.adf /\ q.card = c /\ q.ok = r.ok
  BY <1>2 DEF IsState
<1>. QED  BY <1>3 DEF q

\* From a file below the current DF the card finds what is above the selected one.
LEMMA StepBack ==
    ASSUME NEW x \in CardFiles, NEW f \in CardFiles, ~IsADF(f), Parent(f) = get_cwd(x), f # MF
    PROVE  Step(f, Parent(x))
<1>. DEFINE q == Parent(x)
<1>1. InTree(CardFiles, x) /\ InTree(CardFiles, f) /\ f \in Files /\ x \in Files
  BY FilesRooted, TreeFile
<1>2. q \in CardFiles /\ Parent(f) \in CardFiles /\ f \in Paths /\ Len(f) > 1 /\ Len(f) \in Nat
  BY <1>1 DEF InTree
<1>3. CASE q = MF
  BY <1>3 DEF Step
<1>4. CASE q # MF /\ IsEF(f)
  <2>1. get_cwd(f) = Parent(f)
    BY <1>4 DEF get_cwd
  <2>2. Parent(f) = q \/ Parent(f) = x
    BY DEF get_cwd
  <2>. QED  BY <1>2, <1>4, <2>1, <2>2, NearFound DEF Step
<1>5. CASE q # MF /\ ~IsEF(f) /\ Parent(f) = q
  <2>1. get_cwd(f) = f
    BY <1>5 DEF get_cwd
  <2>. QED  BY <1>2, <1>5, <2>1, NearFound DEF Step
<1>6. CASE q # MF /\ ~IsEF(f) /\ Parent(f) = x
  <2>1. get_cwd(f) = f
    BY <1>6 DEF get_cwd
  <2>2. x # MF
    BY <1>6, RootPath
  <2>. DEFINE n == Len(f)
  <2>3. x = Prefix(f, n - 1) /\ x \in Paths /\ Len(x) = n - 1 /\ Len(x) > 1
    BY <1>1, <1>2, <1>6, <2>2, ParentOf DEF InTree
  <2>4. q = Prefix(x, Len(x) - 1)
    BY <2>3, ParentOf
  <2>5. n \in Nat /\ n > 1
    BY <1>2
  <2>6. n - 1 \in 0..n /\ (n - 1) - 1 \in 0..(n - 1) /\ (n - 1) - 1 \in 1..n
    <3>1. n - 1 > 1
      BY <2>3
    <3>. HIDE DEF n
    <3>. QED  BY <2>5, <3>1
  <2>7. q = Prefix(f, (n - 1) - 1)
    BY <1>2, <2>3, <2>4, <2>6, PrefixOfPrefix
  <2>. HIDE DEF n, q
  <2>8. Near(f, q)
    BY <2>6, <2>7 DEF Near, n
  <2>. QED  BY <2>1, <2>8 DEF Step, q
<1>7. Parent(f) = q \/ Parent(f) = x
  BY DEF get_cwd
<1>. QED  BY <1>3, <1>4, <1>5, <1>6, <1>7

\* do_create_ef, do_create_df, do_resize_ef.
LEMMA ReselectSound ==
    ASSUME NEW s, IsState(s), s.ok, s.known \subseteq Files, Settled(s), s.sel \in CardFiles, NEW f \in CardFiles, s.card = f,
           ~IsADF(f), Parent(f) = get_cwd(s.sel)
    PROVE  LET r == SelectFile(s, s.sel, 0, FALSE) IN Settled(r) /\ (r.ok => Sound(r))
<1>. DEFINE x == s.sel
            p == PathTo(x, x)
            r == Go(s, x, 0, FALSE)
<1>1. x \in s.known /\ x \in Files /\ x \in CardFiles
  BY FilesRooted DEF IsState
<1>2. ~Bare(s.adf)
  <2>1. SUFFICES ASSUME Bare(s.adf) PROVE FALSE
    OBVIOUS
  <2>2. IsADF(x) /\ ~HasFs(x)
    BY <2>1 DEF Settled, Bare
  <2>3. get_cwd(x) = x
    BY <1>1, <2>2, AppPlace DEF get_cwd
  <2>. QED  BY <2>2, <2>3, ParentNoEF
<1>3. SelectFile(s, x, 0, FALSE) = r
  BY <1>2, SelectDirect DEF Direct
<1>4. Settled(r)
  BY <1>1, <1>2, GoSettles
<1>5. 0 \notin 1..Len(p)
  BY <1>1, NoFailure
<1>6. Step(f, p[1])
  <2>1. p[1] = MF \/ IsADF(p[1]) \/ p[1] = Parent(x)
    BY <1>1, PathConnected DEF Connected
  <2>2. f = MF => Parent(x) = MF
    BY RootPath DEF get_cwd
  <2>3. CASE p[1] = Parent(x) /\ p[1] # MF
    BY <1>1, <2>2, <2>3, StepBack
  <2>. QED  BY <2>1, <2>3 DEF Step
<1>7. ASSUME r.ok PROVE Sound(r)
  <2>1. CardSelect(f, p[1]) # None
    BY <1>1, <1>5, <1>7, GoStuck
  <2>2. r.card = r.sel /\ r.card \in CardFiles
    BY <1>1, <1>5, <1>6, <2>1, GoMoves
  <2>. QED  BY <1>4, <2>2 DEF Sound
<1>. QED  BY <1>3, <1>4, <1>7

LEMMA ReselectInv ==
    ASSUME ShellInv, NEW f \in CardFiles, Reselect(f)
    PROVE  ShellInv'
<1>. DEFINE a == [State EXCEPT !.card = f]
            s == SelectFile(a, Object.sel, 0, FALSE)
            q == [s EXCEPT !.reg = reg]
<1>1. /\ walk = <<>> /\ ~lost /\ cur[active] # None /\ Parent(f) = get_cwd(cur[active]) /\ ~IsADF(f)
      /\ Put(q) /\ lost' = (lost \/ ~s.ok) /\ active' = active /\ walk' = walk
  BY DEF Reselect, Ready, Idle
<1>2. /\ IsState(State) /\ State.ok = TRUE /\ State.known = known /\ State.sel = Object.sel
      /\ State.adf = Object.adf /\ State.card = cur[active] /\ Object.sel \in known
  BY CommandState DEF ShellInv
<1>3. loose = None
  BY <1>1 DEF ShellInv, ShellType
<1>4. /\ IsState(a) /\ a.ok = TRUE /\ a.known = known /\ a.sel = Object.sel /\ a.adf = State.adf /\ a.card = f
  BY <1>2, PutCard
<1>. HIDE DEF a
<1>5. Kept(a, s) /\ s.known = known
  BY <1>2, <1>4, SelectFileKept
<1>6. ASSUME known \subseteq Files PROVE Settled(s) /\ (s.ok => Sound(s))
  <2>1. Sound(State)
    BY <1>1, <1>3, <1>6, CommandSound
  <2>2. Settled(a) /\ a.sel \in CardFiles /\ Parent(f) = get_cwd(a.sel)
    BY <1>1, <1>2, <1>4, <2>1 DEF Sound, Settled
  <2>. QED  BY <1>1, <1>4, <1>6, <2>2, ReselectSound
<1>. HIDE DEF s
<1>7. IsState(s) /\ s.ok \in BOOLEAN
  BY <1>5 DEF Kept, IsState
<1>8. IsState(q) /\ q.known = s.known /\ q.sel = s.sel /\ q.adf = s.adf /\ q.card = s.card
  BY <1>7, PutReg
<1>. HIDE DEF q
<1>9. Kept(State, q)
  BY <1>1, <1>2, <1>5, <1>8 DEF Kept
<1>10. lost' \in BOOLEAN /\ (~lost' => s.ok)
  BY <1>1, <1>7, Zenon
<1>11. ASSUME q.known \subseteq Files PROVE Settled(q) /\ (~lost' => Sound(q))
  BY <1>5, <1>6, <1>8, <1>10, <1>11 DEF Settled, Sound
<1>12. walk' \in Seq(Visits(known')) /\ walk' = <<>>
  BY <1>1
<1>. QED  BY <1>1, <1>9, <1>10, <1>11, <1>12, PutInv

-----------------------------------------------------------------------------
(* The walks. *)

LEMMA WalkStartInv ==
    ASSUME ShellInv, WalkStart
    PROVE  ShellInv'
<1>. DEFINE v == [dir |-> Object.sel, todo |-> Below(Object.sel)]
<1>1. ~lost /\ walk' = <<v>> /\ UNCHANGED <<known, lchans, active, loose, reg, cur, lost>>
  BY DEF WalkStart, Ready, hostVars, cardVars
<1>2. Object.sel \in known
  BY CommandState DEF ShellInv
<1>3. v \in Visits(known)
  BY <1>2 DEF Visits, Below, Children
<1>. HIDE DEF v
<1>4. walk' \in Seq(Visits(known'))
  BY <1>1, <1>3
<1>5. ShellType'
  BY <1>1, <1>4 DEF ShellInv, ShellType
<1>6. Agreed'
  BY <1>1 DEF ShellInv, Agreed
<1>. QED  BY <1>5, <1>6 DEF ShellInv

\* What a walk is at.
LEMMA AtWalk ==
    ASSUME ShellType, ~Idle
    PROVE  /\ Len(walk) \in Nat /\ Len(walk) >= 1 /\ Top \in Visits(known) /\ Top.todo \subseteq known
           /\ Top.todo # {} => First \in known
           /\ LET rest == [walk EXCEPT ![Len(walk)].todo = @ \ {First}] IN rest \in Seq(Visits(known))
           /\ SubSeq(walk, 1, Len(walk) - 1) \in Seq(Visits(known))
           /\ ~lost
<1>1. walk \in Seq(Visits(known)) /\ walk # <<>> /\ ~lost
  BY DEF ShellType, Idle
<1>. DEFINE V == Visits(known)
            n == Len(walk)
<1>2. \A v \in V : [v EXCEPT !.todo = @ \ {First}] \in V /\ v.todo \subseteq known
  BY DEF Visits
<1>. HIDE DEF V
<1>3. n \in Nat /\ n >= 1 /\ walk \in [1..n -> V]
  BY <1>1, LenProperties, EmptySeq DEF V
<1>4. Top \in V
  BY <1>3 DEF Top
<1>5. Top.todo \subseteq known
  BY <1>2, <1>4
<1>6. Top.todo # {} => First \in known
  BY <1>5 DEF First
<1>7. [walk EXCEPT ![n].todo = @ \ {First}] \in Seq(V)
  <2>. DEFINE w == [walk EXCEPT ![n].todo = @ \ {First}]
  <2>1. w \in [1..n -> V]
    BY <1>2, <1>3
  <2>. HIDE DEF w
  <2>2. w \in Seq(V)
    BY <1>3, <2>1, FunctionIsSeq
  <2>. QED  BY <2>2 DEF w
<1>8. SubSeq(walk, 1, n - 1) \in Seq(V)
  BY <1>1, <1>3, SubSeqProperties DEF V
<1>. QED  BY <1>1, <1>3, <1>4, <1>5, <1>6, <1>7, <1>8 DEF V

LEMMA WalkEFInv ==
    ASSUME ShellInv, WalkEF
    PROVE  ShellInv'
<1>. DEFINE s == SelectFile(State, First, 0, FALSE)
            b == Again(s, Object.sel)
            q == IF s.sel = Object.sel THEN s ELSE b
<1>1. /\ ~Idle /\ Top.todo # {} /\ Put(q) /\ walk' = [walk EXCEPT ![Len(walk)].todo = @ \ {First}]
      /\ active' = active /\ lost' = lost
  BY DEF WalkEF, Again
<1>2. First \in known /\ walk' \in Seq(Visits(known)) /\ ~lost /\ lost \in BOOLEAN
  BY <1>1, AtWalk DEF ShellInv, ShellType
<1>3. /\ IsState(State) /\ State.ok = TRUE /\ State.known = known /\ Object.sel \in known
  BY CommandState DEF ShellInv
<1>4. Kept(State, s) /\ s.known = known
  BY <1>2, <1>3, SelectFileKept
<1>5. loose = None /\ known \subseteq Files => Sound(s)
  BY <1>2, <1>3, CommandSound, SelectFileSound
<1>. HIDE DEF s
<1>6. IsState(s)
  BY <1>4 DEF Kept
<1>7. Kept(s, b) /\ b.known = known /\ (known \subseteq Files /\ Sound(s) => Sound(b))
  BY <1>3, <1>4, <1>6, AgainKept
<1>8. Kept(State, b)
  BY <1>4, <1>7, KeptTwice
<1>. HIDE DEF b
<1>9. Kept(State, q) /\ q.known = known /\ (loose = None /\ known \subseteq Files => Sound(q))
  BY <1>4, <1>5, <1>7, <1>8
<1>. HIDE DEF q
<1>10. known' = known
  BY <1>1, <1>9 DEF Put
<1>11. walk' \in Seq(Visits(known')) /\ lost' \in BOOLEAN /\ ~lost'
  BY <1>1, <1>2, <1>10
<1>. QED  BY <1>1, <1>9, <1>11, PutInv DEF Sound

LEMMA WalkDFInv ==
    ASSUME ShellInv, WalkDF
    PROVE  ShellInv'
<1>. DEFINE q == SelectId(State, LastId(First), 0, FALSE)
            rest == [walk EXCEPT ![Len(walk)].todo = @ \ {First}]
            v == [dir |-> First, todo |-> Below(First)]
<1>1. /\ ~Idle /\ Top.todo # {} /\ Put(q) /\ walk' = (IF q.ok THEN Append(rest, v) ELSE rest)
      /\ active' = active /\ lost' = lost
  BY DEF WalkDF
<1>2. First \in known /\ rest \in Seq(Visits(known)) /\ ~lost /\ lost \in BOOLEAN
  BY <1>1, AtWalk DEF ShellInv, ShellType
<1>3. /\ IsState(State) /\ State.ok = TRUE /\ State.known = known /\ Rooted(known)
  BY CommandState DEF ShellInv, ShellType
<1>4. LastId(First) \in Names
  <2>1. First \in Seq(Names) /\ Len(First) \in Nat /\ Len(First) >= 1
    BY <1>2, <1>3, TreeFile DEF InTree, Paths
  <2>2. First[Len(First)] \in Names
    BY <2>1, LenProperties
  <2>. QED  BY <2>2 DEF LastId
<1>5. Chosen(State, 0, q)
  BY <1>3, <1>4, SelectIdChosen
<1>6. v \in Visits(known)
  BY <1>2 DEF Visits, Below, Children
<1>. HIDE DEF q, rest, v
<1>7. Kept(State, q) /\ known \subseteq q.known
  BY <1>3, <1>5 DEF Chosen, Kept
<1>8. known' = q.known
  BY <1>1 DEF Put
<1>9. rest \in Seq(Visits(known')) /\ v \in Visits(known')
  BY <1>2, <1>6, <1>7, <1>8, Grown
<1>10. walk' \in Seq(Visits(known'))
  BY <1>1, <1>9
<1>11. loose = None /\ q.known \subseteq Files => Sound(q)
  BY <1>2, <1>3, <1>5, <1>7, CommandSound DEF Chosen
<1>12. lost' \in BOOLEAN /\ ~lost'
  BY <1>1, <1>2
<1>. QED  BY <1>1, <1>7, <1>10, <1>11, <1>12, PutInv DEF Sound

LEMMA WalkUpInv ==
    ASSUME ShellInv, WalkUp
    PROVE  ShellInv'
<1>. DEFINE q == SelectFile(State, Parent(Object.sel), 0, FALSE)
<1>1. /\ ~Idle /\ walk' = SubSeq(walk, 1, Len(walk) - 1) /\ active' = active /\ lost' = lost
      /\ UNCHANGED <<known, reg, cur, lchans, loose>> \/ Put(q)
  BY DEF WalkUp
<1>2. walk' \in Seq(Visits(known)) /\ ~lost /\ lost \in BOOLEAN
  BY <1>1, AtWalk DEF ShellInv, ShellType
<1>3. CASE UNCHANGED <<known, reg, cur, lchans, loose>>
  <2>1. ShellType'
    BY <1>1, <1>2, <1>3 DEF ShellInv, ShellType
  <2>2. Agreed'
    BY <1>1, <1>3 DEF ShellInv, Agreed
  <2>. QED  BY <2>1, <2>2 DEF ShellInv
<1>4. CASE Put(q)
  <2>1. /\ IsState(State) /\ State.ok = TRUE /\ State.known = known /\ Object.sel \in known /\ Rooted(known)
    BY CommandState DEF ShellInv, ShellType
  <2>2. Parent(Object.sel) \in known
    BY <2>1, TreeFile DEF InTree
  <2>3. Kept(State, q) /\ q.known = known
    BY <2>1, <2>2, SelectFileKept
  <2>4. loose = None /\ known \subseteq Files => Sound(q)
    BY <1>2, <2>1, <2>2, CommandSound, SelectFileSound
  <2>. HIDE DEF q
  <2>5. known' = known
    BY <1>4, <2>3 DEF Put
  <2>6. walk' \in Seq(Visits(known')) /\ lost' \in BOOLEAN /\ ~lost'
    BY <1>1, <1>2, <2>5
  <2>. QED  BY <1>1, <1>4, <2>3, <2>4, <2>6, PutInv DEF Sound
<1>. QED  BY <1>1, <1>3, <1>4

-----------------------------------------------------------------------------

\* The initial state.
LEMMA ShellInit == Init => ShellInv
<1>. SUFFICES ASSUME Init PROVE ShellInv
  OBVIOUS
<1>1. /\ known = HostFiles /\ lchans = [c \in {0} |-> NewChannel] /\ active = 0 /\ loose = None /\ walk = <<>>
      /\ cur = [c \in Channels |-> IF c = 0 THEN MF ELSE None] /\ lost = FALSE
  BY DEF Init
<1>2. NewChannel \in Objects(known) /\ Settled(NewChannel) /\ MF = NewChannel.sel /\ MF \in CardFiles
  BY <1>1, Beginning
<1>3. Rooted(known) /\ 0 \in Channels
  BY <1>1, FilesRooted, ShellAssumption DEF FileRules
<1>4. DOMAIN lchans = {0} /\ lchans[0] = NewChannel /\ cur[0] = MF
  BY <1>1, <1>3
<1>5. lchans \in [DOMAIN lchans -> Objects(known)] /\ cur \in [Channels -> CardFiles \cup {None}]
  BY <1>1, <1>2, <1>4
<1>6. walk \in Seq(Visits(known))
  BY <1>1
<1>7. ShellType
  BY <1>1, <1>3, <1>4, <1>5, <1>6 DEF ShellType
<1>8. Agreed
  BY <1>2, <1>4 DEF Agreed
<1>. QED  BY <1>7, <1>8 DEF ShellInv

\* Every step.
LEMMA ShellNext == ShellInv /\ [Next]_vars => ShellInv'
<1>. SUFFICES ASSUME ShellInv, [Next]_vars PROVE ShellInv'
  OBVIOUS
<1>1. ASSUME NEW id \in Ids, Select(id, 0, FALSE) PROVE ShellInv'
  BY <1>1, SelectInv
<1>2. ASSUME NEW id \in Ids, NEW g \in 1..2, NEW late \in BOOLEAN, Select(id, g, late) PROVE ShellInv'
  <2>1. g \in Nat
    OBVIOUS
  <2>. QED  BY <1>2, <2>1, SelectInv
<1>3. ASSUME NEW id1 \in DfIds \cup Apps, NEW id2 \in Ids, SelectPath(id1, id2) PROVE ShellInv'
  <2>1. id1 \in Ids
    BY DEF Ids
  <2>. QED  BY <1>3, <2>1, SelectPathInv
<1>4. ASSUME NEW c \in Channels, OpenChannel(c) \/ CloseChannel(c) \/ SwitchChannel(c) PROVE ShellInv'
  BY <1>4, OpenInv, CloseInv, SwitchInv
<1>5. CASE Reset \/ Equip \/ EquipFails \/ Update
  BY <1>5, ResetInv, EquipInv, EquipFailsInv, UpdateInv
<1>6. ASSUME NEW f \in CardFiles, Reselect(f) PROVE ShellInv'
  BY <1>6, ReselectInv
<1>7. CASE WalkStart \/ WalkEF \/ WalkDF \/ WalkUp
  BY <1>7, WalkStartInv, WalkEFInv, WalkDFInv, WalkUpInv
<1>8. CASE UNCHANGED vars
  <2>1. UNCHANGED <<known, lchans, active, loose, reg, walk, cur, lost>>
    BY <1>8 DEF vars, hostVars, cardVars
  <2>2. ShellType'
    BY <2>1 DEF ShellInv, ShellType
  <2>3. Agreed'
    BY <2>1 DEF ShellInv, Agreed
  <2>. QED  BY <2>2, <2>3 DEF ShellInv
<1>. QED  BY <1>1, <1>2, <1>3, <1>4, <1>5, <1>6, <1>7, <1>8, Zenon DEF Next

\* What the invariant gives for a shell nothing has disturbed.
LEMMA Calm ==
    ASSUME ShellInv, Undisturbed
    PROVE  /\ \A c \in DOMAIN lchans : cur[c] = lchans[c].sel /\ cur[c] \in CardFiles
           /\ known \subseteq Files
<1>1. known \subseteq Files /\ ~lost
  BY DEF Undisturbed, Files
<1>. QED  BY <1>1 DEF ShellInv, Agreed

LEMMA CoherentHolds == ShellInv => Coherent
  BY Calm DEF Coherent

LEMMA WritesHit == ShellInv => NoStrayWrite
<1>. SUFFICES ASSUME ShellInv, Undisturbed, loose = None, IsEF(Object.sel)
              PROVE  CardSelectFid(cur[active], LastId(Object.sel)) = Object.sel
  BY DEF NoStrayWrite
<1>1. active \in DOMAIN lchans /\ Object = lchans[active]
  BY DEF ShellInv, ShellType, Object
<1>2. cur[active] = Object.sel /\ cur[active] \in CardFiles
  BY <1>1, Calm
<1>. QED  BY <1>2, WriteHits

\* To the MF, where the card finds it and only the selected file's commands are installed.
LEMMA GoHome ==
    ASSUME NEW s, IsState(s), s.ok, s.reg = {s.sel}, CardSelect(s.card, MF) = MF
    PROVE  Go(s, MF, 0, FALSE).ok /\ Go(s, MF, 0, FALSE).card = MF
<1>1. MF \in s.known /\ MF # None
  BY Beginning, FromRoot DEF IsState
<1>2. 0 \notin 1..Len(PathTo(s.sel, MF))
  BY <1>1, NoFailure
<1>3. CardSelect(s.card, MF) # None
  BY <1>1
<1>4. Answered(s, MF, Go(s, MF, 0, FALSE))
  BY <1>1, <1>2, <1>3, GoOne
<1>5. s.reg \ {s.sel} = {}
  OBVIOUS
<1>. QED  BY <1>4, <1>5 DEF Answered

LEMMA NotTrapped == ShellInv => NeverTrapped
<1>. DEFINE s == State
            r == SelectFile(s, MF, 0, FALSE)
<1>. SUFFICES ASSUME ShellInv, Undisturbed, loose = None, reg = {Object.sel}
              PROVE  r.ok /\ r.card = MF
  BY DEF NeverTrapped
<1>1. IsState(s) /\ s.ok = TRUE /\ s.known = known /\ s.sel = Object.sel /\ s.reg = reg
  BY CommandState DEF ShellInv
<1>2. known \subseteq Files /\ ~lost
  BY Calm DEF Undisturbed
<1>3. Sound(s)
  BY <1>2, CommandSound
<1>4. s.sel \in CardFiles /\ s.card = s.sel /\ s.sel \in s.known /\ s.reg = {s.sel}
  BY <1>1, <1>3 DEF Sound, IsState
<1>5. MF \in CardFiles /\ ~IsADF(MF)
  BY Beginning
<1>. HIDE DEF s
<1>6. CASE ~Bare(s.adf)
  <2>1. r = Go(s, MF, 0, FALSE)
    BY <1>6, SelectDirect DEF Direct
  <2>2. IsADF(get_cwd(s.sel)) => HasFs(get_cwd(s.sel))
    <3>1. CASE ~IsADF(s.sel)
      BY <1>4, <3>1, CwdOpen
    <3>2. CASE IsADF(s.sel)
      <4>1. s.sel # None
        BY <1>4, ShellAssumption DEF FileRules, Rooted
      <4>2. HasFs(s.sel)
        BY <1>3, <1>6, <3>2, <4>1 DEF Sound, Settled, Bare
      <4>3. get_cwd(s.sel) = s.sel
        BY <1>1, <1>2, <1>4, <3>2, AppPlace DEF get_cwd
      <4>. QED  BY <4>2, <4>3
    <3>. QED  BY <3>1, <3>2
  <2>3. CardSelect(s.card, MF) = MF
    BY <1>4, <1>5, <2>2, CardFinds
  <2>. QED  BY <1>1, <1>4, <2>1, <2>3, GoHome
<1>7. CASE Bare(s.adf)
  <2>1. IsADF(s.sel) /\ ~HasFs(s.sel) /\ s.sel \in Files
    BY <1>1, <1>2, <1>3, <1>4, <1>7 DEF Sound, Settled, Bare
  <2>2. Ways(s.known) # {}
    <3>1. PICK f \in HostFiles : IsADF(f) /\ HasFs(f)
      BY <2>1, WayOutAssumption DEF WayOut
    <3>. QED  BY <1>1, <3>1 DEF Ways, IsState
  <2>3. ~Direct(s, MF)
    BY <1>5, <1>7, <2>2 DEF Direct
  <2>4. PICK w \in Ways(s.known) : r = GoFrom(Go(s, w, 0, FALSE), s.sel, MF, 0, FALSE)
    BY <2>3, SelectThrough
  <2>. DEFINE a == Go(s, w, 0, FALSE)
  <2>5. w \in s.known /\ IsADF(w) /\ HasFs(w) /\ w \in Files
    BY <1>1, <1>2 DEF Ways
  <2>6. w \in CardFiles
    BY <1>1, <2>5, WayOutAssumption DEF WayOut, Undisturbed
  <2>7. CardSelect(s.card, w) = w /\ w # None
    BY <1>4, <2>5, <2>6, CardFinds, FromRoot
  <2>8. 0 \notin 1..Len(PathTo(s.sel, w))
    BY <1>1, <2>5, NoFailure
  <2>9. CardSelect(s.card, w) # None
    BY <2>7
  <2>10. Answered(s, w, a)
    BY <1>1, <2>5, <2>8, <2>9, GoOne
  <2>11. IsState(a)
    BY <1>1, <2>5, GoKept DEF Kept
  <2>. HIDE DEF a
  <2>12. a.sel = w /\ a.card = w /\ a.ok /\ a.reg = {w}
    <3>1. s.reg \ {s.sel} = {}
      BY <1>4
    <3>. QED  BY <2>7, <2>10, <3>1 DEF Answered
  <2>13. r = Go(a, MF, 0, FALSE)
    BY <2>4, <2>12 DEF GoFrom, a
  <2>14. CardSelect(a.card, MF) = MF
    <3>1. get_cwd(w) = w
      BY <2>5, AppPlace DEF get_cwd
    <3>. QED  BY <1>5, <2>5, <2>6, <2>12, <3>1, CardFinds
  <2>. QED  BY <2>11, <2>12, <2>13, <2>14, GoHome
<1>. QED  BY <1>6, <1>7

\* The invariant holds in every state.
LEMMA ShellInvariance == Spec => []ShellInv
  BY ShellInit, ShellNext, PTL DEF Spec

\* For every tree of files, every card and any number of channels: card and host
\* agree about the selected file of every channel, whatever was selected, failed,
\* opened, closed, created, written, walked or reset before (select_file,
\* probe_file, reset, the channel commands of pySim-shell).
THEOREM SelectionStaysCoherent == Spec => []Coherent
  BY ShellInvariance, CoherentHolds, PTL

\* For every tree of files: a write, which selects its file again by the FID
\* alone, meets the selected file and no other of that FID (update_binary,
\* update_record).
THEOREM WritesMeetTheirFile == Spec => []NoStrayWrite
  BY ShellInvariance, WritesHit, PTL

\* For every tree of files where some application has files (WayOut): the MF can
\* be selected from everywhere, also from within an application without files,
\* on which the card finds no FID (select_file).
THEOREM ShellIsNeverTrapped == Spec => []NeverTrapped
  BY ShellInvariance, NotTrapped, PTL

=============================================================================
