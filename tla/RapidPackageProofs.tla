-------------------------- MODULE RapidPackageProofs --------------------------
(***************************************************************************)
(* Theorem about RapidStore: the package under a commit's tag is the       *)
(* commit, for any history of commits with submodules nested to any depth, *)
(* whatever differences it was made of, if they could be followed and no   *)
(* submodule was left out; and that it is in a repository that is Plain.   *)
(*                                                                         *)
(* First the tree a commit stands for: Flat is a recursive function, which *)
(* induction on numbers shows to be defined and to be a fixed point at the *)
(* depth PackageOf uses (FlatIsDeep).  From there on a commit is the set   *)
(* of its files by their keys (KeyedFiles).                                *)
(*                                                                         *)
(* Then what a call of processRepo does to the list of files: where the    *)
(* difference can be followed, its blobs are there, its submodules are as  *)
(* they were, nothing else is left, and nothing changes outside its        *)
(* directory (DiffBlob, DiffSubmodule, DiffRest, DiffOutside).             *)
(*                                                                         *)
(* So the calls to come say what is missing (Pending): their directories,  *)
(* of which no two have a file in common, are as in the old commits, and   *)
(* all else is as in the new one.  With no call to come that is the tree.  *)
(* TreeInv says it of what each program makes, and of what was listed and  *)
(* is the last package, because a program starts from that.                *)
(***************************************************************************)
EXTENDS RapidStoreProofs, WellFoundedInduction

----------------------------------------------------------------------------
(* Induction, and functions defined by it *)

LEMMA Least ==
  ASSUME NEW S \in SUBSET Nat, S # {}
  PROVE  \E m \in S : \A k \in S : m <= k
<1> DEFINE R == {ss \in Nat \X Nat : ss[1] < ss[2]}
<1>1. IsWellFoundedOn(R, Nat)
  BY NatLessThanWellFounded DEF OpToRel
<1>2. PICK m \in S : \A k \in S : ~(<<k, m>> \in R)
  BY <1>1, WFMin
<1>3. \A k \in S : ~(k < m)
  BY <1>2
<1> QED BY <1>3

\* A set of numbers that has 0 and with each its successor has all.
LEMMA NumberInduction ==
  ASSUME NEW S \in SUBSET Nat, 0 \in S, \A n \in S : n + 1 \in S
  PROVE  S = Nat
<1> SUFFICES ASSUME Nat \ S # {} PROVE FALSE
  OBVIOUS
<1>1. PICK m \in Nat \ S : \A k \in Nat \ S : m <= k
  BY Least
<1>2. m - 1 \in Nat /\ m - 1 \in S
  BY <1>1
<1> QED BY <1>1, <1>2

\* What is repeated any number of times has a result.
LEMMA Iteration ==
  ASSUME NEW T, NEW z \in T, NEW next \in [T -> T]
  PROVE  \E f \in [Nat -> T] : f[0] = z /\ \A k \in Nat : f[k + 1] = next[f[k]]
<1> DEFINE Good(n, g) == /\ g \in [0..n -> T] /\ g[0] = z
                         /\ \A k \in 0..(n - 1) : g[k + 1] = next[g[k]]
           E == {n \in Nat : \E g : Good(n, g)}
           U == {k \in Nat : \A n, m \in Nat : \A g, h :
                   k <= n /\ k <= m /\ Good(n, g) /\ Good(m, h) => g[k] = h[k]}
           G(n) == CHOOSE g : Good(n, g)
           f == [n \in Nat |-> G(n)[n]]
<1>1. E = Nat
  <2>1. Good(0, [i \in 0..0 |-> z])
    OBVIOUS
  <2>2. ASSUME NEW n \in E
        PROVE  n + 1 \in E
    <3>1. PICK g : Good(n, g)
      OBVIOUS
    <3>2. Good(n + 1, [i \in 0..(n + 1) |-> IF i = n + 1 THEN next[g[n]] ELSE g[i]])
      BY <3>1
    <3> HIDE DEF Good
    <3> QED BY <3>2
  <2>3. 0 \in E
    <3> HIDE DEF Good
    <3> QED BY <2>1
  <2> HIDE DEF E
  <2> QED BY <2>2, <2>3, NumberInduction DEF E
<1>2. U = Nat
  <2>1. 0 \in U
    OBVIOUS
  <2>2. ASSUME NEW k \in U
        PROVE  k + 1 \in U
    <3>1. ASSUME NEW n \in Nat, NEW m \in Nat, NEW g, NEW h,
                 k + 1 <= n, k + 1 <= m, Good(n, g), Good(m, h)
          PROVE  g[k + 1] = h[k + 1]
      <4>1. g[k] = h[k]
        BY <3>1
      <4>2. k \in 0..(n - 1) /\ k \in 0..(m - 1)
        BY <3>1
      <4> QED BY <3>1, <4>1, <4>2
    <3> HIDE DEF Good
    <3> QED BY <3>1
  <2> HIDE DEF U
  <2> QED BY <2>1, <2>2, NumberInduction DEF U
<1>3. \A n \in Nat : Good(n, G(n))
  <2> HIDE DEF Good
  <2> QED BY <1>1
<1>4. f \in [Nat -> T] /\ \A n \in Nat : f[n] = G(n)[n]
  <2>1. \A n \in Nat : G(n)[n] \in T
    <3> HIDE DEF G
    <3> QED BY <1>3
  <2> HIDE DEF G
  <2> QED BY <2>1
<1>5. f[0] = z
  <2>1. G(0)[0] = z
    <3> HIDE DEF G
    <3> QED BY <1>3
  <2> HIDE DEF G
  <2> QED BY <2>1
<1>6. ASSUME NEW k \in Nat
      PROVE  f[k + 1] = next[f[k]]
  <2>1. Good(k, G(k)) /\ Good(k + 1, G(k + 1))
    <3> HIDE DEF G, Good
    <3> QED BY <1>3
  <2>2. G(k + 1)[k + 1] = next[G(k + 1)[k]]
    <3>1. k \in 0..((k + 1) - 1)
      OBVIOUS
    <3> HIDE DEF G
    <3> QED BY <2>1, <3>1
  <2>3. G(k + 1)[k] = G(k)[k]
    <3>1. k <= k /\ k <= k + 1
      OBVIOUS
    <3>2. k \in U
      <4> HIDE DEF U
      <4> QED BY <1>2
    <3> HIDE DEF G, Good
    <3> QED BY <2>1, <3>1, <3>2
  <2> HIDE DEF f, G
  <2> QED BY <1>4, <2>2, <2>3
<1> HIDE DEF f
<1> QED BY <1>4, <1>5, <1>6

----------------------------------------------------------------------------
(* The files of a commit *)

FilePaths == {s \in Paths : s # <<>>}
Maps == UNION {[D -> Blobs] : D \in SUBSET FilePaths}

LEMMA MapFacts ==
  /\ \A p \in Maps : DOMAIN p \subseteq FilePaths /\ \A s \in DOMAIN p : p[s] \in Blobs
  /\ \A D \in SUBSET FilePaths : [D -> Blobs] \subseteq Maps
  /\ Empty \in Maps
<1>1. Empty \in [{} -> Blobs]
  BY DEF Empty
<1> QED BY <1>1 DEF Maps

LEMMA ConsFacts ==
  ASSUME NEW n \in Names, NEW s \in Paths
  PROVE  /\ <<n>> \in FilePaths /\ Len(<<n>>) = 1 /\ <<n>>[1] = n
         /\ <<n>> \o s \in FilePaths /\ Len(<<n>> \o s) = Len(s) + 1 /\ (<<n>> \o s)[1] = n
         /\ Len(s) \in Nat /\ (s # <<>> => Len(s) > 0)
         /\ \A i \in 1..Len(s) : (<<n>> \o s)[i + 1] = s[i]
         /\ Tail(<<n>> \o s) = s
<1>1. <<n>> \in Seq(Names) /\ Len(<<n>>) = 1 /\ <<n>>[1] = n /\ s \in Seq(Names)
  BY DEF Paths
<1>2. /\ <<n>> \o s \in Seq(Names) /\ Len(<<n>> \o s) = 1 + Len(s) /\ Len(s) \in Nat
      /\ \A i \in 1..(1 + Len(s)) : (<<n>> \o s)[i] = IF i <= 1 THEN <<n>>[i] ELSE s[i - 1]
  BY <1>1, ConcatProperties, LenProperties
<1>3. (<<n>> \o s)[1] = n /\ \A i \in 1..Len(s) : (<<n>> \o s)[i + 1] = s[i]
  BY <1>1, <1>2
<1>4. <<n>> \o s # <<>>
  BY <1>2
<1>5. Tail(<<n>> \o s) = s
  <2>1. /\ Tail(<<n>> \o s) \in Seq(Names) /\ Len(Tail(<<n>> \o s)) = Len(s)
        /\ \A i \in 1..Len(s) : Tail(<<n>> \o s)[i] = (<<n>> \o s)[i + 1]
    BY <1>2, <1>4, HeadTailProperties
  <2> QED BY <1>1, <1>3, <2>1, SeqEqual
<1>6. s # <<>> => Len(s) > 0
  BY <1>1, EmptySeq
<1> QED BY <1>1, <1>2, <1>3, <1>4, <1>5, <1>6 DEF Paths, FilePaths

\* p has the files of c, with those that inner has of its submodules.
IsLayer(p, inner, c) ==
  /\ p \in Maps
  /\ \A n \in DOMAIN Tree[c] : Tree[c][n] \in Blobs => <<n>> \in DOMAIN p /\ p[<<n>>] = Tree[c][n]
  /\ \A n \in DOMAIN Tree[c] : Tree[c][n] \in Commits =>
       \A s \in DOMAIN inner[Tree[c][n]] :
         <<n>> \o s \in DOMAIN p /\ p[<<n>> \o s] = inner[Tree[c][n]][s]
  /\ \A q \in DOMAIN p : \E n \in DOMAIN Tree[c] :
       \/ Tree[c][n] \in Blobs /\ q = <<n>>
       \/ Tree[c][n] \in Commits /\ \E s \in DOMAIN inner[Tree[c][n]] : q = <<n>> \o s

LEMMA LayerFacts ==
  ASSUME NEW inner \in [Commits -> Maps], NEW c \in Commits
  PROVE  IsLayer(Layer(inner, c), inner, c)
<1> DEFINE blobs == {n \in DOMAIN Tree[c] : Tree[c][n] \in Blobs}
           dirs == DOMAIN Tree[c] \ blobs
           D == {<<n>> : n \in blobs} \cup
                UNION {{<<n>> \o s : s \in DOMAIN inner[Tree[c][n]]} : n \in dirs}
           p == Layer(inner, c)
<1>1. p = [q \in D |-> IF Len(q) = 1 THEN Tree[c][q[1]] ELSE inner[Tree[c][q[1]]][Tail(q)]]
  BY DEF Layer
<1>2. \A n \in DOMAIN Tree[c] : n \in Names /\ (n \in dirs <=> Tree[c][n] \in Commits)
  BY StoreAssumption
<1>3. ASSUME NEW n \in dirs, NEW s \in DOMAIN inner[Tree[c][n]]
      PROVE  /\ <<n>> \o s \in D \cap FilePaths /\ inner[Tree[c][n]][s] \in Blobs
             /\ p[<<n>> \o s] = inner[Tree[c][n]][s]
  <2>1. n \in Names /\ Tree[c][n] \in Commits
    BY <1>2
  <2>2. s \in FilePaths /\ inner[Tree[c][n]][s] \in Blobs
    BY <2>1, MapFacts
  <2>3. /\ <<n>> \o s \in FilePaths /\ Len(<<n>> \o s) # 1 /\ (<<n>> \o s)[1] = n
        /\ Tail(<<n>> \o s) = s
    BY <2>1, <2>2, ConsFacts DEF FilePaths
  <2>4. <<n>> \o s \in D
    OBVIOUS
  <2> QED BY <1>1, <2>2, <2>3, <2>4
<1>4. ASSUME NEW n \in blobs
      PROVE  <<n>> \in D \cap FilePaths /\ p[<<n>>] = Tree[c][n]
  <2>1. <<n>> \in FilePaths /\ Len(<<n>>) = 1 /\ <<n>>[1] = n
    BY <1>2, EmptySeq, ConsFacts DEF Paths
  <2>2. <<n>> \in D
    OBVIOUS
  <2> QED BY <1>1, <2>1, <2>2
<1>5. ASSUME NEW q \in D
      PROVE  (\E n \in blobs : q = <<n>>) \/
             (\E n \in dirs : \E s \in DOMAIN inner[Tree[c][n]] : q = <<n>> \o s)
  OBVIOUS
<1>6. DOMAIN p = D
  BY <1>1
<1>7. p \in Maps
  <2>1. ASSUME NEW q \in D
        PROVE  q \in FilePaths /\ p[q] \in Blobs
    <3> HIDE DEF D, p, dirs
    <3>1. CASE \E n \in blobs : q = <<n>>
      BY <1>4, <3>1
    <3>2. CASE \E n \in dirs : \E s \in DOMAIN inner[Tree[c][n]] : q = <<n>> \o s
      BY <1>3, <3>2
    <3> QED BY <1>5, <3>1, <3>2
  <2>2. p \in [D -> Blobs]
    <3>1. \A q \in D : p[q] \in Blobs
      BY <2>1
    <3> HIDE DEF D
    <3> QED BY <1>1, <3>1
  <2> HIDE DEF D, p
  <2> QED BY <2>1, <2>2, MapFacts
<1> HIDE DEF p, D
<1>8. \A n \in DOMAIN Tree[c] : Tree[c][n] \in Blobs => <<n>> \in DOMAIN p /\ p[<<n>>] = Tree[c][n]
  BY <1>4, <1>6
<1>9. ASSUME NEW n \in DOMAIN Tree[c], Tree[c][n] \in Commits, NEW s \in DOMAIN inner[Tree[c][n]]
      PROVE  <<n>> \o s \in DOMAIN p /\ p[<<n>> \o s] = inner[Tree[c][n]][s]
  BY <1>2, <1>3, <1>6, <1>9
<1>10. \A q \in DOMAIN p : \E n \in DOMAIN Tree[c] :
         \/ Tree[c][n] \in Blobs /\ q = <<n>>
         \/ Tree[c][n] \in Commits /\ \E s \in DOMAIN inner[Tree[c][n]] : q = <<n>> \o s
  BY <1>2, <1>5, <1>6
<1> QED BY <1>7, <1>8, <1>9, <1>10 DEF IsLayer, p

\* Flat is defined: what it says of itself has a solution.
LEMMA FlatFacts ==
  /\ \A k \in Nat : Flat[k] \in [Commits -> Maps]
  /\ \A c \in Commits : Flat[0][c] = Empty
  /\ \A k \in Nat, c \in Commits : Flat[k + 1][c] = Layer(Flat[k], c)
<1> DEFINE T == [Commits -> Maps]
           z == [c \in Commits |-> Empty]
           next == [F \in T |-> [c \in Commits |-> Layer(F, c)]]
           IsFlat(f) == f = [k \in Nat |->
             [c \in Commits |-> IF k = 0 THEN Empty ELSE Layer(f[k - 1], c)]]
<1>1. z \in T
  BY MapFacts
<1>2. next \in [T -> T]
  <2>1. \A F \in T : [c \in Commits |-> Layer(F, c)] \in T
    BY LayerFacts DEF IsLayer
  <2> HIDE DEF T
  <2> QED BY <2>1
<1>3. PICK f \in [Nat -> T] : f[0] = z /\ \A k \in Nat : f[k + 1] = next[f[k]]
  <2> HIDE DEF T, z, next
  <2> QED BY <1>1, <1>2, Iteration
<1>4. IsFlat(f)
  <2>1. ASSUME NEW k \in Nat
        PROVE  f[k] = [c \in Commits |-> IF k = 0 THEN Empty ELSE Layer(f[k - 1], c)]
    <3>1. CASE k = 0
      BY <1>3, <3>1
    <3>2. CASE k # 0
      <4>1. k - 1 \in Nat /\ (k - 1) + 1 = k
        BY <3>2
      <4>2. f[k] = next[f[k - 1]] /\ f[k - 1] \in T
        <5> HIDE DEF next, T
        <5> QED BY <1>3, <4>1
      <4>3. next[f[k - 1]] = [c \in Commits |-> Layer(f[k - 1], c)]
        BY <4>2
      <4> QED BY <3>2, <4>2, <4>3
    <3> QED BY <3>1, <3>2
  <2> HIDE DEF T
  <2> QED BY <1>3, <2>1
<1>5. IsFlat(Flat)
  <2>1. Flat = CHOOSE g : IsFlat(g)
    BY DEF Flat
  <2> HIDE DEF IsFlat
  <2> QED BY <1>4, <2>1
<1>6. /\ \A c \in Commits : Flat[0][c] = Empty
      /\ \A k \in Nat, c \in Commits : Flat[k + 1][c] = Layer(Flat[k], c)
  <2>1. \A k \in Nat : Flat[k] = [c \in Commits |-> IF k = 0 THEN Empty ELSE Layer(Flat[k - 1], c)]
    BY <1>5
  <2>2. \A k \in Nat : k + 1 \in Nat /\ k + 1 # 0 /\ (k + 1) - 1 = k
    OBVIOUS
  <2>3. ASSUME NEW k \in Nat, NEW c \in Commits
        PROVE  Flat[k + 1][c] = Layer(Flat[k], c)
    <3>1. Flat[k + 1] = [d \in Commits |-> IF k + 1 = 0 THEN Empty ELSE Layer(Flat[(k + 1) - 1], d)]
      BY <2>1
    <3> QED BY <2>2, <3>1
  <2> QED BY <2>1, <2>3
<1>7. \A k \in Nat : Flat[k] \in T
  <2> DEFINE S == {k \in Nat : Flat[k] \in T}
  <2>1. Flat[0] = z /\ \A k \in Nat : Flat[k] \in T => Flat[k + 1] = next[Flat[k]]
    <3>1. \A k \in Nat : Flat[k] = [c \in Commits |-> IF k = 0 THEN Empty ELSE Layer(Flat[k - 1], c)]
      BY <1>5
    <3>2. Flat[0] = z
      BY <3>1
    <3>3. ASSUME NEW k \in Nat, Flat[k] \in T
          PROVE  Flat[k + 1] = next[Flat[k]]
      <4>1. Flat[k + 1] = [c \in Commits |-> IF k + 1 = 0 THEN Empty ELSE Layer(Flat[(k + 1) - 1], c)]
        BY <3>1
      <4>2. k + 1 # 0 /\ (k + 1) - 1 = k
        OBVIOUS
      <4>3. Flat[k + 1] = [c \in Commits |-> Layer(Flat[k], c)]
        BY <4>1, <4>2
      <4> QED BY <3>3, <4>3
    <3> QED BY <3>2, <3>3
  <2>2. 0 \in S /\ \A k \in S : k + 1 \in S
    <3> HIDE DEF T, z, next
    <3> QED BY <1>1, <1>2, <2>1
  <2>3. S = Nat
    <3> HIDE DEF S
    <3> QED BY <2>2, NumberInduction DEF S
  <2> QED BY <2>3
<1> QED BY <1>6, <1>7

\* What a layer is depends on the submodules of its commit alone.
LEMMA LayerIsLocal ==
  ASSUME NEW F \in [Commits -> Maps], NEW G \in [Commits -> Maps], NEW d \in Commits,
         \A n \in DOMAIN Tree[d] : Tree[d][n] \in Commits => F[Tree[d][n]] = G[Tree[d][n]]
  PROVE  Layer(F, d) = Layer(G, d)
<1> DEFINE blobs == {n \in DOMAIN Tree[d] : Tree[d][n] \in Blobs}
           dirs == DOMAIN Tree[d] \ blobs
           E(H, n) == {<<n>> \o s : s \in DOMAIN H[Tree[d][n]]}
           D(H) == {<<n>> : n \in blobs} \cup UNION {E(H, n) : n \in dirs}
<1>1. \A n \in dirs : F[Tree[d][n]] = G[Tree[d][n]] /\ Tree[d][n] \in Commits /\ n \in Names
  BY StoreAssumption
<1>2. D(F) = D(G)
  <2>1. \A n \in dirs : E(F, n) = E(G, n)
    BY <1>1
  <2> HIDE DEF E, dirs, blobs
  <2>2. {E(F, n) : n \in dirs} = {E(G, n) : n \in dirs}
    BY <2>1
  <2> QED BY <2>2
<1>3. ASSUME NEW q \in D(G), Len(q) # 1
      PROVE  q[1] \in dirs
  <2>1. ~ \E n \in blobs : q = <<n>>
    BY <1>3
  <2>2. PICK n \in dirs : \E s \in DOMAIN G[Tree[d][n]] : q = <<n>> \o s
    BY <2>1
  <2>3. PICK s \in DOMAIN G[Tree[d][n]] : q = <<n>> \o s
    BY <2>2
  <2>4. G[Tree[d][n]] \in Maps /\ n \in Names
    BY <1>1
  <2>5. s \in Paths
    BY <2>4, MapFacts DEF FilePaths
  <2>6. q[1] = n
    BY <2>3, <2>4, <2>5, ConsFacts
  <2> QED BY <2>6
<1>4. \A q \in D(G) :
        (IF Len(q) = 1 THEN Tree[d][q[1]] ELSE F[Tree[d][q[1]]][Tail(q)]) =
        (IF Len(q) = 1 THEN Tree[d][q[1]] ELSE G[Tree[d][q[1]]][Tail(q)])
  <2> HIDE DEF D, dirs
  <2> QED BY <1>1, <1>3
<1>5. \A H : Layer(H, d) = [q \in D(H) |->
        IF Len(q) = 1 THEN Tree[d][q[1]] ELSE H[Tree[d][q[1]]][Tail(q)]]
  BY DEF Layer
<1> HIDE DEF D, dirs
<1> QED BY <1>2, <1>4, <1>5

\* Submodules nest no deeper than there are commits.
FlatOf(c) == IF c = None THEN Empty ELSE Flat[Cardinality(Commits)][c]

LEMMA FlatIsDeep ==
  ASSUME NEW c \in Commits
  PROVE  IsLayer(FlatOf(c), [d \in Commits |-> FlatOf(d)], c)
<1> DEFINE N == Cardinality(Commits)
<1>1. N \in Nat
  BY Acyclic, FS_CardinalityType
<1>2. PICK rank \in [Commits -> 1..N] : \A d \in Commits : \A n \in DOMAIN Tree[d] :
        Tree[d][n] \in Commits => rank[Tree[d][n]] < rank[d]
  BY Acyclic
<1> DEFINE S == {k \in Nat : \A d \in Commits : rank[d] <= k => Flat[k + 1][d] = Flat[k][d]}
<1>3. 0 \in S
  BY <1>1
<1>4. ASSUME NEW k \in S
      PROVE  k + 1 \in S
  <2>1. ASSUME NEW d \in Commits, rank[d] <= k + 1
        PROVE  Flat[(k + 1) + 1][d] = Flat[k + 1][d]
    <3>1. Flat[(k + 1) + 1][d] = Layer(Flat[k + 1], d) /\ Flat[k + 1][d] = Layer(Flat[k], d)
      BY FlatFacts
    <3>2. \A n \in DOMAIN Tree[d] : Tree[d][n] \in Commits => Flat[k + 1][Tree[d][n]] = Flat[k][Tree[d][n]]
      BY <1>1, <1>2, <2>1
    <3>3. Flat[k + 1] \in [Commits -> Maps] /\ Flat[k] \in [Commits -> Maps]
      BY FlatFacts
    <3>4. Layer(Flat[k + 1], d) = Layer(Flat[k], d)
      BY <3>2, <3>3, LayerIsLocal
    <3> QED BY <3>1, <3>4
  <2> QED BY <2>1
<1>5. S = Nat
  <2> HIDE DEF S
  <2> QED BY <1>3, <1>4, NumberInduction DEF S
<1>6. Flat[N + 1][c] = Flat[N][c]
  BY <1>1, <1>2, <1>5
<1>7. FlatOf(c) = Layer(Flat[N], c)
  BY <1>1, <1>6, FlatFacts, StoreAssumption DEF FlatOf
<1>8. Flat[N] = [d \in Commits |-> FlatOf(d)] /\ Flat[N] \in [Commits -> Maps]
  <2>1. Flat[N] \in [Commits -> Maps]
    BY <1>1, FlatFacts
  <2>2. \A d \in Commits : FlatOf(d) = Flat[N][d]
    BY StoreAssumption DEF FlatOf
  <2> HIDE DEF N
  <2> QED BY <2>1, <2>2
<1> HIDE DEF N
<1> QED BY <1>7, <1>8, LayerFacts

----------------------------------------------------------------------------
(* Keys.  d is the key of a directory, s a path in it. *)

KeyOf(d, s) == d \o LowerPath(s)

LEMMA InsideFacts ==
  ASSUME NEW q \in Paths, NEW d \in Paths
  PROVE  /\ Inside(q, d) <=> Len(q) > Len(d) /\ \A i \in 1..Len(d) : q[i] = d[i]
         /\ Len(q) \in Nat /\ Len(d) \in Nat
<1>1. Len(q) \in Nat /\ Len(d) \in Nat /\ q \in Seq(Names) /\ d \in Seq(Names)
  BY LenProperties DEF Paths
<1>2. ASSUME Len(q) > Len(d)
      PROVE  SubSeq(q, 1, Len(d)) = d <=> \A i \in 1..Len(d) : q[i] = d[i]
  <2>1. \A i \in 1..Len(d) : q[i] \in Names
    BY <1>1, <1>2, LenProperties
  <2>2. /\ SubSeq(q, 1, Len(d)) \in Seq(Names)
        /\ Len(SubSeq(q, 1, Len(d))) = IF 1 <= Len(d) THEN Len(d) - 1 + 1 ELSE 0
        /\ \A i \in 1..(Len(d) - 1 + 1) : SubSeq(q, 1, Len(d))[i] = q[1 + i - 1]
    BY <1>1, <2>1, SubSeqProperties
  <2>3. Len(SubSeq(q, 1, Len(d))) = Len(d) /\ \A i \in 1..Len(d) : SubSeq(q, 1, Len(d))[i] = q[i]
    BY <1>1, <2>2
  <2> QED BY <1>1, <2>2, <2>3, SeqEqual
<1> QED BY <1>1, <1>2 DEF Inside

LEMMA KeyFacts ==
  ASSUME NEW d \in Paths, NEW s \in Paths
  PROVE  /\ KeyOf(d, s) \in Paths /\ Len(KeyOf(d, s)) = Len(d) + Len(s)
         /\ Len(d) \in Nat /\ Len(s) \in Nat
         /\ \A i \in 1..Len(d) : KeyOf(d, s)[i] = d[i]
         /\ \A i \in 1..Len(s) : KeyOf(d, s)[Len(d) + i] = Lower[s[i]] /\ s[i] \in Names
<1>1. LowerPath(s) \in Paths /\ Len(LowerPath(s)) = Len(s) /\ Len(s) \in Nat
      /\ \A i \in 1..Len(s) : s[i] \in Names /\ LowerPath(s)[i] = Lower[s[i]]
  BY LowerPathFacts
<1>2. /\ KeyOf(d, s) \in Seq(Names) /\ Len(KeyOf(d, s)) = Len(d) + Len(s) /\ Len(d) \in Nat
      /\ \A i \in 1..(Len(d) + Len(s)) : KeyOf(d, s)[i] =
           IF i <= Len(d) THEN d[i] ELSE LowerPath(s)[i - Len(d)]
  <2>1. d \in Seq(Names) /\ LowerPath(s) \in Seq(Names) /\ Len(d) \in Nat
    BY <1>1, LenProperties DEF Paths
  <2>2. /\ d \o LowerPath(s) \in Seq(Names) /\ Len(d \o LowerPath(s)) = Len(d) + Len(LowerPath(s))
        /\ \A i \in 1..(Len(d) + Len(LowerPath(s))) : (d \o LowerPath(s))[i] =
             IF i <= Len(d) THEN d[i] ELSE LowerPath(s)[i - Len(d)]
    BY <2>1, ConcatProperties
  <2> QED BY <1>1, <2>1, <2>2 DEF KeyOf
<1>3. \A i \in 1..Len(d) : KeyOf(d, s)[i] = d[i]
  BY <1>1, <1>2
<1>4. ASSUME NEW i \in 1..Len(s)
      PROVE  KeyOf(d, s)[Len(d) + i] = Lower[s[i]]
  <2>1. Len(d) + i \in 1..(Len(d) + Len(s)) /\ ~(Len(d) + i <= Len(d)) /\ (Len(d) + i) - Len(d) = i
    BY <1>1, <1>2
  <2>2. KeyOf(d, s)[Len(d) + i] = LowerPath(s)[(Len(d) + i) - Len(d)]
    BY <1>2, <2>1
  <2> QED BY <1>1, <2>1, <2>2
<1> QED BY <1>1, <1>2, <1>3, <1>4 DEF Paths

LEMMA KeyInside ==
  ASSUME NEW d \in Paths, NEW s \in FilePaths
  PROVE  Inside(KeyOf(d, s), d) /\ KeyOf(d, s)[Len(d) + 1] = Lower[s[1]] /\ s[1] \in Names
<1>1. s \in Paths /\ Len(s) \in Nat /\ 1 \in 1..Len(s)
  BY EmptySeq, LenProperties DEF FilePaths, Paths
<1>2. /\ KeyOf(d, s) \in Paths /\ Len(KeyOf(d, s)) = Len(d) + Len(s) /\ Len(d) \in Nat
      /\ \A i \in 1..Len(d) : KeyOf(d, s)[i] = d[i]
  BY <1>1, KeyFacts
<1>3. Inside(KeyOf(d, s), d)
  <2>1. Len(KeyOf(d, s)) > Len(d)
    BY <1>1, <1>2
  <2> QED BY <1>2, <2>1, InsideFacts
<1>4. KeyOf(d, s)[Len(d) + 1] = Lower[s[1]] /\ s[1] \in Names
  BY <1>1, KeyFacts
<1> QED BY <1>3, <1>4

\* Equal paths, element by element.
LEMMA PathsEqual ==
  ASSUME NEW p \in Paths, NEW q \in Paths, Len(p) = Len(q), \A i \in 1..Len(p) : p[i] = q[i]
  PROVE  p = q
BY SeqEqual DEF Paths

LEMMA DirFacts ==
  ASSUME NEW d \in Paths, NEW n \in Names
  PROVE  /\ Append(d, Lower[n]) \in Paths /\ Len(Append(d, Lower[n])) = Len(d) + 1
         /\ Append(d, Lower[n])[Len(d) + 1] = Lower[n]
         /\ \A i \in 1..Len(d) : Append(d, Lower[n])[i] = d[i]
         /\ Len(d) \in Nat /\ Lower[n] \in Names
<1>1. Lower[n] \in Names
  BY StoreAssumption
<1> QED BY <1>1, AppendProperties, LenProperties DEF Paths

\* A file in a directory, and a file in a directory of it.
LEMMA DirKeys ==
  ASSUME NEW d \in Paths, NEW n \in Names
  PROVE  /\ KeyOf(d, <<n>>) = Append(d, Lower[n])
         /\ \A s \in Paths : KeyOf(d, <<n>> \o s) = KeyOf(Append(d, Lower[n]), s)
<1> DEFINE e == Append(d, Lower[n])
<1>0. /\ e \in Paths /\ Len(e) = Len(d) + 1 /\ e[Len(d) + 1] = Lower[n]
      /\ \A i \in 1..Len(d) : e[i] = d[i]
      /\ Len(d) \in Nat
  BY DirFacts
<1> HIDE DEF e
<1>1. KeyOf(d, <<n>>) = e
  <2>1. <<n>> \in Paths /\ Len(<<n>>) = 1 /\ <<n>>[1] = n
    BY EmptySeq, ConsFacts DEF Paths, FilePaths
  <2>2. /\ KeyOf(d, <<n>>) \in Paths /\ Len(KeyOf(d, <<n>>)) = Len(d) + 1
        /\ \A i \in 1..Len(d) : KeyOf(d, <<n>>)[i] = d[i]
        /\ KeyOf(d, <<n>>)[Len(d) + 1] = Lower[n]
    <3>1. 1 \in 1..Len(<<n>>)
      BY <2>1
    <3>2. KeyOf(d, <<n>>)[Len(d) + 1] = Lower[<<n>>[1]]
      BY <2>1, <3>1, KeyFacts
    <3> QED BY <2>1, <3>2, KeyFacts
  <2>3. \A i \in 1..(Len(d) + 1) : KeyOf(d, <<n>>)[i] = e[i]
    BY <1>0, <2>2
  <2> QED BY <1>0, <2>2, <2>3, PathsEqual
<1>2. ASSUME NEW s \in Paths
      PROVE  KeyOf(d, <<n>> \o s) = KeyOf(e, s)
  <2> DEFINE t == <<n>> \o s
  <2>1. /\ t \in Paths /\ Len(t) = Len(s) + 1 /\ t[1] = n /\ Len(s) \in Nat
        /\ \A i \in 1..Len(s) : t[i + 1] = s[i]
    BY ConsFacts DEF FilePaths
  <2> HIDE DEF t
  <2>2. /\ KeyOf(d, t) \in Paths /\ Len(KeyOf(d, t)) = Len(d) + Len(t)
        /\ \A i \in 1..Len(d) : KeyOf(d, t)[i] = d[i]
        /\ \A i \in 1..Len(t) : KeyOf(d, t)[Len(d) + i] = Lower[t[i]]
    BY <2>1, KeyFacts
  <2>3. /\ KeyOf(e, s) \in Paths /\ Len(KeyOf(e, s)) = Len(e) + Len(s)
        /\ \A i \in 1..Len(e) : KeyOf(e, s)[i] = e[i]
        /\ \A i \in 1..Len(s) : KeyOf(e, s)[Len(e) + i] = Lower[s[i]]
    BY <1>0, KeyFacts
  <2>4. ASSUME NEW i \in 1..Len(KeyOf(d, t))
        PROVE  KeyOf(d, t)[i] = KeyOf(e, s)[i]
    <3>1. CASE i <= Len(d)
      BY <1>0, <2>1, <2>2, <2>3, <3>1
    <3>2. CASE i = Len(d) + 1
      <4>1. KeyOf(d, t)[i] = Lower[n]
        BY <1>0, <2>1, <2>2, <3>2
      <4>2. KeyOf(e, s)[i] = e[i]
        BY <1>0, <2>3, <3>2
      <4> QED BY <1>0, <3>2, <4>1, <4>2
    <3>3. CASE i > Len(d) + 1
      <4> DEFINE j == i - Len(d) - 1
      <4>1. j \in 1..Len(s) /\ j + 1 \in 1..Len(t) /\ i = Len(d) + (j + 1) /\ i = Len(e) + j
        BY <1>0, <2>1, <2>2, <3>3
      <4> HIDE DEF j
      <4>2. KeyOf(d, t)[Len(d) + (j + 1)] = Lower[t[j + 1]] /\ t[j + 1] = s[j]
        BY <2>1, <2>2, <4>1
      <4>3. KeyOf(e, s)[Len(e) + j] = Lower[s[j]]
        BY <2>3, <4>1
      <4> QED BY <4>1, <4>2, <4>3
    <3> QED BY <1>0, <2>2, <3>1, <3>2, <3>3
  <2> QED BY <1>0, <2>1, <2>2, <2>3, <2>4, PathsEqual DEF t
<1> QED BY <1>1, <1>2 DEF e

LEMMA RootKeys ==
  ASSUME NEW s \in Paths
  PROVE  <<>> \in Paths /\ KeyOf(<<>>, s) = LowerPath(s) /\ (s # <<>> => Inside(s, <<>>))
<1>1. <<>> \in Paths /\ Len(<<>>) = 0
  BY EmptySeq DEF Paths
<1>2. KeyOf(<<>>, s) = LowerPath(s)
  BY LowerPathFacts, ConcatEmptySeq DEF KeyOf, Paths
<1>3. ASSUME s # <<>>
      PROVE  Inside(s, <<>>)
  <2>1. Len(s) > 0
    BY <1>3, EmptySeq, LenProperties DEF Paths
  <2>2. \A i \in 1..Len(<<>>) : s[i] = <<>>[i]
    BY <1>1
  <2> QED BY <1>1, <2>1, <2>2, InsideFacts
<1> QED BY <1>1, <1>2, <1>3

\* Inside a directory of a directory.
LEMMA InsideDir ==
  ASSUME NEW q \in Paths, NEW d \in Paths, NEW n \in Names
  PROVE  /\ Inside(q, Append(d, Lower[n])) <=>
              Inside(q, d) /\ Len(q) > Len(d) + 1 /\ q[Len(d) + 1] = Lower[n]
         /\ Inside(Append(d, Lower[n]), d)
<1> DEFINE e == Append(d, Lower[n])
<1>0. /\ e \in Paths /\ Len(e) = Len(d) + 1 /\ e[Len(d) + 1] = Lower[n]
      /\ \A i \in 1..Len(d) : e[i] = d[i]
      /\ Len(d) \in Nat /\ Len(q) \in Nat
  BY DirFacts, InsideFacts
<1> HIDE DEF e
<1>1. Inside(q, e) <=> Len(q) > Len(e) /\ \A i \in 1..Len(e) : q[i] = e[i]
  BY <1>0, InsideFacts
<1>2. Inside(q, d) <=> Len(q) > Len(d) /\ \A i \in 1..Len(d) : q[i] = d[i]
  BY InsideFacts
<1>3. (\A i \in 1..Len(e) : q[i] = e[i]) <=>
        (\A i \in 1..Len(d) : q[i] = d[i]) /\ q[Len(d) + 1] = Lower[n]
  BY <1>0
<1>4. Inside(e, d)
  BY <1>0, InsideFacts
<1> QED BY <1>0, <1>1, <1>2, <1>3, <1>4 DEF e

----------------------------------------------------------------------------
(* What a package holds of a commit *)

\* The files of commit c, with the keys they have in the directory d.
KeyedFiles(c, d) == {<<KeyOf(d, s), FlatOf(c)[s]>> : s \in DOMAIN FlatOf(c)}

\* modinfo.lua is written again at the end, with the version.
Key == LowerPath(<<Modinfo>>)
Reads(files, q, b) == q \in DOMAIN files /\ (q # Key => files[q] = Raw(b))

\* In the directory d there are the files of c.
HoldsAt(files, c, d) ==
  /\ \A x \in KeyedFiles(c, d) : Reads(files, x[1], x[2])
  /\ \A q \in DOMAIN files : Inside(q, d) => \E x \in KeyedFiles(c, d) : x[1] = q

\* The directories of the calls w to come are as they were in the old commits,
\* what is outside them is as it is in c.
Dir(call) == LowerPath(call.at)
Open(q, w) == \E i \in DOMAIN w : Inside(q, Dir(w[i]))
Leads(u, c) == {x \in KeyedFiles(c, <<>>) : Inside(x[1], Dir(u))} = KeyedFiles(u.new, Dir(u))
Apart(d, e) == \A q \in Paths : ~(Inside(q, d) /\ Inside(q, e))

Pending(files, c, w) ==
  /\ \A x \in KeyedFiles(c, <<>>) : Open(x[1], w) \/ Reads(files, x[1], x[2])
  /\ \A q \in DOMAIN files : Open(q, w) \/ \E x \in KeyedFiles(c, <<>>) : x[1] = q
  /\ \A i \in DOMAIN w : HoldsAt(files, w[i].old, Dir(w[i])) /\ Leads(w[i], c)
  /\ \A i, j \in DOMAIN w : i # j => Apart(Dir(w[i]), Dir(w[j]))

\* It is the package of c, with the version.
IsTree(files, c) ==
  /\ files = [q \in DOMAIN files |-> files[q]]
  /\ Pending(files, c, <<>>)
  /\ Key \in DOMAIN files /\ files[Key] = [blob |-> Tree[c][Modinfo], version |-> Version[c]]

TreesIn(list) == \A c \in Main \cap DOMAIN list : list[c] \notin deviant => IsTree(list[c], c)
LastTree == last # None /\ last.package \notin deviant => IsTree(last.package, last.commit)

\* What a program makes, and the list it holds.
MakesTree(r) ==
  /\ TreesIn(versions[r])
  /\ pc[r] = "diff" /\ ~deviates[r] => Pending(archive[r], job[r], work[r])
  /\ pc[r] = "replace" /\ ~deviates[r] => Pending(archive[r], job[r], <<>>)
  /\ pc[r] = "save" /\ IsGit(r) /\ ~deviates[r] => IsTree(archive[r], job[r])
  /\ pc[r] \in {"load", "list", "saving", "last", "zip"} /\ IsGit(r) =>
       archive[r] \in deviant \/ IsTree(archive[r], job[r])

TreeInv == TreesIn(versionsgz.entries) /\ LastTree /\ \A r \in Programs : MakesTree(r)

----------------------------------------------------------------------------
(* The files of a commit, by their keys *)

NameKey(d, n) == Append(d, Lower[n])

LEMMA KeyedTypes ==
  ASSUME NEW c \in Commits \cup {None}, NEW d \in Paths, NEW x \in KeyedFiles(c, d)
  PROVE  x = <<x[1], x[2]>> /\ x[1] \in Paths /\ Inside(x[1], d) /\ x[2] \in Blobs
<1>1. FlatOf(c) \in Maps
  <2>1. CASE c = None
    BY <2>1, MapFacts DEF FlatOf
  <2>2. CASE c \in Commits
    BY <2>2, FlatIsDeep DEF IsLayer
  <2> QED BY <2>1, <2>2
<1>2. PICK s \in DOMAIN FlatOf(c) : x = <<KeyOf(d, s), FlatOf(c)[s]>>
  BY DEF KeyedFiles
<1>3. s \in FilePaths /\ s \in Paths /\ FlatOf(c)[s] \in Blobs
  BY <1>1, MapFacts DEF FilePaths
<1>4. KeyOf(d, s) \in Paths /\ Inside(KeyOf(d, s), d)
  BY <1>3, KeyFacts, KeyInside
<1> QED BY <1>2, <1>3, <1>4

LEMMA KeyedNone ==
  ASSUME NEW d
  PROVE  KeyedFiles(None, d) = {}
BY DEF KeyedFiles, FlatOf, Empty

\* The files of a commit are its own and those of its submodules.
LEMMA KeyedBlob ==
  ASSUME NEW c \in Commits \cup {None}, NEW d \in Paths, NEW n, BlobAt(c, n)
  PROVE  n \in Names /\ <<NameKey(d, n), TreeOf(c)[n]>> \in KeyedFiles(c, d)
<1>1. c \in Commits /\ TreeOf(c) = Tree[c] /\ n \in DOMAIN Tree[c] /\ Tree[c][n] \in Blobs
  BY DEF BlobAt, TreeOf, Empty
<1>2. n \in Names
  BY <1>1, StoreAssumption
<1>3. <<n>> \in DOMAIN FlatOf(c) /\ FlatOf(c)[<<n>>] = Tree[c][n]
  BY <1>1, FlatIsDeep DEF IsLayer
<1>4. KeyOf(d, <<n>>) = NameKey(d, n)
  BY <1>2, DirKeys DEF NameKey
<1> QED BY <1>1, <1>2, <1>3, <1>4 DEF KeyedFiles

LEMMA FlatOfSubmodule ==
  ASSUME NEW c \in Commits, NEW m \in Commits
  PROVE  [e \in Commits |-> FlatOf(e)][m] = FlatOf(m) /\ FlatOf(m) \in Maps
BY FlatIsDeep DEF IsLayer

LEMMA KeyedSubmodule ==
  ASSUME NEW c \in Commits \cup {None}, NEW d \in Paths, NEW n, SubmoduleAt(c, n)
  PROVE  /\ n \in Names /\ TreeOf(c)[n] \in Commits
         /\ KeyedFiles(TreeOf(c)[n], NameKey(d, n)) \subseteq KeyedFiles(c, d)
<1>1. c \in Commits /\ TreeOf(c) = Tree[c] /\ n \in DOMAIN Tree[c] /\ Tree[c][n] \in Commits
  BY DEF SubmoduleAt, TreeOf, Empty
<1>2. n \in Names
  BY <1>1, StoreAssumption
<1>3. PICK m \in Commits : m = Tree[c][n]
  BY <1>1
<1>4. ASSUME NEW s \in DOMAIN FlatOf(m)
      PROVE  <<KeyOf(NameKey(d, n), s), FlatOf(m)[s]>> \in KeyedFiles(c, d)
  <2>1. <<n>> \o s \in DOMAIN FlatOf(c) /\ FlatOf(c)[<<n>> \o s] = FlatOf(m)[s]
    BY <1>1, <1>3, FlatIsDeep, FlatOfSubmodule DEF IsLayer
  <2>2. s \in Paths
    BY FlatOfSubmodule, MapFacts, <1>1 DEF FilePaths
  <2>3. KeyOf(d, <<n>> \o s) = KeyOf(NameKey(d, n), s)
    BY <1>2, <2>2, DirKeys DEF NameKey
  <2> QED BY <2>1, <2>3 DEF KeyedFiles
<1>5. KeyedFiles(m, NameKey(d, n)) \subseteq KeyedFiles(c, d)
  BY <1>4 DEF KeyedFiles
<1> QED BY <1>1, <1>2, <1>3, <1>5

LEMMA KeyedIs ==
  ASSUME NEW c \in Commits \cup {None}, NEW d \in Paths, NEW x \in KeyedFiles(c, d)
  PROVE  \E n \in Names :
           \/ BlobAt(c, n) /\ x = <<NameKey(d, n), TreeOf(c)[n]>>
           \/ SubmoduleAt(c, n) /\ x \in KeyedFiles(TreeOf(c)[n], NameKey(d, n))
<1>1. PICK s \in DOMAIN FlatOf(c) : x = <<KeyOf(d, s), FlatOf(c)[s]>>
  BY DEF KeyedFiles
<1>2. c \in Commits /\ TreeOf(c) = Tree[c]
  BY <1>1 DEF FlatOf, Empty, TreeOf
<1>3. PICK n \in DOMAIN Tree[c] :
        \/ Tree[c][n] \in Blobs /\ s = <<n>>
        \/ Tree[c][n] \in Commits /\ \E t \in DOMAIN FlatOf(Tree[c][n]) : s = <<n>> \o t
  BY <1>2, FlatIsDeep, FlatOfSubmodule DEF IsLayer
<1>4. n \in Names
  BY <1>2, StoreAssumption
<1>5. CASE Tree[c][n] \in Blobs /\ s = <<n>>
  <2>1. KeyOf(d, s) = NameKey(d, n) /\ FlatOf(c)[s] = Tree[c][n]
    BY <1>2, <1>4, <1>5, DirKeys, FlatIsDeep DEF NameKey, IsLayer
  <2> QED BY <1>1, <1>2, <1>4, <1>5, <2>1 DEF BlobAt
<1>6. CASE Tree[c][n] \in Commits /\ \E t \in DOMAIN FlatOf(Tree[c][n]) : s = <<n>> \o t
  <2>1. PICK m \in Commits : m = Tree[c][n]
    BY <1>6
  <2>2. PICK t \in DOMAIN FlatOf(m) : s = <<n>> \o t
    BY <1>6, <2>1
  <2>3. FlatOf(c)[s] = FlatOf(m)[t]
    BY <1>2, <2>1, <2>2, FlatIsDeep, FlatOfSubmodule DEF IsLayer
  <2>4. t \in Paths
    BY <1>2, FlatOfSubmodule, MapFacts DEF FilePaths
  <2>5. KeyOf(d, s) = KeyOf(NameKey(d, n), t)
    BY <1>4, <2>2, <2>4, DirKeys DEF NameKey
  <2>6. x \in KeyedFiles(m, NameKey(d, n))
    BY <1>1, <2>3, <2>5 DEF KeyedFiles
  <2> QED BY <1>2, <1>4, <1>6, <2>1, <2>6 DEF SubmoduleAt
<1> QED BY <1>3, <1>5, <1>6

----------------------------------------------------------------------------
(* Keys in a directory *)

LEMMA NameKeys ==
  ASSUME NEW d \in Paths, NEW n \in Names, NEW m \in Names
  PROVE  /\ NameKey(d, n) \in Paths /\ Inside(NameKey(d, n), d)
         /\ ~Inside(NameKey(d, m), NameKey(d, n))
         /\ NameKey(d, m) = NameKey(d, n) => Lower[m] = Lower[n]
         /\ \A q \in Paths : Inside(q, NameKey(d, n)) => Inside(q, d)
         /\ \A q \in Paths : Inside(q, NameKey(d, n)) /\ Inside(q, NameKey(d, m)) => Lower[m] = Lower[n]
<1>1. /\ NameKey(d, n) \in Paths /\ Len(NameKey(d, n)) = Len(d) + 1
      /\ NameKey(d, n)[Len(d) + 1] = Lower[n] /\ Len(d) \in Nat
  BY DirFacts DEF NameKey
<1>2. /\ NameKey(d, m) \in Paths /\ Len(NameKey(d, m)) = Len(d) + 1
      /\ NameKey(d, m)[Len(d) + 1] = Lower[m]
  BY DirFacts DEF NameKey
<1>3. Inside(NameKey(d, n), d)
  BY InsideDir DEF NameKey
<1>4. ~Inside(NameKey(d, m), NameKey(d, n))
  BY <1>1, <1>2, InsideFacts
<1>5. \A q \in Paths : Inside(q, NameKey(d, n)) => Inside(q, d) /\ q[Len(d) + 1] = Lower[n]
  BY InsideDir DEF NameKey
<1>6. \A q \in Paths : Inside(q, NameKey(d, m)) => q[Len(d) + 1] = Lower[m]
  BY InsideDir DEF NameKey
<1> QED BY <1>1, <1>2, <1>3, <1>4, <1>5, <1>6

LEMMA FullPathFacts ==
  ASSUME NEW call \in Calls, NEW n \in Names
  PROVE  /\ Dir(call) \in Paths /\ FullPath(call, n) = NameKey(Dir(call), n)
         /\ FullPath(call, n) \in Paths
<1>1. call.at \in Paths
  BY DEF Calls
<1>2. Dir(call) \in Paths /\ Len(Dir(call)) = Len(call.at) /\ Len(call.at) \in Nat
      /\ \A i \in 1..Len(call.at) : Dir(call)[i] = Lower[call.at[i]]
  BY <1>1, LowerPathFacts DEF Dir
<1>3. /\ Append(call.at, n) \in Paths /\ Len(Append(call.at, n)) = Len(call.at) + 1
      /\ Append(call.at, n)[Len(call.at) + 1] = n
      /\ \A i \in 1..Len(call.at) : Append(call.at, n)[i] = call.at[i]
  BY <1>1, AppendProperties, LenProperties DEF Paths
<1>4. /\ FullPath(call, n) \in Paths /\ Len(FullPath(call, n)) = Len(call.at) + 1
      /\ \A i \in 1..(Len(call.at) + 1) : FullPath(call, n)[i] = Lower[Append(call.at, n)[i]]
  BY <1>3, LowerPathFacts DEF FullPath
<1>5. /\ NameKey(Dir(call), n) \in Paths /\ Len(NameKey(Dir(call), n)) = Len(call.at) + 1
      /\ NameKey(Dir(call), n)[Len(call.at) + 1] = Lower[n]
      /\ \A i \in 1..Len(call.at) : NameKey(Dir(call), n)[i] = Dir(call)[i]
  BY <1>2, DirFacts DEF NameKey
<1>6. \A i \in 1..(Len(call.at) + 1) : FullPath(call, n)[i] = NameKey(Dir(call), n)[i]
  <2>1. ASSUME NEW i \in 1..Len(call.at)
        PROVE  FullPath(call, n)[i] = NameKey(Dir(call), n)[i]
    <3>1. i \in 1..(Len(call.at) + 1)
      BY <1>2
    <3>2. FullPath(call, n)[i] = Lower[call.at[i]]
      BY <1>3, <1>4, <3>1
    <3> QED BY <1>2, <1>5, <3>2
  <2>2. FullPath(call, n)[Len(call.at) + 1] = Lower[n]
    BY <1>2, <1>3, <1>4
  <2> QED BY <1>2, <1>5, <2>1, <2>2
<1>7. FullPath(call, n) = NameKey(Dir(call), n)
  BY <1>4, <1>5, <1>6, PathsEqual
<1> QED BY <1>2, <1>4, <1>7

LEMMA InsideHasPrefix ==
  ASSUME NEW d \in Paths, NEW n \in Names, NEW q \in Paths, Inside(q, NameKey(d, n))
  PROVE  HasPrefix(q, NameKey(d, n))
<1> DEFINE e == NameKey(d, n)
<1>1. e \in Paths /\ Len(e) = Len(d) + 1 /\ Len(d) \in Nat
  BY DirFacts DEF NameKey
<1> HIDE DEF e
<1>2. Len(q) > Len(e) /\ Len(q) \in Nat /\ \A i \in 1..Len(e) : q[i] = e[i]
  BY <1>1, InsideFacts DEF e
<1>3. Len(e) \in 1..Len(e)
  BY <1>1
<1>4. q[Len(e)] = e[Len(e)] /\ e[Len(e)] \in Names
  BY <1>1, <1>2, <1>3, LenProperties DEF Paths
<1>5. <<q[Len(e)], e[Len(e)]>> \in Begins
  BY <1>4, StoreAssumption
<1>6. HasPrefix(q, e)
  <2>1. Len(q) >= Len(e) /\ \A i \in 1..(Len(e) - 1) : q[i] = e[i]
    BY <1>1, <1>2
  <2> QED BY <1>5, <2>1 DEF HasPrefix
<1> QED BY <1>6 DEF e

----------------------------------------------------------------------------
(* processDiff *)

\* A key that some delta of a call says something about.
Touched(call, q) == \E n \in Deltas(call) : Adds(call, n, q) \/ Removes(call, n, q)

LEMMA TouchedFacts ==
  ASSUME NEW call \in Calls, NEW q
  PROVE  /\ Touching(call, q) = {} <=> ~Touched(call, q)
         /\ Comes(call, q) => \E n \in Deltas(call) :
              Adds(call, n, q) /\ AddedFile(call, q) = Raw(Tree[call.new][n])
<1>1. DOMAIN DiffOrder = 1..Len(DiffOrder) /\ \A i \in DOMAIN DiffOrder : DiffOrder[i] \in Names
  BY StoreAssumption
<1>2. Deltas(call) \subseteq Names
  BY DeltasFacts
<1>3. Touching(call, q) = {} <=> ~Touched(call, q)
  <2>1. ASSUME Touched(call, q)
        PROVE  Touching(call, q) # {}
    <3>1. PICK n \in Deltas(call) : Adds(call, n, q) \/ Removes(call, n, q)
      BY <2>1 DEF Touched
    <3>2. PICK i \in DOMAIN DiffOrder : DiffOrder[i] = n
      BY <1>2, StoreAssumption
    <3> QED BY <3>1, <3>2 DEF Touching
  <2> QED BY <2>1 DEF Touching, Touched
<1>4. ASSUME Comes(call, q)
      PROVE  \E n \in Deltas(call) :
               Adds(call, n, q) /\ AddedFile(call, q) = Raw(Tree[call.new][n])
  <2> DEFINE Top(i) == i \in Touching(call, q) /\ \A j \in Touching(call, q) : j <= i
             t == CHOOSE i \in Touching(call, q) : \A j \in Touching(call, q) : j <= i
  <2>1. PICK i : Top(i) /\ Adds(call, DiffOrder[i], q)
    BY <1>4 DEF Comes
  <2>2. Top(t)
    BY <2>1
  <2>3. i \in Nat /\ t \in Nat /\ DiffOrder[i] \in Deltas(call)
    BY <1>1, <2>1, <2>2 DEF Touching
  <2> HIDE DEF t
  <2>4. t = i
    BY <2>1, <2>2, <2>3
  <2>5. Decides(call, q) = DiffOrder[i]
    BY <2>4 DEF Decides, t
  <2> QED BY <2>1, <2>3, <2>5 DEF AddedFile
<1> QED BY <1>3, <1>4

\* The new list is the old one where nothing is said of a key, and has what comes.
LEMMA ProcessDiffFacts ==
  ASSUME NEW call \in Calls, NEW files, NEW q
  PROVE  /\ q \in DOMAIN ProcessDiff(call, files) <=>
              (q \in DOMAIN files /\ ~Touched(call, q)) \/ Comes(call, q)
         /\ q \in DOMAIN files /\ ~Touched(call, q) => ProcessDiff(call, files)[q] = files[q]
         /\ Comes(call, q) => ProcessDiff(call, files)[q] = AddedFile(call, q)
         /\ ProcessDiff(call, files) =
              [k \in DOMAIN ProcessDiff(call, files) |-> ProcessDiff(call, files)[k]]
<1> DEFINE Stays(k) == k \in DOMAIN files /\ Touching(call, k) = {}
           D == {k \in Keys(call, files) : Stays(k) \/ Comes(call, k)}
           p == [k \in D |-> IF Stays(k) THEN files[k] ELSE AddedFile(call, k)]
<1>1. ProcessDiff(call, files) = p
  BY DEF ProcessDiff
<1>2. Comes(call, q) => q \in Keys(call, files) /\ Touching(call, q) # {}
  BY TouchedFacts DEF Keys, Adds, Comes
<1>3. q \in DOMAIN files => q \in Keys(call, files)
  BY DEF Keys
<1>4. q \in D <=> (q \in DOMAIN files /\ ~Touched(call, q)) \/ Comes(call, q)
  BY <1>2, <1>3, TouchedFacts
<1>5. Stays(q) <=> q \in DOMAIN files /\ ~Touched(call, q)
  BY TouchedFacts
<1>6. DOMAIN p = D /\ p = [k \in DOMAIN p |-> p[k]]
  OBVIOUS
<1>7. q \in D => p[q] = IF Stays(q) THEN files[q] ELSE AddedFile(call, q)
  OBVIOUS
<1>8. Comes(call, q) => ~Stays(q)
  BY <1>2
<1> HIDE DEF D, p, Stays
<1> QED BY <1>1, <1>4, <1>5, <1>6, <1>7, <1>8

\* The difference can be followed.
Followed(call, files) ==
  /\ call \in Calls /\ DOMAIN files \subseteq Paths /\ HoldsAt(files, call.old, Dir(call))
  /\ ~Deviates(call, files)

LEMMA FollowedFacts ==
  ASSUME NEW call, NEW files, Followed(call, files)
  PROVE  /\ \A n \in Deltas(call) : \A q \in DOMAIN files : Removes(call, n, q) =>
              \/ BlobAt(call.old, n) /\ ~BlobAt(call.new, n) /\ q = FullPath(call, n)
              \/ /\ SubmoduleAt(call.old, n) /\ ~SubmoduleAt(call.new, n)
                 /\ Inside(q, FullPath(call, n))
         /\ \A n \in Deltas(call) : BlobAt(call.new, n) => Comes(call, FullPath(call, n))
         /\ \A n \in Deltas(call) : BlobAt(call.old, n) /\ ~BlobAt(call.new, n) =>
              FullPath(call, n) = LowerPath(<<n>>)
         /\ \A n, m \in DOMAIN TreeOf(call.old) \cup DOMAIN Tree[call.new] :
              Lower[m] = Lower[n] => m = n
<1>1. call \in Calls
  BY DEF Followed
<1>2. \A n : ~(BlobAt(call.old, n) /\ SubmoduleAt(call.old, n))
  BY StoreAssumption DEF BlobAt, SubmoduleAt
<1>3. ASSUME NEW n \in Deltas(call), NEW q \in DOMAIN files, Removes(call, n, q)
      PROVE  \/ BlobAt(call.old, n) /\ ~BlobAt(call.new, n) /\ q = FullPath(call, n)
             \/ /\ SubmoduleAt(call.old, n) /\ ~SubmoduleAt(call.new, n)
                /\ Inside(q, FullPath(call, n))
  BY <1>2, <1>3 DEF Followed, Deviates, Removes
<1>4. \A n \in Deltas(call) : BlobAt(call.new, n) => Comes(call, FullPath(call, n))
  BY DEF Followed, Deviates
<1>5. \A n \in Deltas(call) : BlobAt(call.old, n) /\ ~BlobAt(call.new, n) =>
              FullPath(call, n) = LowerPath(<<n>>)
  BY DEF Followed, Deviates
<1>6. \A n, m \in DOMAIN TreeOf(call.old) \cup DOMAIN Tree[call.new] :
              Lower[m] = Lower[n] => m = n
  BY DEF Followed, Deviates
<1> QED BY <1>3, <1>4, <1>5, <1>6

\* The names of the two commits.
LEMMA EntryFacts ==
  ASSUME NEW call \in Calls, NEW n
  PROVE  /\ n \in DOMAIN TreeOf(call.old) \cup DOMAIN Tree[call.new] => n \in Names
         /\ TreeOf(call.new) = Tree[call.new]
         /\ BlobAt(call.old, n) \/ SubmoduleAt(call.old, n) => n \in DOMAIN TreeOf(call.old)
         /\ BlobAt(call.new, n) \/ SubmoduleAt(call.new, n) => n \in DOMAIN Tree[call.new]
         /\ ~(BlobAt(call.old, n) /\ SubmoduleAt(call.old, n))
         /\ ~(BlobAt(call.new, n) /\ SubmoduleAt(call.new, n))
         /\ n \in DOMAIN TreeOf(call.old) \cup DOMAIN Tree[call.new] /\ n \notin Deltas(call) =>
              /\ BlobAt(call.old, n) <=> BlobAt(call.new, n)
              /\ SubmoduleAt(call.old, n) <=> SubmoduleAt(call.new, n)
              /\ TreeOf(call.old)[n] = Tree[call.new][n]
         /\ n \in Deltas(call) => n \in DOMAIN TreeOf(call.old) \cup DOMAIN Tree[call.new]
<1>1. call.new \in Commits /\ TreeOf(call.new) = Tree[call.new]
  BY StoreAssumption DEF Calls, TreeOf
<1>2. /\ n \in DOMAIN TreeOf(call.old) \cup DOMAIN Tree[call.new] => n \in Names
      /\ n \in Deltas(call) <=> n \in DOMAIN TreeOf(call.old) \cup DOMAIN Tree[call.new] /\
           ~(n \in DOMAIN TreeOf(call.old) /\ n \in DOMAIN Tree[call.new] /\
             TreeOf(call.old)[n] = Tree[call.new][n])
  BY DeltasFacts
<1> QED BY <1>1, <1>2, StoreAssumption DEF BlobAt, SubmoduleAt

\* Outside its directory a call changes nothing.
LEMMA DiffOutside ==
  ASSUME NEW call, NEW files, Followed(call, files), NEW q \in Paths, ~Inside(q, Dir(call))
  PROVE  /\ q \in DOMAIN ProcessDiff(call, files) <=> q \in DOMAIN files
         /\ q \in DOMAIN files => ProcessDiff(call, files)[q] = files[q]
<1>1. call \in Calls
  BY DEF Followed
<1>2. \A n \in Deltas(call) : n \in Names /\ FullPath(call, n) \in Paths /\ Inside(FullPath(call, n), Dir(call))
        /\ (Inside(q, FullPath(call, n)) => Inside(q, Dir(call)))
  BY <1>1, EntryFacts, FullPathFacts, NameKeys
<1>3. ~Comes(call, q)
  BY <1>1, <1>2, TouchedFacts DEF Adds
<1>4. q \in DOMAIN files => ~Touched(call, q)
  BY <1>2, FollowedFacts DEF Touched, Adds
<1> QED BY <1>1, <1>3, <1>4, ProcessDiffFacts

\* A blob of the new commit is there afterwards.
LEMMA DiffBlob ==
  ASSUME NEW call, NEW files, Followed(call, files), NEW n, BlobAt(call.new, n)
  PROVE  Reads(ProcessDiff(call, files), NameKey(Dir(call), n), Tree[call.new][n])
<1> DEFINE D == Dir(call)
           q == NameKey(D, n)
<1>1. call \in Calls /\ n \in Names /\ n \in DOMAIN TreeOf(call.old) \cup DOMAIN Tree[call.new]
  BY EntryFacts DEF Followed
<1>2. FullPath(call, n) = q /\ D \in Paths /\ q \in Paths
  BY <1>1, FullPathFacts
<1>3. ASSUME NEW m \in Deltas(call)
      PROVE  /\ m \in Names /\ FullPath(call, m) = NameKey(D, m)
             /\ q = FullPath(call, m) => m = n
             /\ ~Inside(q, FullPath(call, m))
  <2>1. m \in Names /\ m \in DOMAIN TreeOf(call.old) \cup DOMAIN Tree[call.new]
    BY <1>1, EntryFacts
  <2>2. FullPath(call, m) = NameKey(D, m)
    BY <1>1, <2>1, FullPathFacts
  <2>3. /\ q = NameKey(D, m) => Lower[m] = Lower[n]
        /\ ~Inside(q, NameKey(D, m))
    BY <1>1, <1>2, <2>1, NameKeys
  <2>4. Lower[m] = Lower[n] => m = n
    BY <1>1, <2>1, FollowedFacts
  <2> QED BY <2>1, <2>2, <2>3, <2>4
<1>4. CASE n \in Deltas(call)
  <2>1. Comes(call, q)
    BY <1>2, <1>4, FollowedFacts
  <2>2. PICK m \in Deltas(call) : Adds(call, m, q) /\ AddedFile(call, q) = Raw(Tree[call.new][m])
    BY <1>1, <2>1, TouchedFacts
  <2>3. m = n
    BY <1>3, <2>2 DEF Adds
  <2>4. q \in DOMAIN ProcessDiff(call, files) /\ ProcessDiff(call, files)[q] = Raw(Tree[call.new][n])
    BY <1>1, <2>1, <2>2, <2>3, ProcessDiffFacts
  <2> QED BY <2>4 DEF Reads
<1>5. CASE n \notin Deltas(call)
  <2>1. BlobAt(call.old, n) /\ TreeOf(call.old)[n] = Tree[call.new][n]
    BY <1>1, <1>5, EntryFacts
  <2>2. <<q, Tree[call.new][n]>> \in KeyedFiles(call.old, D)
    BY <1>1, <1>2, <2>1, KeyedBlob DEF Calls
  <2>3. Reads(files, q, Tree[call.new][n])
    BY <2>2 DEF Followed, HoldsAt
  <2>4. ~Touched(call, q)
    <3>1. q \in DOMAIN files
      BY <2>3 DEF Reads
    <3>2. ASSUME NEW m \in Deltas(call), Adds(call, m, q) \/ Removes(call, m, q)
          PROVE  FALSE
      <4>1. q = FullPath(call, m) \/ Inside(q, FullPath(call, m))
        BY <3>1, <3>2, FollowedFacts DEF Adds
      <4> QED BY <1>3, <1>5, <4>1
    <3> QED BY <3>2 DEF Touched
  <2>5. q \in DOMAIN ProcessDiff(call, files) /\ ProcessDiff(call, files)[q] = files[q]
    BY <1>1, <2>3, <2>4, ProcessDiffFacts DEF Reads
  <2> QED BY <2>3, <2>5 DEF Reads
<1> QED BY <1>4, <1>5

\* In the directory of a submodule of the new commit a call changes nothing.
LEMMA DiffKeeps ==
  ASSUME NEW call, NEW files, Followed(call, files), NEW n, SubmoduleAt(call.new, n),
         NEW q \in Paths, Inside(q, NameKey(Dir(call), n))
  PROVE  /\ q \in DOMAIN ProcessDiff(call, files) <=> q \in DOMAIN files
         /\ q \in DOMAIN files => ProcessDiff(call, files)[q] = files[q]
<1> DEFINE D == Dir(call)
<1>1. call \in Calls /\ n \in Names /\ n \in DOMAIN TreeOf(call.old) \cup DOMAIN Tree[call.new]
      /\ D \in Paths
  BY EntryFacts, FullPathFacts DEF Followed
<1>2. ASSUME NEW m \in Deltas(call)
      PROVE  /\ q # FullPath(call, m)
             /\ Inside(q, FullPath(call, m)) => m = n
  <2>1. m \in Names /\ m \in DOMAIN TreeOf(call.old) \cup DOMAIN Tree[call.new]
    BY <1>1, EntryFacts
  <2>2. FullPath(call, m) = NameKey(D, m)
    BY <1>1, <2>1, FullPathFacts
  <2>3. /\ q # NameKey(D, m)
        /\ Inside(q, NameKey(D, m)) => Lower[m] = Lower[n]
    BY <1>1, <2>1, NameKeys
  <2>4. Lower[m] = Lower[n] => m = n
    BY <1>1, <2>1, FollowedFacts
  <2> QED BY <2>2, <2>3, <2>4
<1>3. ~Comes(call, q)
  BY <1>1, <1>2, TouchedFacts DEF Adds
<1>4. q \in DOMAIN files => ~Touched(call, q)
  BY <1>2, FollowedFacts DEF Touched, Adds
<1> QED BY <1>1, <1>3, <1>4, ProcessDiffFacts

\* What a package holds of a commit it holds of each of its submodules; of none
\* where there is no submodule.
LEMMA HoldsSubmodule ==
  ASSUME NEW c \in Commits \cup {None}, NEW d \in Paths, NEW files, DOMAIN files \subseteq Paths,
         HoldsAt(files, c, d), NEW n \in Names,
         \A m \in DOMAIN TreeOf(c) : Lower[m] = Lower[n] => m = n
  PROVE  HoldsAt(files, IF SubmoduleAt(c, n) THEN TreeOf(c)[n] ELSE None, NameKey(d, n))
<1> DEFINE o == IF SubmoduleAt(c, n) THEN TreeOf(c)[n] ELSE None
           e == NameKey(d, n)
<1>1. KeyedFiles(o, e) \subseteq KeyedFiles(c, d)
  BY KeyedSubmodule, KeyedNone
<1>2. ASSUME NEW q \in DOMAIN files, Inside(q, e)
      PROVE  \E x \in KeyedFiles(o, e) : x[1] = q
  <2>1. PICK x \in KeyedFiles(c, d) : x[1] = q
    BY <1>2, NameKeys DEF HoldsAt
  <2>2. PICK m \in Names :
           \/ BlobAt(c, m) /\ x = <<NameKey(d, m), TreeOf(c)[m]>>
           \/ SubmoduleAt(c, m) /\ x \in KeyedFiles(TreeOf(c)[m], NameKey(d, m))
    BY KeyedIs
  <2>3. CASE BlobAt(c, m) /\ x = <<NameKey(d, m), TreeOf(c)[m]>>
    BY <1>2, <2>1, <2>3, NameKeys
  <2>4. CASE SubmoduleAt(c, m) /\ x \in KeyedFiles(TreeOf(c)[m], NameKey(d, m))
    <3>1. TreeOf(c)[m] \in Commits \cup {None} /\ NameKey(d, m) \in Paths
      BY <2>4, NameKeys DEF SubmoduleAt
    <3>2. Inside(q, NameKey(d, m))
      BY <2>1, <2>4, <3>1, KeyedTypes
    <3>3. Lower[m] = Lower[n]
      BY <1>2, <3>2, NameKeys
    <3>4. m = n
      BY <2>4, <3>3 DEF SubmoduleAt
    <3> QED BY <2>1, <2>4, <3>4
  <2> QED BY <2>2, <2>3, <2>4
<1> HIDE DEF o, e
<1>3. HoldsAt(files, o, e)
  BY <1>1, <1>2 DEF HoldsAt
<1> QED BY <1>3 DEF o, e

\* A submodule of the new commit is as it was in the old one.
LEMMA DiffSubmodule ==
  ASSUME NEW call, NEW files, Followed(call, files), NEW n, SubmoduleAt(call.new, n)
  PROVE  HoldsAt(ProcessDiff(call, files),
                 IF Enters(call, n) THEN Enter(call, n).old ELSE Tree[call.new][n],
                 NameKey(Dir(call), n))
<1> DEFINE D == Dir(call)
           e == NameKey(D, n)
           o == IF SubmoduleAt(call.old, n) THEN TreeOf(call.old)[n] ELSE None
           new == ProcessDiff(call, files)
<1>1. call \in Calls /\ n \in Names /\ n \in DOMAIN TreeOf(call.old) \cup DOMAIN Tree[call.new]
      /\ D \in Paths /\ e \in Paths /\ call.old \in Commits \cup {None}
  BY EntryFacts, FullPathFacts, NameKeys DEF Followed, Calls
<1>2. (IF Enters(call, n) THEN Enter(call, n).old ELSE Tree[call.new][n]) = o
  <2>1. CASE n \in Deltas(call)
    BY <2>1 DEF Enters, Enter
  <2>2. CASE n \notin Deltas(call)
    BY <1>1, <2>2, EntryFacts DEF Enters
  <2> QED BY <2>1, <2>2
<1>3. HoldsAt(files, o, e)
  <2>1. \A m \in DOMAIN TreeOf(call.old) : Lower[m] = Lower[n] => m = n
    BY <1>1, FollowedFacts
  <2> QED BY <1>1, <2>1, HoldsSubmodule DEF Followed
<1>4. o \in Commits \cup {None}
  BY DEF SubmoduleAt
<1>5. \A q \in Paths : Inside(q, e) =>
        (q \in DOMAIN new <=> q \in DOMAIN files) /\ (q \in DOMAIN files => new[q] = files[q])
  BY DiffKeeps
<1>6. DOMAIN new \subseteq Paths
  <2>1. \A q : Comes(call, q) => q \in Paths
    BY <1>1, TouchedFacts, EntryFacts, FullPathFacts DEF Adds
  <2> QED BY <1>1, <2>1, ProcessDiffFacts DEF Followed
<1> HIDE DEF o, e, new
<1>7. \A x \in KeyedFiles(o, e) : Reads(new, x[1], x[2])
  BY <1>1, <1>3, <1>4, <1>5, KeyedTypes DEF HoldsAt, Reads
<1>8. \A q \in DOMAIN new : Inside(q, e) => \E x \in KeyedFiles(o, e) : x[1] = q
  BY <1>3, <1>5, <1>6 DEF HoldsAt
<1>9. HoldsAt(new, o, e)
  BY <1>7, <1>8 DEF HoldsAt
<1> QED BY <1>2, <1>9 DEF e, new

LEMMA DirIsPath ==
  ASSUME NEW call \in Calls
  PROVE  Dir(call) \in Paths
BY FullPathFacts, StoreAssumption

\* Nothing else is left in its directory.
LEMMA DiffRest ==
  ASSUME NEW call, NEW files, Followed(call, files),
         NEW q \in DOMAIN ProcessDiff(call, files), Inside(q, Dir(call))
  PROVE  \E n \in Names : \/ BlobAt(call.new, n) /\ q = NameKey(Dir(call), n)
                          \/ SubmoduleAt(call.new, n) /\ Inside(q, NameKey(Dir(call), n))
<1> DEFINE D == Dir(call)
<1>1. call \in Calls /\ D \in Paths /\ call.old \in Commits \cup {None}
  <2>1. call \in Calls
    BY DEF Followed
  <2> QED BY <2>1, DirIsPath DEF Calls
<1>2. \A n \in Names : FullPath(call, n) = NameKey(D, n)
  BY <1>1, FullPathFacts
<1>3. CASE Comes(call, q)
  <2>1. PICK n \in Deltas(call) : Adds(call, n, q)
    BY <1>1, <1>3, TouchedFacts
  <2>2. n \in Names
    BY <1>1, EntryFacts
  <2> QED BY <1>2, <2>1, <2>2 DEF Adds
<1>4. CASE q \in DOMAIN files /\ ~Touched(call, q)
  <2>1. q \in Paths
    BY <1>4 DEF Followed
  <2>2. PICK x \in KeyedFiles(call.old, D) : x[1] = q
    BY <1>4 DEF Followed, HoldsAt
  <2>3. PICK n \in Names :
           \/ BlobAt(call.old, n) /\ x = <<NameKey(D, n), TreeOf(call.old)[n]>>
           \/ SubmoduleAt(call.old, n) /\ x \in KeyedFiles(TreeOf(call.old)[n], NameKey(D, n))
    BY <1>1, KeyedIs
  <2>4. ~Removes(call, n, q) \/ n \notin Deltas(call)
    BY <1>4 DEF Touched
  <2>5. CASE BlobAt(call.old, n) /\ x = <<NameKey(D, n), TreeOf(call.old)[n]>>
    <3>1. q = FullPath(call, n)
      BY <1>2, <2>2, <2>5
    <3>2. n \in Deltas(call) => BlobAt(call.new, n)
      BY <2>4, <2>5, <3>1, FollowedFacts DEF Removes
    <3>3. BlobAt(call.new, n)
      BY <1>1, <2>5, <3>2, EntryFacts
    <3> QED BY <1>2, <3>1, <3>3
  <2>6. CASE SubmoduleAt(call.old, n) /\ x \in KeyedFiles(TreeOf(call.old)[n], NameKey(D, n))
    <3>1. TreeOf(call.old)[n] \in Commits \cup {None} /\ NameKey(D, n) \in Paths
      BY <1>1, <2>6, NameKeys DEF SubmoduleAt
    <3>2. Inside(q, NameKey(D, n))
      BY <2>2, <2>6, <3>1, KeyedTypes
    <3>3. HasPrefix(q, FullPath(call, n))
      BY <1>1, <1>2, <2>1, <3>2, InsideHasPrefix
    <3>4. n \in Deltas(call) => SubmoduleAt(call.new, n)
      BY <2>4, <2>6, <3>3 DEF Removes
    <3>5. SubmoduleAt(call.new, n)
      BY <1>1, <2>6, <3>4, EntryFacts
    <3> QED BY <3>2, <3>5
  <2> QED BY <2>3, <2>5, <2>6
<1> QED BY <1>1, <1>3, <1>4, ProcessDiffFacts

----------------------------------------------------------------------------
(* A call of processRepo *)

LEMMA EnterDir ==
  ASSUME NEW call \in Calls, NEW m \in Names
  PROVE  /\ Dir(Enter(call, m)) = NameKey(Dir(call), m)
         /\ Enter(call, m).new = Tree[call.new][m]
<1>1. Enter(call, m).at = Append(call.at, m)
  BY DEF Enter
<1>2. Dir(Enter(call, m)) = FullPath(call, m)
  BY <1>1 DEF Dir, FullPath
<1> QED BY <1>2, FullPathFacts DEF Enter

\* The calls to come after one: those for its submodules, if none is left out,
\* then the others.
LEMMA NextCalls ==
  ASSUME NEW w \in Seq(Calls), w # <<>>,
         NEW calls \in Submodules(Head(w), Changed(Head(w)))
  PROVE  \E k \in Nat : \E g \in [1..k -> Names] :
    /\ \A i \in DOMAIN (calls \o Tail(w)) :
         \/ i \in 1..k /\ (calls \o Tail(w))[i] = Enter(w[1], g[i])
         \/ /\ i \notin 1..k /\ i - k + 1 \in DOMAIN w /\ i - k + 1 # 1
            /\ (calls \o Tail(w))[i] = w[i - k + 1]
    /\ \A j \in DOMAIN w : j # 1 => \E i \in DOMAIN (calls \o Tail(w)) : (calls \o Tail(w))[i] = w[j]
    /\ \A i \in 1..k : Enters(w[1], g[i])
    /\ \A i, j \in 1..k : g[i] = g[j] => i = j
    /\ \A m \in Names : Enters(w[1], m) =>
         \E i \in DOMAIN (calls \o Tail(w)) : (calls \o Tail(w))[i] = Enter(w[1], m)
    /\ DOMAIN (calls \o Tail(w)) \subseteq Nat
<1> DEFINE v == calls \o Tail(w)
<1>1. /\ Head(w) = w[1] /\ w[1] \in Calls /\ Len(w) \in Nat /\ Len(w) > 0 /\ DOMAIN w = 1..Len(w)
      /\ Tail(w) \in Seq(Calls) /\ Len(Tail(w)) = Len(w) - 1
      /\ \A i \in 1..(Len(w) - 1) : Tail(w)[i] = w[i + 1]
  <2>1. Len(w) \in Nat /\ DOMAIN w = 1..Len(w) /\ Len(w) > 0
    BY EmptySeq, LenProperties
  <2>2. /\ Tail(w) \in Seq(Calls) /\ Len(Tail(w)) = Len(w) - 1 /\ Head(w) \in Calls /\ Head(w) = w[1]
        /\ \A i \in 1..Len(Tail(w)) : Tail(w)[i] = w[i + 1]
    BY HeadTailProperties
  <2> QED BY <2>1, <2>2
<1>2. PICK k \in Nat : \E g \in [1..k -> Names] :
        /\ calls = [i \in 1..k |-> Enter(w[1], g[i])]
        /\ \A i \in 1..k : Enters(w[1], g[i])
        /\ \A i, j \in 1..k : g[i] = g[j] => i = j
        /\ \A m \in Names : Enters(w[1], m) => \E i \in 1..k : g[i] = m
  <2>1. \A m \in Names : Enters(w[1], m) => m \in Changed(w[1])
    BY DEF Changed, Enters
  <2> QED BY <1>1, <2>1, SubmoduleFacts
<1>3. PICK g \in [1..k -> Names] :
        /\ calls = [i \in 1..k |-> Enter(w[1], g[i])]
        /\ \A i \in 1..k : Enters(w[1], g[i])
        /\ \A i, j \in 1..k : g[i] = g[j] => i = j
        /\ \A m \in Names : Enters(w[1], m) => \E i \in 1..k : g[i] = m
  BY <1>2
<1>4. calls \in Seq(Calls) /\ Len(calls) = k
  <2>1. calls \in Seq(Calls)
    BY <1>1, SubmodulesTypes
  <2> QED BY <1>3, <2>1, LenProperties
<1>5. /\ v \in Seq(Calls) /\ Len(v) = k + (Len(w) - 1)
      /\ \A i \in 1..(k + (Len(w) - 1)) : v[i] = IF i <= k THEN calls[i] ELSE Tail(w)[i - k]
  <2>1. /\ v \in Seq(Calls) /\ Len(v) = Len(calls) + Len(Tail(w))
        /\ \A i \in 1..(Len(calls) + Len(Tail(w))) :
             v[i] = IF i <= Len(calls) THEN calls[i] ELSE Tail(w)[i - Len(calls)]
    BY <1>1, <1>4, ConcatProperties
  <2> HIDE DEF v
  <2> QED BY <1>1, <1>4, <2>1
<1>6. DOMAIN v = 1..(k + (Len(w) - 1))
  BY <1>5, LenProperties
<1> HIDE DEF v
<1>7. ASSUME NEW i \in DOMAIN v
      PROVE  \/ i \in 1..k /\ v[i] = Enter(w[1], g[i])
             \/ i \notin 1..k /\ i - k + 1 \in DOMAIN w /\ i - k + 1 # 1 /\ v[i] = w[i - k + 1]
  <2>1. i \in 1..(k + (Len(w) - 1)) /\ v[i] = IF i <= k THEN calls[i] ELSE Tail(w)[i - k]
    BY <1>5, <1>6
  <2>2. CASE i <= k
    BY <1>3, <2>1, <2>2
  <2>3. CASE ~(i <= k)
    <3>1. i - k \in 1..(Len(w) - 1) /\ i - k + 1 \in 1..Len(w) /\ i - k + 1 # 1 /\ i \notin 1..k
      BY <1>1, <2>1, <2>3
    <3>2. v[i] = w[(i - k) + 1]
      BY <1>1, <2>1, <2>3, <3>1
    <3> QED BY <1>1, <3>1, <3>2
  <2> QED BY <2>2, <2>3
<1>8. ASSUME NEW j \in DOMAIN w, j # 1
      PROVE  \E i \in DOMAIN v : v[i] = w[j]
  <2>1. j + k - 1 \in 1..(k + (Len(w) - 1)) /\ ~(j + k - 1 <= k)
    BY <1>1, <1>8
  <2>2. (j + k - 1) - k \in 1..(Len(w) - 1) /\ ((j + k - 1) - k) + 1 = j
    BY <1>1, <1>8
  <2>3. v[j + k - 1] = Tail(w)[(j + k - 1) - k]
    BY <1>5, <2>1
  <2>4. Tail(w)[(j + k - 1) - k] = w[j]
    BY <1>1, <2>2
  <2> QED BY <1>6, <2>1, <2>3, <2>4
<1>9. ASSUME NEW m \in Names, Enters(w[1], m)
      PROVE  \E i \in DOMAIN v : v[i] = Enter(w[1], m)
  <2>1. PICK i \in 1..k : g[i] = m
    BY <1>3, <1>9
  <2>2. i \in 1..(k + (Len(w) - 1)) /\ i <= k
    BY <1>1
  <2>3. v[i] = calls[i]
    BY <1>5, <2>2
  <2> QED BY <1>3, <1>6, <2>1, <2>2, <2>3
<1>10. DOMAIN v \subseteq Nat
  BY <1>6
<1> QED BY <1>3, <1>7, <1>8, <1>9, <1>10 DEF v

\* Two directories in one, and one in one that is apart from another.
LEMMA ApartFacts ==
  ASSUME NEW d \in Paths, NEW n \in Names, NEW m \in Names
  PROVE  /\ Lower[m] # Lower[n] => Apart(NameKey(d, n), NameKey(d, m))
         /\ \A e : Apart(d, e) => Apart(NameKey(d, n), e)
         /\ \A e : Apart(e, d) => Apart(e, NameKey(d, n))
BY NameKeys DEF Apart

\* A call takes the package nearer to the commit.
LEMMA PendingCall ==
  ASSUME NEW w \in Seq(Calls), w # <<>>,
         NEW calls \in Submodules(Head(w), Changed(Head(w))),
         NEW c \in Commits, NEW files, DOMAIN files \subseteq Paths,
         Pending(files, c, w), ~Deviates(Head(w), files)
  PROVE  Pending(ProcessDiff(Head(w), files), c, calls \o Tail(w))
<1> DEFINE h == w[1]
           D == Dir(h)
           v == calls \o Tail(w)
           new == ProcessDiff(h, files)
<1>1. Head(w) = h /\ h \in Calls /\ 1 \in DOMAIN w /\ \A i \in DOMAIN w : w[i] \in Calls
  BY EmptySeq, LenProperties, HeadTailProperties
<1>2. Followed(h, files)
  BY <1>1 DEF Followed, Pending
<1>3. D \in Paths /\ <<>> \in Paths /\ h.new \in Commits /\ TreeOf(h.new) = Tree[h.new]
  BY <1>1, DirIsPath, RootKeys, EntryFacts DEF Calls
<1>4. PICK k \in Nat : \E g \in [1..k -> Names] :
        /\ \A i \in DOMAIN v :
             \/ i \in 1..k /\ v[i] = Enter(h, g[i])
             \/ i \notin 1..k /\ i - k + 1 \in DOMAIN w /\ i - k + 1 # 1 /\ v[i] = w[i - k + 1]
        /\ \A j \in DOMAIN w : j # 1 => \E i \in DOMAIN v : v[i] = w[j]
        /\ \A i \in 1..k : Enters(h, g[i])
        /\ \A i, j \in 1..k : g[i] = g[j] => i = j
        /\ \A m \in Names : Enters(h, m) => \E i \in DOMAIN v : v[i] = Enter(h, m)
        /\ DOMAIN v \subseteq Nat
  BY NextCalls
<1>5. PICK g \in [1..k -> Names] :
        /\ \A i \in DOMAIN v :
             \/ i \in 1..k /\ v[i] = Enter(h, g[i])
             \/ i \notin 1..k /\ i - k + 1 \in DOMAIN w /\ i - k + 1 # 1 /\ v[i] = w[i - k + 1]
        /\ \A j \in DOMAIN w : j # 1 => \E i \in DOMAIN v : v[i] = w[j]
        /\ \A i \in 1..k : Enters(h, g[i])
        /\ \A i, j \in 1..k : g[i] = g[j] => i = j
        /\ \A m \in Names : Enters(h, m) => \E i \in DOMAIN v : v[i] = Enter(h, m)
        /\ DOMAIN v \subseteq Nat
  BY <1>4
<1> HIDE DEF h, D, v, new
<1>6. \A m \in Names : Dir(Enter(h, m)) = NameKey(D, m) /\ Enter(h, m).new = Tree[h.new][m]
  BY <1>1, EnterDir DEF D
<1>7. \A m : Enters(h, m) => m \in Names /\ SubmoduleAt(h.new, m) /\ m \in DOMAIN Tree[h.new]
  BY <1>1, EntryFacts DEF Enters
<1>8. \A j \in DOMAIN w : j # 1 => Dir(w[j]) \in Paths /\ Apart(D, Dir(w[j])) /\ Apart(Dir(w[j]), D)
  BY <1>1, DirIsPath DEF Pending, D, h
<1>9. \A n, m : SubmoduleAt(h.new, n) /\ SubmoduleAt(h.new, m) /\ Lower[n] = Lower[m] => m = n
  <2>1. \A n, m \in DOMAIN TreeOf(h.old) \cup DOMAIN Tree[h.new] : Lower[m] = Lower[n] => m = n
    BY <1>2, FollowedFacts
  <2>2. \A n : SubmoduleAt(h.new, n) => n \in DOMAIN Tree[h.new]
    BY <1>1, EntryFacts
  <2> QED BY <2>1, <2>2
(* which keys are open *)
<1>10. ASSUME NEW q \in Paths, ~Inside(q, D)
       PROVE  Open(q, v) <=> Open(q, w)
  <2>1. ASSUME NEW i \in DOMAIN v, Inside(q, Dir(v[i]))
        PROVE  Open(q, w)
    <3>1. CASE i \in 1..k /\ v[i] = Enter(h, g[i])
      <4>1. Inside(q, NameKey(D, g[i]))
        BY <1>6, <2>1, <3>1
      <4> QED BY <1>3, <1>10, <3>1, <4>1, NameKeys
    <3>2. CASE i \notin 1..k /\ i - k + 1 \in DOMAIN w /\ i - k + 1 # 1 /\ v[i] = w[i - k + 1]
      BY <2>1, <3>2 DEF Open
    <3> QED BY <1>5, <3>1, <3>2
  <2>2. ASSUME NEW j \in DOMAIN w, Inside(q, Dir(w[j]))
        PROVE  Open(q, v)
    <3>1. j # 1
      BY <1>10, <2>2 DEF D, h
    <3> QED BY <1>5, <2>2, <3>1 DEF Open
  <2> QED BY <2>1, <2>2 DEF Open
<1>11. ASSUME NEW n, Enters(h, n), NEW q, Inside(q, NameKey(D, n))
       PROVE  Open(q, v)
  BY <1>5, <1>6, <1>7, <1>11 DEF Open
(* the conjuncts *)
<1>12. \A x \in KeyedFiles(c, <<>>) : x[1] \in Paths
  BY <1>3, KeyedTypes
<1>13. {x \in KeyedFiles(c, <<>>) : Inside(x[1], D)} = KeyedFiles(h.new, D)
  BY <1>1 DEF Pending, Leads, D, h
<1>14. ASSUME NEW x \in KeyedFiles(c, <<>>), ~Open(x[1], v)
       PROVE  Reads(new, x[1], x[2])
  <2>1. CASE ~Inside(x[1], D)
    <3>1. Reads(files, x[1], x[2])
      BY <1>10, <1>12, <1>14, <2>1 DEF Pending
    <3>2. x[1] \in DOMAIN files /\ x[1] \in DOMAIN new /\ new[x[1]] = files[x[1]]
      BY <1>2, <1>12, <2>1, <3>1, DiffOutside DEF Reads, D, new
    <3> QED BY <3>1, <3>2 DEF Reads
  <2>2. CASE Inside(x[1], D)
    <3>1. x \in KeyedFiles(h.new, D)
      BY <1>13, <2>2
    <3>2. PICK n \in Names :
             \/ BlobAt(h.new, n) /\ x = <<NameKey(D, n), TreeOf(h.new)[n]>>
             \/ SubmoduleAt(h.new, n) /\ x \in KeyedFiles(TreeOf(h.new)[n], NameKey(D, n))
      BY <1>3, <3>1, KeyedIs
    <3>3. CASE BlobAt(h.new, n) /\ x = <<NameKey(D, n), TreeOf(h.new)[n]>>
      <4>1. Reads(new, NameKey(D, n), Tree[h.new][n])
        BY <1>2, <3>3, DiffBlob DEF D, new
      <4> QED BY <1>3, <3>3, <4>1
    <3>4. CASE SubmoduleAt(h.new, n) /\ x \in KeyedFiles(TreeOf(h.new)[n], NameKey(D, n))
      <4>1. Tree[h.new][n] \in Commits \cup {None} /\ NameKey(D, n) \in Paths
        BY <1>3, <3>4, NameKeys DEF SubmoduleAt
      <4>2. Inside(x[1], NameKey(D, n))
        BY <1>3, <3>4, <4>1, KeyedTypes
      <4>3. ~Enters(h, n)
        BY <1>11, <1>14, <4>2
      <4>4. HoldsAt(new, Tree[h.new][n], NameKey(D, n))
        BY <1>2, <3>4, <4>3, DiffSubmodule DEF D, new
      <4> QED BY <1>3, <3>4, <4>4 DEF HoldsAt
    <3> QED BY <3>2, <3>3, <3>4
  <2> QED BY <2>1, <2>2
<1>15. DOMAIN new \subseteq Paths
  <2>1. \A q : Comes(h, q) => q \in Paths
    BY <1>1, TouchedFacts, EntryFacts, FullPathFacts DEF Adds
  <2> QED BY <1>1, <2>1, ProcessDiffFacts DEF new
<1>16. ASSUME NEW q \in DOMAIN new, ~Open(q, v)
       PROVE  \E x \in KeyedFiles(c, <<>>) : x[1] = q
  <2>1. CASE ~Inside(q, D)
    <3>1. q \in DOMAIN files
      BY <1>2, <1>15, <2>1, DiffOutside DEF D, new
    <3> QED BY <1>10, <1>15, <1>16, <2>1, <3>1 DEF Pending
  <2>2. CASE Inside(q, D)
    <3>1. PICK n \in Names : \/ BlobAt(h.new, n) /\ q = NameKey(D, n)
                             \/ SubmoduleAt(h.new, n) /\ Inside(q, NameKey(D, n))
      BY <1>2, <2>2, DiffRest DEF D, new
    <3>2. CASE BlobAt(h.new, n) /\ q = NameKey(D, n)
      <4>1. <<q, TreeOf(h.new)[n]>> \in KeyedFiles(h.new, D)
        BY <1>3, <3>2, KeyedBlob
      <4> QED BY <1>13, <4>1
    <3>3. CASE SubmoduleAt(h.new, n) /\ Inside(q, NameKey(D, n))
      <4>1. ~Enters(h, n)
        BY <1>11, <1>16, <3>3
      <4>2. HoldsAt(new, Tree[h.new][n], NameKey(D, n))
        BY <1>2, <3>3, <4>1, DiffSubmodule DEF D, new
      <4>3. PICK x \in KeyedFiles(Tree[h.new][n], NameKey(D, n)) : x[1] = q
        BY <3>3, <4>2 DEF HoldsAt
      <4>4. x \in KeyedFiles(h.new, D)
        BY <1>3, <3>3, <4>3, KeyedSubmodule
      <4> QED BY <1>13, <4>3, <4>4
    <3> QED BY <3>1, <3>2, <3>3
  <2> QED BY <2>1, <2>2
<1>17. ASSUME NEW n, Enters(h, n)
       PROVE  HoldsAt(new, Enter(h, n).old, Dir(Enter(h, n))) /\ Leads(Enter(h, n), c)
  <2> DEFINE e == NameKey(D, n)
             m == Tree[h.new][n]
  <2>1. n \in Names /\ SubmoduleAt(h.new, n) /\ m \in Commits /\ e \in Paths
    BY <1>3, <1>7, <1>17, NameKeys DEF SubmoduleAt
  <2>2. Dir(Enter(h, n)) = e /\ Enter(h, n).new = m
    BY <1>6, <2>1
  <2>3. HoldsAt(new, Enter(h, n).old, e)
    BY <1>2, <1>17, <2>1, DiffSubmodule DEF D, new
  <2>4. \A x \in KeyedFiles(m, e) : x \in KeyedFiles(c, <<>>) /\ Inside(x[1], e)
    BY <1>3, <1>13, <2>1, KeyedSubmodule, KeyedTypes
  <2>5. ASSUME NEW x \in KeyedFiles(c, <<>>), Inside(x[1], e)
        PROVE  x \in KeyedFiles(m, e)
    <3>1. x \in KeyedFiles(h.new, D)
      BY <1>3, <1>12, <1>13, <2>1, <2>5, NameKeys
    <3>2. PICK i \in Names :
             \/ BlobAt(h.new, i) /\ x = <<NameKey(D, i), TreeOf(h.new)[i]>>
             \/ SubmoduleAt(h.new, i) /\ x \in KeyedFiles(TreeOf(h.new)[i], NameKey(D, i))
      BY <1>3, <3>1, KeyedIs
    <3>3. CASE BlobAt(h.new, i) /\ x = <<NameKey(D, i), TreeOf(h.new)[i]>>
      BY <1>3, <2>1, <2>5, <3>3, NameKeys
    <3>4. CASE SubmoduleAt(h.new, i) /\ x \in KeyedFiles(TreeOf(h.new)[i], NameKey(D, i))
      <4>1. TreeOf(h.new)[i] \in Commits \cup {None} /\ NameKey(D, i) \in Paths
        BY <1>3, <3>4, NameKeys DEF SubmoduleAt
      <4>2. Inside(x[1], NameKey(D, i))
        BY <3>4, <4>1, KeyedTypes
      <4>3. Lower[i] = Lower[n]
        BY <1>3, <1>12, <2>1, <2>5, <4>2, NameKeys
      <4> QED BY <1>3, <1>9, <2>1, <3>4, <4>3
    <3> QED BY <3>2, <3>3, <3>4
  <2> HIDE DEF e, m
  <2>6. {x \in KeyedFiles(c, <<>>) : Inside(x[1], e)} = KeyedFiles(m, e)
    BY <2>4, <2>5
  <2> QED BY <2>2, <2>3, <2>6 DEF Leads
<1>18. ASSUME NEW j \in DOMAIN w, j # 1
       PROVE  HoldsAt(new, w[j].old, Dir(w[j])) /\ Leads(w[j], c)
  <2>1. HoldsAt(files, w[j].old, Dir(w[j])) /\ Leads(w[j], c) /\ w[j].old \in Commits \cup {None}
        /\ Dir(w[j]) \in Paths
    BY <1>1, DirIsPath DEF Pending, Calls
  <2>2. ASSUME NEW q \in Paths, Inside(q, Dir(w[j]))
        PROVE  (q \in DOMAIN new <=> q \in DOMAIN files) /\ (q \in DOMAIN files => new[q] = files[q])
    <3>1. ~Inside(q, D)
      BY <1>8, <1>18, <2>2 DEF Apart
    <3> QED BY <1>2, <3>1, DiffOutside DEF D, new
  <2>3. \A x \in KeyedFiles(w[j].old, Dir(w[j])) : Reads(new, x[1], x[2])
    BY <2>1, <2>2, KeyedTypes DEF HoldsAt, Reads
  <2>4. \A q \in DOMAIN new : Inside(q, Dir(w[j])) => \E x \in KeyedFiles(w[j].old, Dir(w[j])) : x[1] = q
    BY <1>15, <2>1, <2>2 DEF HoldsAt
  <2> QED BY <2>1, <2>3, <2>4 DEF HoldsAt
<1>19. \A i \in DOMAIN v : HoldsAt(new, v[i].old, Dir(v[i])) /\ Leads(v[i], c)
  BY <1>5, <1>17, <1>18
<1>20. ASSUME NEW i \in DOMAIN v, NEW j \in DOMAIN v, i # j
       PROVE  Apart(Dir(v[i]), Dir(v[j]))
  <2>1. CASE i \in 1..k /\ v[i] = Enter(h, g[i]) /\ j \in 1..k /\ v[j] = Enter(h, g[j])
    <3>1. Enters(h, g[i]) /\ Enters(h, g[j]) /\ g[i] # g[j]
      BY <1>5, <1>20, <2>1
    <3>2. Lower[g[i]] # Lower[g[j]] /\ g[i] \in Names /\ g[j] \in Names
      BY <1>7, <1>9, <3>1
    <3> QED BY <1>3, <1>6, <2>1, <3>2, ApartFacts
  <2>2. CASE /\ i \in 1..k /\ v[i] = Enter(h, g[i])
             /\ j \notin 1..k /\ j - k + 1 \in DOMAIN w /\ j - k + 1 # 1 /\ v[j] = w[j - k + 1]
    <3>1. Apart(D, Dir(v[j])) /\ g[i] \in Names /\ Dir(v[i]) = NameKey(D, g[i])
      BY <1>6, <1>8, <2>2
    <3> QED BY <1>3, <3>1, ApartFacts
  <2>3. CASE /\ j \in 1..k /\ v[j] = Enter(h, g[j])
             /\ i \notin 1..k /\ i - k + 1 \in DOMAIN w /\ i - k + 1 # 1 /\ v[i] = w[i - k + 1]
    <3>1. Apart(Dir(v[i]), D) /\ g[j] \in Names /\ Dir(v[j]) = NameKey(D, g[j])
      BY <1>6, <1>8, <2>3
    <3> QED BY <1>3, <3>1, ApartFacts
  <2>4. CASE /\ i \notin 1..k /\ i - k + 1 \in DOMAIN w /\ i - k + 1 # 1 /\ v[i] = w[i - k + 1]
             /\ j \notin 1..k /\ j - k + 1 \in DOMAIN w /\ j - k + 1 # 1 /\ v[j] = w[j - k + 1]
    <3>1. i - k + 1 # j - k + 1
      BY <1>5, <1>20
    <3> QED BY <2>4, <3>1 DEF Pending
  <2> QED BY <1>5, <2>1, <2>2, <2>3, <2>4
<1>21. Pending(new, c, v)
  BY <1>14, <1>16, <1>19, <1>20 DEF Pending
<1> QED BY <1>1, <1>21 DEF v, new

----------------------------------------------------------------------------
(* The beginning and the end of a package *)

LEMMA PendingNone ==
  ASSUME NEW c, NEW files
  PROVE  Pending(files, c, <<>>) <=>
           /\ \A x \in KeyedFiles(c, <<>>) : Reads(files, x[1], x[2])
           /\ \A q \in DOMAIN files : \E x \in KeyedFiles(c, <<>>) : x[1] = q
BY DEF Pending, Open

\* The first call is for the whole tree.
LEMMA FirstCall ==
  ASSUME NEW old \in Commits \cup {None}, NEW c \in Commits, NEW files, Pending(files, old, <<>>)
  PROVE  Pending(files, c, <<[old |-> old, new |-> c, at |-> <<>>]>>)
<1> DEFINE h == [old |-> old, new |-> c, at |-> <<>>]
           w == <<h>>
<1>1. <<>> \in Paths /\ \A q \in Paths : q # <<>> => Inside(q, <<>>)
  BY EmptySeq, RootKeys DEF Paths
<1>2. Dir(h) = <<>>
  <2>1. LowerPath(<<>>) = <<>>
    BY <1>1, LowerPathFacts, EmptySeq DEF Paths
  <2> QED BY <2>1 DEF Dir
<1>3. DOMAIN w = {1} /\ w[1] = h /\ h.old = old /\ h.new = c
  OBVIOUS
<1> HIDE DEF w, h
<1>4. \A q : Open(q, w) <=> Inside(q, <<>>)
  BY <1>2, <1>3 DEF Open
<1>5. \A o \in Commits \cup {None} : \A x \in KeyedFiles(o, <<>>) : Inside(x[1], <<>>)
  BY <1>1, KeyedTypes
<1>6. HoldsAt(files, old, <<>>)
  BY PendingNone DEF HoldsAt
<1>7. Leads(h, c)
  BY <1>2, <1>3, <1>5 DEF Leads
<1>8. \A q \in DOMAIN files : Open(q, w)
  BY <1>4, <1>5, PendingNone
<1>9. \A x \in KeyedFiles(c, <<>>) : Open(x[1], w)
  BY <1>4, <1>5
<1>10. Pending(files, c, w)
  BY <1>2, <1>3, <1>6, <1>7, <1>8, <1>9 DEF Pending
<1> QED BY <1>10 DEF w, h

LEMMA EmptyTree ==
  Pending(Empty, None, <<>>)
BY KeyedNone, PendingNone DEF Empty

\* With the version in modinfo.lua it is the tree.
LEMMA VersionTree ==
  ASSUME NEW c \in Commits, NEW files, Pending(files, c, <<>>),
         Modinfo \in DOMAIN Tree[c], Tree[c][Modinfo] \in Blobs
  PROVE  IsTree(Put(files, Key, [blob |-> Tree[c][Modinfo], version |-> Version[c]]), c)
<1> DEFINE f == [blob |-> Tree[c][Modinfo], version |-> Version[c]]
           p == Put(files, Key, f)
<1>1. <<>> \in Paths /\ Modinfo \in Names /\ BlobAt(c, Modinfo) /\ TreeOf(c) = Tree[c]
  BY EmptySeq, StoreAssumption DEF BlobAt, TreeOf, Paths
<1>2. NameKey(<<>>, Modinfo) = Key
  <2>1. <<Modinfo>> \in Paths
    BY <1>1, EmptySeq, ConsFacts DEF Paths, FilePaths
  <2> QED BY <1>1, <2>1, DirKeys, RootKeys DEF NameKey, Key
<1>3. PICK x \in KeyedFiles(c, <<>>) : x[1] = Key
  <2>1. <<Key, Tree[c][Modinfo]>> \in KeyedFiles(c, <<>>)
    BY <1>1, <1>2, KeyedBlob
  <2> QED BY <2>1
<1>4. /\ DOMAIN p = DOMAIN files \cup {Key} /\ p = [k \in DOMAIN p |-> p[k]]
      /\ p[Key] = f /\ \A k \in DOMAIN files : k # Key => p[k] = files[k]
  BY DEF Put
<1> HIDE DEF p, f
<1>5. \A y \in KeyedFiles(c, <<>>) : Reads(p, y[1], y[2])
  BY <1>4, PendingNone DEF Reads
<1>6. \A q \in DOMAIN p : \E y \in KeyedFiles(c, <<>>) : y[1] = q
  BY <1>3, <1>4, PendingNone
<1>7. Pending(p, c, <<>>)
  BY <1>5, <1>6, PendingNone
<1>8. IsTree(p, c)
  BY <1>4, <1>7 DEF IsTree, f
<1> QED BY <1>8 DEF p, f

LEMMA TreeIsPackage ==
  ASSUME NEW c \in Commits, NEW p, IsTree(p, c)
  PROVE  p = PackageOf(c)
<1> DEFINE flat == FlatOf(c)
           D == {LowerPath(s) : s \in DOMAIN flat}
           at(q) == CHOOSE s \in DOMAIN flat : LowerPath(s) = q
<1>1. flat = Flat[Cardinality(Commits)][c] /\ DOMAIN flat \subseteq Paths
  BY FlatIsDeep, MapFacts, StoreAssumption DEF IsLayer, FlatOf, FilePaths
<1>2. PackageOf(c) = [q \in D |-> IF q = Key THEN [blob |-> Tree[c][Modinfo], version |-> Version[c]]
                                   ELSE Raw(flat[at(q)])]
  BY <1>1 DEF PackageOf, Key
<1>3. KeyedFiles(c, <<>>) = {<<LowerPath(s), flat[s]>> : s \in DOMAIN flat}
  BY <1>1, RootKeys DEF KeyedFiles
<1>4. /\ p = [q \in DOMAIN p |-> p[q]] /\ p[Key] = [blob |-> Tree[c][Modinfo], version |-> Version[c]]
      /\ \A x \in KeyedFiles(c, <<>>) : Reads(p, x[1], x[2])
      /\ \A q \in DOMAIN p : \E x \in KeyedFiles(c, <<>>) : x[1] = q
  BY PendingNone DEF IsTree
<1> HIDE DEF flat
<1>5. ASSUME NEW s \in DOMAIN flat
      PROVE  Reads(p, LowerPath(s), flat[s])
  <2>1. <<LowerPath(s), flat[s]>> \in KeyedFiles(c, <<>>)
    BY <1>3
  <2> QED BY <1>4, <2>1
<1>6. DOMAIN p = D
  <2>1. \A q \in DOMAIN p : q \in D
    BY <1>3, <1>4
  <2>2. \A q \in D : q \in DOMAIN p
    BY <1>5 DEF Reads
  <2> QED BY <2>1, <2>2
<1>7. \A q \in D : at(q) \in DOMAIN flat /\ LowerPath(at(q)) = q
  OBVIOUS
<1>8. \A q \in D : p[q] = IF q = Key THEN [blob |-> Tree[c][Modinfo], version |-> Version[c]]
                          ELSE Raw(flat[at(q)])
  <2> HIDE DEF D, at
  <2> QED BY <1>4, <1>5, <1>7 DEF Reads
<1> HIDE DEF D, at
<1> QED BY <1>2, <1>4, <1>6, <1>8

----------------------------------------------------------------------------
(* The steps of the programs *)

TreeVars(s) == <<pc[s], job[s], archive[s], work[s], versions[s], deviates[s]>>

\* What is listed as made of differences stays so.
LEMMA TreesStay ==
  ASSUME NEW list, TreesIn(list), deviant \subseteq deviant'
  PROVE  \A c \in Main \cap DOMAIN list : list[c] \notin deviant' => IsTree(list[c], c)
BY DEF TreesIn

LEMMA TreeFrame ==
  ASSUME TreeInv, NEW r \in Programs, deviant \subseteq deviant',
         \A s \in Programs \ {r} : UNCHANGED TreeVars(s),
         UNCHANGED versionsgz \/ TreesIn(versionsgz.entries)', UNCHANGED last \/ LastTree',
         MakesTree(r)'
  PROVE  TreeInv'
<1>1. TreesIn(versionsgz.entries)'
  BY DEF TreeInv, TreesIn
<1>2. LastTree'
  BY DEF TreeInv, LastTree
<1>3. ASSUME NEW s \in Programs \ {r}
      PROVE  MakesTree(s)'
  <2>1. MakesTree(s) /\ UNCHANGED TreeVars(s)
    BY DEF TreeInv
  <2> QED BY <2>1 DEF MakesTree, TreeVars, TreesIn, IsGit
<1> QED BY <1>1, <1>2, <1>3 DEF TreeInv

LEMMA OtherPrograms ==
  ASSUME TypeInv, NEW r \in Programs,
         (\E c \in Main : BuildGit(r, c)) \/ AddZip(r) \/ Run(r) \/ Fail(r)
  PROVE  \A s \in Programs \ {r} : UNCHANGED TreeVars(s)
<1> USE DEF TreeVars
<1>1. /\ pc = [s \in Programs |-> pc[s]] /\ job = [s \in Programs |-> job[s]]
      /\ archive = [s \in Programs |-> archive[s]] /\ work = [s \in Programs |-> work[s]]
      /\ versions = [s \in Programs |-> versions[s]] /\ deviates = [s \in Programs |-> deviates[s]]
  BY DEF TypeInv, TypeOK, Inv, FunctionInv, WorkInv
<1>2. CASE \E c \in Main : BuildGit(r, c)
  BY <1>1, <1>2 DEF BuildGit
<1>3. CASE AddZip(r)
  BY <1>1, <1>3 DEF AddZip
<1>4. CASE Fail(r)
  BY <1>1, <1>4 DEF Fail, End
<1>5. CASE ProcessRepo(r)
  BY <1>1, <1>5 DEF ProcessRepo
<1>6. CASE ReplaceVersion(r)
  BY <1>1, <1>6 DEF ReplaceVersion
<1>7. CASE SaveArchive(r) \/ LoadVersions(r) \/ OpenVersions(r)
  BY <1>1, <1>7 DEF SaveArchive, LoadVersions, OpenVersions
<1>8. CASE CloseVersions(r)
  BY <1>1, <1>8 DEF CloseVersions, End
<1>9. CASE SaveLast(r)
  BY <1>1, <1>9 DEF SaveLast, End
<1>10. CASE MakeZip(r) \/ Throw(r)
  BY <1>1, <1>10 DEF MakeZip, Throw, End
<1> QED BY <1>2, <1>3, <1>4, <1>5, <1>6, <1>7, <1>8, <1>9, <1>10 DEF Run

LEMMA EndTree ==
  ASSUME TypeInv, NEW r \in Programs, End(r)
  PROVE  MakesTree(r)'
<1>1. pc'[r] = "off" /\ versions'[r] = Empty
  BY DEF End, TypeInv, TypeOK, Inv, FunctionInv
<1>2. DOMAIN versions'[r] = {}
  BY <1>1 DEF Empty
<1> QED BY <1>1, <1>2 DEF MakesTree, TreesIn

LEMMA BuildGitTree ==
  ASSUME TypeInv, TreeInv, NEW r \in Programs, NEW c \in Main, BuildGit(r, c)
  PROVE  TreeInv'
<1> DEFINE old == IF last = None THEN None ELSE last.commit
           files == IF last = None THEN Empty ELSE last.package
<1>1. /\ pc'[r] = "diff" /\ job'[r] = c /\ archive'[r] = files
      /\ work'[r] = <<[old |-> old, new |-> c, at |-> <<>>]>>
      /\ deviates'[r] = (last # None /\ last.package \in deviant)
      /\ UNCHANGED <<versionsgz, last, versions, deviant>>
  BY DEF BuildGit, TypeInv, TypeOK, Inv, FunctionInv, WorkInv, storeVars
<1>2. ASSUME ~deviates'[r]
      PROVE  Pending(archive'[r], job'[r], work'[r])
  <2>1. old \in Commits \cup {None} /\ c \in Commits
    BY StoreAssumption DEF TypeInv, TypeOK
  <2>2. Pending(files, old, <<>>)
    BY <1>1, <1>2, EmptyTree DEF TreeInv, LastTree, IsTree
  <2> HIDE DEF old, files
  <2> QED BY <1>1, <2>1, <2>2, FirstCall
<1>3. MakesTree(r)'
  <2>1. TreesIn(versions[r])'
    BY <1>1 DEF TreeInv, MakesTree, TreesIn
  <2> QED BY <1>1, <1>2, <2>1 DEF MakesTree
<1> QED BY <1>1, <1>3, OtherPrograms, TreeFrame

LEMMA ProcessRepoTree ==
  ASSUME TypeInv, TreeInv, NEW r \in Programs, ProcessRepo(r)
  PROVE  TreeInv'
<1> DEFINE w == work[r]
           h == Head(w)
<1>1. /\ pc[r] = "diff" /\ job[r] \in Main /\ w # <<>> /\ w \in Seq(Calls)
      /\ DOMAIN archive[r] \subseteq Paths
  BY DEF ProcessRepo, TypeInv, TypeOK, Inv, ProgramInv, WorkInv, IsPackage
<1>7. PICK S \in SUBSET Changed(h) :
        /\ \E calls \in Submodules(h, S) : work' = [work EXCEPT ![r] = calls \o Tail(w)]
        /\ deviates' = [deviates EXCEPT ![r] = @ \/ Deviates(h, archive[r]) \/ S # Changed(h)]
  BY DEF ProcessRepo
<1>2. PICK calls \in Submodules(h, S) : work' = [work EXCEPT ![r] = calls \o Tail(w)]
  BY <1>7
<1>3. /\ work'[r] = calls \o Tail(w)
      /\ archive'[r] = ProcessDiff(h, archive[r])
      /\ pc'[r] = IF work'[r] = <<>> THEN "replace" ELSE "diff"
      /\ UNCHANGED <<versionsgz, last, job, versions, deviant>>
  BY <1>2 DEF ProcessRepo, TypeInv, TypeOK, Inv, FunctionInv, WorkInv, historyVars
<1>4. ~deviates'[r] => ~deviates[r] /\ ~Deviates(h, archive[r]) /\ S = Changed(h)
  <2> HIDE DEF h
  <2> QED BY <1>7, Zenon DEF TypeInv, TypeOK
<1>5. ASSUME ~deviates'[r]
      PROVE  Pending(archive'[r], job'[r], work'[r])
  <2>1. Pending(archive[r], job[r], w)
    BY <1>1, <1>4, <1>5 DEF TreeInv, MakesTree
  <2>2. job[r] \in Commits
    BY <1>1, StoreAssumption
  <2> HIDE DEF w
  <2> QED BY <1>1, <1>3, <1>4, <1>5, <2>1, <2>2, PendingCall
<1>6. MakesTree(r)'
  <2>1. TreesIn(versions[r])'
    BY <1>3 DEF TreeInv, MakesTree, TreesIn
  <2> HIDE DEF w, h
  <2> QED BY <1>3, <1>5, <2>1 DEF MakesTree
<1> QED BY <1>3, <1>6, OtherPrograms, TreeFrame DEF Run

LEMMA ReplaceVersionTree ==
  ASSUME TypeInv, TreeInv, NEW r \in Programs, ReplaceVersion(r)
  PROVE  TreeInv'
<1> DEFINE f == [blob |-> Tree[job[r]][Modinfo], version |-> Version[job[r]]]
<1>1. pc[r] = "replace" /\ job[r] \in Commits
  BY StoreAssumption DEF ReplaceVersion, TypeInv, Inv, ProgramInv
<1>2. /\ pc'[r] = "save" /\ archive'[r] = Put(archive[r], Key, f)
      /\ UNCHANGED <<versionsgz, last, job, versions, deviates, deviant>>
  BY DEF ReplaceVersion, TypeInv, TypeOK, Inv, FunctionInv, historyVars, Key
<1>3. ASSUME ~deviates[r]
      PROVE  IsTree(archive'[r], job[r])
  <2>1. Pending(archive[r], job[r], <<>>)
    BY <1>1, <1>3 DEF TreeInv, MakesTree
  <2>2. Modinfo \in DOMAIN Tree[job[r]] /\ Tree[job[r]][Modinfo] \in Blobs
    BY DEF ReplaceVersion
  <2> QED BY <1>1, <1>2, <2>1, <2>2, VersionTree
<1>4. MakesTree(r)'
  <2>1. TreesIn(versions[r])'
    BY <1>2 DEF TreeInv, MakesTree, TreesIn
  <2> HIDE DEF f
  <2> QED BY <1>2, <1>3, <2>1 DEF MakesTree
<1> QED BY <1>2, <1>4, OtherPrograms, TreeFrame DEF Run

LEMMA AddZipTree ==
  ASSUME TypeInv, TreeInv, NEW r \in Programs, AddZip(r)
  PROVE  TreeInv'
<1>1. /\ pc[r] = "off" /\ job[r] = None /\ pc'[r] = "load"
      /\ UNCHANGED <<versionsgz, last, job, versions, deviant>>
  BY DEF AddZip, Start, TypeInv, Inv, FunctionInv, ProgramInv
<1>2. MakesTree(r)'
  BY <1>1 DEF TreeInv, MakesTree, TreesIn, IsGit
<1> QED BY <1>1, <1>2, OtherPrograms, TreeFrame

LEMMA SaveArchiveTree ==
  ASSUME TypeInv, TreeInv, NEW r \in Programs, SaveArchive(r)
  PROVE  TreeInv'
<1>1. /\ pc[r] = "save" /\ UNCHANGED <<versionsgz, last, job, archive, versions, deviates>>
      /\ pc'[r] \in {"load", "list"}
      /\ deviant' = IF deviates[r] THEN deviant \cup {archive[r]} ELSE deviant
  BY DEF SaveArchive, TypeInv, Inv, FunctionInv
<1>2. deviant \subseteq deviant'
  BY <1>1
<1>3. MakesTree(r)'
  <2>1. TreesIn(versions[r])'
    BY <1>1, <1>2 DEF TreeInv, MakesTree, TreesIn
  <2>2. IsGit(r) => archive[r] \in deviant' \/ IsTree(archive[r], job[r])
    BY <1>1 DEF TreeInv, MakesTree
  <2> QED BY <1>1, <2>1, <2>2 DEF MakesTree, IsGit
<1> QED BY <1>1, <1>2, <1>3, OtherPrograms, TreeFrame DEF Run

LEMMA LoadVersionsTree ==
  ASSUME TypeInv, TreeInv, NEW r \in Programs, LoadVersions(r)
  PROVE  TreeInv'
<1>1. /\ pc[r] = "load" /\ UNCHANGED <<versionsgz, last, job, archive, deviates, deviant>>
      /\ pc'[r] = (IF IsGit(r) THEN "list" ELSE "save")
      /\ versions'[r] = versionsgz.entries
  BY DEF LoadVersions, TypeInv, Inv, FunctionInv, storeVars, historyVars
<1>2. TreesIn(versions[r])'
  BY <1>1 DEF TreeInv, TreesIn
<1>3. MakesTree(r)'
  <2>1. IsGit(r) => archive[r] \in deviant \/ IsTree(archive[r], job[r])
    BY <1>1 DEF TreeInv, MakesTree
  <2> QED BY <1>1, <1>2, <2>1 DEF MakesTree, IsGit
<1> QED BY <1>1, <1>3, OtherPrograms, TreeFrame DEF Run

LEMMA OpenVersionsTree ==
  ASSUME TypeInv, TreeInv, NEW r \in Programs, OpenVersions(r)
  PROVE  TreeInv'
<1>1. /\ pc[r] = "list" /\ UNCHANGED <<last, job, archive, deviates, deviant>>
      /\ pc'[r] = "saving" /\ versions'[r] = Listed(r)
  BY DEF OpenVersions, TypeInv, Inv, FunctionInv, historyVars
<1>2. IsGit(r) => archive[r] \in deviant \/ IsTree(archive[r], job[r])
  BY <1>1 DEF TreeInv, MakesTree
<1>3. TreesIn(Listed(r))
  <2>1. TreesIn(versions[r])
    BY DEF TreeInv, MakesTree
  <2>2. \A c \in Main : c \in NewTags(r) => IsGit(r) /\ c = job[r]
    BY StoreAssumption DEF NewTags, TypeInv, TypeOK, IsGit
  <2> QED BY <1>2, <2>1, <2>2 DEF TreesIn, Listed
<1>4. PICK D : versionsgz'.entries = [t \in D |-> Listed(r)[t]] /\ D \subseteq DOMAIN Listed(r)
  <2>1. PICK k \in Cuts, bad \in BOOLEAN :
          versionsgz' = [entries |-> [t \in {t \in DOMAIN Listed(r) : \E i \in 1..k : TagOrder[i] = t} |->
                                        Listed(r)[t]],
                         bad |-> bad, mixed |-> \E s \in Programs \ {r} : pc[s] = "saving"]
    BY DEF OpenVersions
  <2> DEFINE D == {t \in DOMAIN Listed(r) : \E i \in 1..k : TagOrder[i] = t}
  <2>2. versionsgz'.entries = [t \in D |-> Listed(r)[t]]
    BY <2>1
  <2>3. D \subseteq DOMAIN Listed(r)
    OBVIOUS
  <2> HIDE DEF D
  <2> QED BY <2>2, <2>3
<1>5. TreesIn(versionsgz.entries)'
  BY <1>1, <1>3, <1>4 DEF TreesIn
<1>6. MakesTree(r)'
  <2>1. TreesIn(versions[r])'
    BY <1>1, <1>3 DEF TreesIn
  <2> QED BY <1>1, <1>2, <2>1 DEF MakesTree, IsGit
<1> QED BY <1>1, <1>5, <1>6, OtherPrograms, TreeFrame DEF Run

LEMMA CloseVersionsTree ==
  ASSUME TypeInv, TreeInv, NEW r \in Programs, CloseVersions(r)
  PROVE  TreeInv'
<1>1. pc[r] = "saving" /\ UNCHANGED <<last, deviant>> /\ versionsgz'.entries = versions[r]
  BY DEF CloseVersions
<1>2. TreesIn(versionsgz.entries)'
  BY <1>1 DEF TreeInv, MakesTree, TreesIn
<1>3. CASE End(r)
  BY <1>1, <1>2, <1>3, EndTree, OtherPrograms, TreeFrame DEF Run
<1>4. CASE pc' = [pc EXCEPT ![r] = "last"] /\ UNCHANGED <<job, archive, work, versions, deviates>>
  <2>1. pc'[r] = "last"
    BY <1>4 DEF TypeInv, Inv, FunctionInv
  <2>2. MakesTree(r)'
    BY <1>1, <1>4, <2>1 DEF TreeInv, MakesTree, TreesIn, IsGit
  <2> QED BY <1>1, <1>2, <2>2, OtherPrograms, TreeFrame DEF Run
<1> QED BY <1>3, <1>4 DEF CloseVersions

LEMMA SaveLastTree ==
  ASSUME TypeInv, TreeInv, NEW r \in Programs, SaveLast(r)
  PROVE  TreeInv'
<1>1. /\ pc[r] = "last" /\ UNCHANGED <<versionsgz, deviant>> /\ job[r] \in Main
      /\ last' = [commit |-> job[r], package |-> archive[r]]
  BY DEF SaveLast, historyVars, TypeInv, WorkInv
<1>2. archive[r] \in deviant \/ IsTree(archive[r], job[r])
  BY <1>1, StoreAssumption DEF TreeInv, MakesTree, IsGit
<1>3. LastTree'
  BY <1>1, <1>2 DEF LastTree
<1>4. CASE End(r)
  BY <1>1, <1>3, <1>4, EndTree, OtherPrograms, TreeFrame DEF Run
<1>5. CASE pc' = [pc EXCEPT ![r] = "zip"] /\ UNCHANGED <<job, archive, work, versions, deviates>>
  <2>1. pc'[r] = "zip"
    BY <1>5 DEF TypeInv, Inv, FunctionInv
  <2>2. MakesTree(r)'
    BY <1>1, <1>2, <1>5, <2>1 DEF TreeInv, MakesTree, TreesIn, IsGit
  <2> QED BY <1>1, <1>3, <2>2, OtherPrograms, TreeFrame DEF Run
<1> QED BY <1>4, <1>5 DEF SaveLast

LEMMA TreeStep ==
  ASSUME TypeInv, TreeInv, [Next]_vars
  PROVE  TreeInv'
<1>1. ASSUME NEW r \in Programs, MakeZip(r) \/ Throw(r) \/ Fail(r)
      PROVE  TreeInv'
  <2>1. End(r) /\ UNCHANGED <<versionsgz, last, deviant>>
    BY <1>1 DEF MakeZip, Throw, Fail, storeVars, historyVars
  <2> QED BY <1>1, <2>1, EndTree, OtherPrograms, TreeFrame DEF Run
<1>2. ASSUME (\E p \in packages : \E F \in SUBSET (FilesOf(p) \cap Wanted) : Announce(p, F))
             \/ Send \/ HangUp \/ UNCHANGED vars
      PROVE  TreeInv'
  <2>1. UNCHANGED <<programVars, versionsgz, last, deviant>>
    BY <1>2 DEF Announce, Send, HangUp, vars, storeVars, historyVars
  <2> QED BY <2>1 DEF TreeInv, TreesIn, LastTree, MakesTree, IsGit, programVars
<1> QED BY <1>1, <1>2, BuildGitTree, ProcessRepoTree, ReplaceVersionTree, AddZipTree,
        SaveArchiveTree, LoadVersionsTree, OpenVersionsTree, CloseVersionsTree, SaveLastTree DEF Next, Run

\* The package under a commit's tag is that commit with its submodules, through
\* whatever chain of differences, programs that failed on the way and commits in any
\* order it was made (BuildGit.cpp:225-395), unless on the way a difference could not
\* be followed: a key was removed that is not the one that is gone, paths differed in
\* case only, or git_submodule_foreach did not yield a submodule that changed.
THEOREM MakesTrees == Spec => []PackageIsTree
<1>1. Init => TypeInv /\ TreeInv
  <2>1. ASSUME Init
        PROVE  TreeInv
    BY <2>1 DEF Init, TreeInv, TreesIn, LastTree, MakesTree, Empty
  <2> QED BY <2>1, InitTypes
<1>2. TypeInv /\ TreeInv /\ [Next]_vars => TypeInv' /\ TreeInv'
  BY TypeStep, TreeStep
<1>3. TreeInv => PackageIsTree
  BY TreeIsPackage, StoreAssumption DEF TreeInv, TreesIn, PackageIsTree
<1> QED BY <1>1, <1>2, <1>3, PTL DEF Spec

----------------------------------------------------------------------------
(* Repositories without submodules *)

\* No submodules, and no two paths of the whole history differ in case only.
Plain ==
  /\ \A c \in Commits : \A n \in DOMAIN Tree[c] : Tree[c][n] \in Blobs
  /\ \A c, e \in Commits : \A n \in DOMAIN Tree[c] : \A m \in DOMAIN Tree[e] :
       Lower[m] = Lower[n] => m = n

\* No difference deviates, and no call enters a directory.
PlainInv ==
  /\ deviant = {}
  /\ \A r \in Programs : ~deviates[r] /\ \A i \in DOMAIN work[r] : work[r][i].at = <<>>

LEMMA PlainNames ==
  ASSUME Plain, NEW call \in Calls
  PROVE  /\ \A n \in DOMAIN TreeOf(call.old) \cup DOMAIN Tree[call.new] :
              \A m \in DOMAIN TreeOf(call.old) \cup DOMAIN Tree[call.new] :
                Lower[m] = Lower[n] => m = n
         /\ \A n : ~SubmoduleAt(call.old, n) /\ ~SubmoduleAt(call.new, n)
<1>1. call.old \in Commits \cup {None} /\ call.new \in Commits /\ TreeOf(call.new) = Tree[call.new]
  BY StoreAssumption DEF Calls, TreeOf
<1>2. CASE call.old = None
  <2>1. DOMAIN TreeOf(call.old) = {}
    BY <1>2 DEF TreeOf, Empty
  <2> QED BY <1>1, <2>1, StoreAssumption DEF Plain, SubmoduleAt
<1>3. CASE call.old \in Commits
  <2>1. TreeOf(call.old) = Tree[call.old]
    BY <1>3, StoreAssumption DEF TreeOf
  <2> QED BY <1>1, <1>3, <2>1, StoreAssumption DEF Plain, SubmoduleAt
<1> QED BY <1>1, <1>2, <1>3

\* One file, one key: what is added comes, what is removed is what is gone.
LEMMA PlainFollowed ==
  ASSUME Plain, NEW call \in Calls, call.at = <<>>, NEW files
  PROVE  ~Deviates(call, files)
<1>1. \A n \in Names : FullPath(call, n) = LowerPath(<<n>>)
  BY DEF FullPath
<1>2. \A n, m \in Names : LowerPath(<<n>>) = LowerPath(<<m>>) => Lower[n] = Lower[m]
  BY DEF LowerPath
<1>3. \A n \in Deltas(call) : n \in Names
  BY EntryFacts
<1>4. \A n \in Deltas(call) : \A m \in Deltas(call) :
        FullPath(call, n) = FullPath(call, m) => m = n
  <2>1. \A n \in Deltas(call) : n \in DOMAIN TreeOf(call.old) \cup DOMAIN Tree[call.new]
    BY EntryFacts
  <2>2. ASSUME NEW n \in Deltas(call), NEW m \in Deltas(call), FullPath(call, n) = FullPath(call, m)
        PROVE  m = n
    <3>1. LowerPath(<<n>>) = LowerPath(<<m>>) /\ n \in Names /\ m \in Names
      BY <1>1, <1>3, <2>2
    <3>2. Lower[m] = Lower[n]
      BY <1>2, <3>1
    <3> QED BY <2>1, <3>2, PlainNames
  <2> QED BY <2>2
<1>5. ASSUME NEW n \in Deltas(call), BlobAt(call.new, n)
      PROVE  Comes(call, FullPath(call, n))
  <2> DEFINE q == FullPath(call, n)
  <2>1. PICK i \in DOMAIN DiffOrder : DiffOrder[i] = n
    BY <1>3, StoreAssumption
  <2>2. i \in Nat
    BY <2>1, StoreAssumption
  <2>3. Adds(call, n, q)
    BY <1>5 DEF Adds
  <2>4. i \in Touching(call, q)
    BY <2>1, <2>3 DEF Touching
  <2>5. ASSUME NEW j \in Touching(call, q)
        PROVE  j = i
    <3>1. j \in DOMAIN DiffOrder /\ DiffOrder[j] \in Deltas(call)
          /\ (Adds(call, DiffOrder[j], q) \/ Removes(call, DiffOrder[j], q))
      BY DEF Touching
    <3>2. q = FullPath(call, DiffOrder[j])
      BY <1>1, <1>3, <3>1, PlainNames DEF Adds, Removes
    <3>3. DiffOrder[j] = n
      BY <1>4, <3>1, <3>2
    <3> QED BY <2>1, <3>1, <3>3, StoreAssumption
  <2> QED BY <2>1, <2>2, <2>3, <2>4, <2>5 DEF Comes
<1>6. ASSUME NEW n \in Deltas(call), NEW q \in DOMAIN files, Removes(call, n, q)
      PROVE  BlobAt(call.old, n) /\ q = FullPath(call, n)
  BY <1>1, <1>3, <1>6, PlainNames DEF Removes
<1> QED BY <1>1, <1>3, <1>5, <1>6, PlainNames DEF Deviates

LEMMA PlainStep ==
  ASSUME Plain, TypeInv, PlainInv, [Next]_vars
  PROVE  PlainInv'
<1>1. /\ work = [s \in Programs |-> work[s]] /\ deviates = [s \in Programs |-> deviates[s]]
  BY DEF TypeInv, TypeOK, WorkInv
<1>2. ASSUME NEW r \in Programs, NEW c \in Main, BuildGit(r, c)
      PROVE  PlainInv'
  <2>1. UNCHANGED deviant /\ deviates' = [deviates EXCEPT ![r] = FALSE]
    BY <1>2 DEF BuildGit, PlainInv
  <2>2. work' = [work EXCEPT ![r] =
          <<[old |-> IF last = None THEN None ELSE last.commit, new |-> c, at |-> <<>>]>>]
    BY <1>2 DEF BuildGit
  <2> QED BY <1>1, <2>1, <2>2 DEF PlainInv
<1>3. ASSUME NEW r \in Programs, ProcessRepo(r)
      PROVE  PlainInv'
  <2> DEFINE w == work[r]
             h == Head(w)
  <2>1. w # <<>> /\ w \in Seq(Calls) /\ h \in Calls /\ h.at = <<>>
    BY <1>3 DEF ProcessRepo, TypeInv, TypeOK, WorkInv, PlainInv
  <2>8. UNCHANGED deviant /\ \E S \in SUBSET Changed(h) :
          /\ \E calls \in Submodules(h, S) : work' = [work EXCEPT ![r] = calls \o Tail(w)]
          /\ deviates' = [deviates EXCEPT ![r] = @ \/ Deviates(h, archive[r]) \/ S # Changed(h)]
    BY <1>3 DEF ProcessRepo, historyVars
  <2>9. PICK S \in SUBSET Changed(h) :
          /\ \E calls \in Submodules(h, S) : work' = [work EXCEPT ![r] = calls \o Tail(w)]
          /\ deviates' = [deviates EXCEPT ![r] = @ \/ Deviates(h, archive[r]) \/ S # Changed(h)]
    BY <2>8
  <2>2. PICK calls \in Submodules(h, S) : work' = [work EXCEPT ![r] = calls \o Tail(w)]
    BY <2>9
  <2> HIDE DEF h
  <2>10. S = Changed(h)
    <3>1. \A n : ~Enters(h, n)
      BY <2>1, PlainNames DEF Enters
    <3> QED BY <3>1 DEF Changed
  <2>3. UNCHANGED deviant /\ deviates' = [deviates EXCEPT ![r] = @ \/ Deviates(h, archive[r])]
    BY <2>8, <2>9, <2>10, Zenon
  <2>4. calls = <<>>
    <3>1. \A n : ~Enters(h, n)
      BY <2>1, PlainNames DEF Enters
    <3>2. PICK n \in Nat : \E g \in [1..n -> Names] :
            calls = [i \in 1..n |-> Enter(h, g[i])] /\ \A i \in 1..n : Enters(h, g[i])
      BY <2>1, SubmoduleFacts
    <3>3. n = 0
      BY <3>1, <3>2
    <3> QED BY <3>2, <3>3
  <2>5. work'[r] = Tail(w) /\ \A i \in DOMAIN Tail(w) : Tail(w)[i].at = <<>>
    BY <1>1, <2>1, <2>2, <2>4 DEF PlainInv
  <2>6. ~Deviates(h, archive[r])
    BY <2>1, PlainFollowed
  <2>7. \A s \in Programs : ~deviates'[s]
    BY <1>1, <2>3, <2>6, Zenon DEF PlainInv
  <2> HIDE DEF w
  <2> QED BY <1>1, <2>2, <2>3, <2>5, <2>7 DEF PlainInv
<1>4. ASSUME NEW r \in Programs, AddZip(r)
      PROVE  PlainInv'
  <2>1. UNCHANGED <<work, deviant>> /\ deviates' = [deviates EXCEPT ![r] = FALSE]
    BY <1>4 DEF AddZip
  <2> QED BY <1>1, <2>1 DEF PlainInv
<1>5. ASSUME NEW r \in Programs, End(r), UNCHANGED deviant
      PROVE  PlainInv'
  BY <1>1, <1>5 DEF End, PlainInv
<1>6. ASSUME UNCHANGED <<work, deviates, deviant>>
      PROVE  PlainInv'
  BY <1>6 DEF PlainInv
<1>7. ASSUME NEW r \in Programs, SaveArchive(r)
      PROVE  PlainInv'
  <2>1. UNCHANGED <<work, deviates, deviant>>
    BY <1>7 DEF SaveArchive, PlainInv
  <2> QED BY <1>6, <2>1
<1>8. ASSUME NEW r \in Programs, Run(r) \/ Fail(r)
      PROVE  PlainInv'
  <2>1. CASE ReplaceVersion(r) \/ LoadVersions(r) \/ OpenVersions(r)
    BY <1>6, <2>1 DEF ReplaceVersion, LoadVersions, OpenVersions, historyVars
  <2>2. CASE CloseVersions(r) \/ SaveLast(r)
    BY <1>5, <1>6, <2>2 DEF CloseVersions, SaveLast, historyVars
  <2>3. CASE MakeZip(r) \/ Throw(r) \/ Fail(r)
    BY <1>5, <2>3 DEF MakeZip, Throw, Fail, historyVars
  <2> QED BY <1>3, <1>7, <1>8, <2>1, <2>2, <2>3 DEF Run
<1>9. ASSUME (\E p \in packages : \E F \in SUBSET (FilesOf(p) \cap Wanted) : Announce(p, F))
             \/ Send \/ HangUp \/ UNCHANGED vars
      PROVE  PlainInv'
  BY <1>6, <1>9 DEF Announce, Send, HangUp, vars, programVars, historyVars
<1> QED BY <1>2, <1>4, <1>8, <1>9 DEF Next

\* "Diff against the last processed commit tree" (BuildGit.cpp:227) makes the same
\* package as a build of the whole commit, for a repository that never has
\* submodules or paths that differ in case only.
THEOREM PlainIsFull ==
  ASSUME Plain
  PROVE  Spec => []IncrementalIsFull
<1>1. Init => TypeInv /\ PlainInv
  <2>1. ASSUME Init
        PROVE  PlainInv
    BY <2>1 DEF Init, PlainInv
  <2> QED BY <2>1, InitTypes
<1>2. TypeInv /\ PlainInv /\ [Next]_vars => TypeInv' /\ PlainInv'
  BY TypeStep, PlainStep
<1>3. PlainInv /\ PackageIsTree => IncrementalIsFull
  BY DEF PlainInv, PackageIsTree, IncrementalIsFull
<1> QED BY <1>1, <1>2, <1>3, MakesTrees, PTL DEF Spec
===============================================================================
