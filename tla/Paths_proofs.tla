---------------------------- MODULE Paths_proofs ----------------------------
(***************************************************************************)
(* Proofs about the paths of the import preprocessor: what the file system *)
(* makes of a path that is put together from a directory and the path on   *)
(* an import line; how many paths of bounded length there are; and the     *)
(* flat source of an import tree.  The walk, the joining of lists and the  *)
(* expansion are defined by recursion, so that their equations have to be  *)
(* proved first, by induction on a length or a depth.                      *)
(***************************************************************************)
EXTENDS Imports, Lists_proofs, FiniteSetTheorems, TLAPS

-----------------------------------------------------------------------------
(* The last element dropped: shorter by one, the others kept.              *)
LEMMA LeadingSeq ==
    ASSUME NEW S, NEW s \in Seq(S), s # <<>>
    PROVE  /\ Leading(s) \in Seq(S)
           /\ Len(Leading(s)) = Len(s) - 1
           /\ \A k \in 1..Len(s) - 1 : Leading(s)[k] = s[k]
  <1> DEFINE m == Len(s) - 1
  <1>1. m \in Nat /\ \A k \in 1..m : s[k] \in S
    OBVIOUS
  <1>2. /\ SubSeq(s, 1, m) \in Seq(S)
        /\ Len(SubSeq(s, 1, m)) = IF 1 <= m THEN m - 1 + 1 ELSE 0
        /\ \A k \in 1..(m - 1 + 1) : SubSeq(s, 1, m)[k] = s[1 + k - 1]
    BY <1>1, SubSeqProperties
  <1>3. m - 1 + 1 = m /\ \A k \in 1..m : 1 + k - 1 = k
    BY <1>1
  <1> QED
    BY <1>1, <1>2, <1>3 DEF Leading

(* A path without its last segment.                                        *)
LEMMA LeadingPath ==
    ASSUME NEW p \in Paths, p # <<>>
    PROVE  /\ Len(p) \in Nat \ {0}
           /\ Leading(p) \in Paths
           /\ Len(Leading(p)) = Len(p) - 1
           /\ p[Len(p)] \in Segments
  <1>1. p \in Seq(Segments) /\ Len(p) \in Nat \ {0}
    BY DEF Paths
  <1>2. Leading(p) \in Seq(Segments) /\ Len(Leading(p)) = Len(p) - 1
    BY <1>1, LeadingSeq
  <1>3. p[Len(p)] \in Segments
    BY <1>1
  <1> QED
    BY <1>1, <1>2, <1>3 DEF Paths

LEMMA ShortPaths ==
    /\ <<>> \in Paths
    /\ \A p \in Paths : Len(p) = 0 <=> p = <<>>
    /\ \A p \in Paths : Len(p) \in Nat
  BY DEF Paths

(* The equation of the walk, on the paths of at most n segments.           *)
Stage(dir, f, p)  == IF p = <<>> THEN dir ELSE Enter(f[Leading(p)], p[Len(p)])
UpTo(n)           == {p \in Paths : Len(p) <= n}
Walks(dir, f, n)  == f = [p \in UpTo(n) |-> Stage(dir, f, p)]

LEMMA WalkExists ==
    ASSUME NEW dir
    PROVE  \A n \in Nat : \E f : Walks(dir, f, n)
  <1> DEFINE S == {n \in Nat : \E f : Walks(dir, f, n)}
  <1>1. 0 \in S
    <2> DEFINE f == [p \in UpTo(0) |-> dir]
    <2>1. \A p \in UpTo(0) : p = <<>>
      BY ShortPaths DEF UpTo
    <2>2. f = [p \in UpTo(0) |-> Stage(dir, f, p)]
      BY <2>1 DEF Stage
    <2> QED
      BY <2>2 DEF Walks
  <1>2. ASSUME NEW n \in Nat, n \in S
        PROVE  n + 1 \in S
    <2>1. PICK f : Walks(dir, f, n)
      BY <1>2
    <2> DEFINE g == [p \in UpTo(n + 1) |-> Stage(dir, f, p)]
    <2>2. \A p \in UpTo(n + 1) : p # <<>> => Leading(p) \in UpTo(n) /\ Leading(p) \in UpTo(n + 1)
      BY LeadingPath DEF UpTo
    <2>3. \A p \in UpTo(n) : f[p] = Stage(dir, f, p)
      BY <2>1 DEF Walks
    <2>4. \A p \in UpTo(n + 1) : g[p] = Stage(dir, f, p)
      OBVIOUS
    <2> HIDE DEF g
    <2>5. \A p \in UpTo(n + 1) : p # <<>> => g[Leading(p)] = f[Leading(p)]
      BY <2>2, <2>3, <2>4
    <2>6. \A p \in UpTo(n + 1) : Stage(dir, f, p) = Stage(dir, g, p)
      BY <2>5 DEF Stage
    <2>7. g = [p \in UpTo(n + 1) |-> Stage(dir, g, p)]
      BY <2>6 DEF g
    <2> QED
      BY <2>7 DEF Walks
  <1> HIDE DEF S
  <1>3. \A n \in Nat : n \in S
    BY <1>1, <1>2, Induction
  <1> QED
    BY <1>3 DEF S

LEMMA WalkUnique ==
    ASSUME NEW dir, NEW n \in Nat, NEW m \in Nat, NEW f, NEW g,
           Walks(dir, f, n), Walks(dir, g, m)
    PROVE  \A p \in Paths : Len(p) <= n /\ Len(p) <= m => f[p] = g[p]
  <1> DEFINE S == {k \in Nat : \A p \in Paths : Len(p) = k /\ k <= n /\ k <= m => f[p] = g[p]}
  <1>0. /\ \A p \in UpTo(n) : f[p] = Stage(dir, f, p)
        /\ \A p \in UpTo(m) : g[p] = Stage(dir, g, p)
    BY DEF Walks
  <1>1. 0 \in S
    BY <1>0, ShortPaths DEF UpTo, Stage
  <1>2. ASSUME NEW k \in Nat, k \in S
        PROVE  k + 1 \in S
    <2> SUFFICES ASSUME NEW p \in Paths, Len(p) = k + 1, k + 1 <= n, k + 1 <= m
                 PROVE  f[p] = g[p]
      OBVIOUS
    <2>1. p # <<>> /\ p \in UpTo(n) /\ p \in UpTo(m)
      BY ShortPaths DEF UpTo
    <2>2. Leading(p) \in Paths /\ Len(Leading(p)) = k /\ k <= n /\ k <= m
      BY <2>1, LeadingPath
    <2>3. f[Leading(p)] = g[Leading(p)]
      BY <1>2, <2>2
    <2> QED
      BY <1>0, <2>1, <2>3 DEF Stage
  <1> HIDE DEF S
  <1>3. \A k \in Nat : k \in S
    BY <1>1, <1>2, Induction
  <1> QED
    BY <1>3, ShortPaths DEF S

LEMMA WalkEquation ==
    ASSUME NEW dir
    PROVE  WalkFrom(dir) = [p \in Paths |-> Stage(dir, WalkFrom(dir), p)]
  <1> DEFINE F(n) == CHOOSE f : Walks(dir, f, n)
             W == [p \in Paths |-> F(Len(p))[p]]
  <1>1. \A n \in Nat : Walks(dir, F(n), n)
    BY WalkExists
  <1> HIDE DEF F
  <1>2. ASSUME NEW p \in Paths
        PROVE  W[p] = Stage(dir, W, p)
    <2>1. W[p] = F(Len(p))[p] /\ Len(p) \in Nat
      BY ShortPaths
    <2>2. F(Len(p))[p] = Stage(dir, F(Len(p)), p)
      <3>1. p \in UpTo(Len(p))
        BY <2>1 DEF UpTo
      <3>2. F(Len(p)) = [q \in UpTo(Len(p)) |-> Stage(dir, F(Len(p)), q)]
        BY <1>1, <2>1 DEF Walks
      <3> QED
        BY <3>1, <3>2
    <2>3. p # <<>> => F(Len(p))[Leading(p)] = W[Leading(p)]
      <3> SUFFICES ASSUME p # <<>> PROVE F(Len(p))[Leading(p)] = W[Leading(p)]
        OBVIOUS
      <3>1. /\ Leading(p) \in Paths /\ Len(Leading(p)) \in Nat
            /\ Len(Leading(p)) <= Len(p)
        BY LeadingPath
      <3>2. W[Leading(p)] = F(Len(Leading(p)))[Leading(p)]
        BY <3>1
      <3>3. Walks(dir, F(Len(p)), Len(p)) /\ Walks(dir, F(Len(Leading(p))), Len(Leading(p)))
        BY <1>1, <2>1, <3>1
      <3> HIDE DEF W
      <3> QED
        BY <2>1, <3>1, <3>2, <3>3, WalkUnique
    <2> HIDE DEF W
    <2> QED
      BY <2>1, <2>2, <2>3 DEF Stage
  <1>3. W = [p \in Paths |-> Stage(dir, W, p)]
    BY <1>2
  <1> HIDE DEF W
  <1>4. \E w : w = [p \in Paths |-> Stage(dir, w, p)]
    BY <1>3
  <1>5. WalkFrom(dir) = CHOOSE w : w = [p \in Paths |-> Stage(dir, w, p)]
    BY DEF WalkFrom, Stage
  <1> QED
    BY <1>4, <1>5

LEMMA WalkSteps ==
    ASSUME NEW dir
    PROVE  /\ WalkFrom(dir)[<<>>] = dir
           /\ \A p \in Paths : p # <<>> =>
                 WalkFrom(dir)[p] = Enter(WalkFrom(dir)[Leading(p)], p[Len(p)])
  <1>1. \A p \in Paths : WalkFrom(dir)[p] = Stage(dir, WalkFrom(dir), p)
    BY WalkEquation, Zenon
  <1>2. <<>> \in Paths
    BY ShortPaths
  <1> QED
    BY <1>1, <1>2 DEF Stage

-----------------------------------------------------------------------------
(* A walk that begins in the tree stays in it.                             *)
LEMMA EnterPath ==
    ASSUME NEW d \in Paths, NEW s \in Segments
    PROVE  Enter(d, s) \in Paths
  <1>1. <<>> \in Paths
    BY ShortPaths
  <1>2. Append(d, s) \in Paths
    BY DEF Paths
  <1>3. d # <<>> => Leading(d) \in Paths
    BY LeadingPath
  <1> QED
    BY <1>1, <1>2, <1>3 DEF Enter

(* For every length: what holds of no segments, and of one more if of the  *)
(* ones before, holds of every path.                                       *)
LEMMA PathInduction ==
    ASSUME NEW G, <<>> \in G,
           \A p \in Paths : p # <<>> /\ Leading(p) \in G => p \in G
    PROVE  Paths \subseteq G
  <1> DEFINE S == {n \in Nat : \A p \in Paths : Len(p) = n => p \in G}
  <1>1. 0 \in S
    BY ShortPaths
  <1>2. ASSUME NEW n \in Nat, n \in S
        PROVE  n + 1 \in S
    <2> SUFFICES ASSUME NEW p \in Paths, Len(p) = n + 1 PROVE p \in G
      OBVIOUS
    <2>1. p # <<>> /\ Leading(p) \in Paths /\ Len(Leading(p)) = n
      BY ShortPaths, LeadingPath
    <2> QED
      BY <1>2, <2>1
  <1> HIDE DEF S
  <1>3. \A n \in Nat : n \in S
    BY <1>1, <1>2, Induction
  <1> QED
    BY <1>3, ShortPaths DEF S

LEMMA WalkIsPath ==
    ASSUME NEW d \in Paths
    PROVE  \A p \in Paths : WalkFrom(d)[p] \in Paths
  <1> DEFINE G == {p \in Paths : WalkFrom(d)[p] \in Paths}
  <1>1. <<>> \in G
    BY ShortPaths, WalkSteps
  <1>2. \A p \in Paths : p # <<>> /\ Leading(p) \in G => p \in G
    BY WalkSteps, LeadingPath, EnterPath
  <1> HIDE DEF G
  <1>3. Paths \subseteq G
    BY <1>1, <1>2, PathInduction
  <1> QED
    BY <1>3 DEF G

(* A path with one put behind it ends in that one's last segment.          *)
LEMMA LeadingJoined ==
    ASSUME NEW s \in Paths, NEW t \in Paths, t # <<>>
    PROVE  /\ s \o t \in Paths /\ s \o t # <<>>
           /\ Leading(s \o t) = s \o Leading(t)
           /\ (s \o t)[Len(s \o t)] = t[Len(t)]
  <1>1. /\ s \in Seq(Segments) /\ t \in Seq(Segments) /\ s \o t \in Seq(Segments)
        /\ Len(s) \in Nat /\ Len(t) \in Nat \ {0} /\ Len(s \o t) = Len(s) + Len(t)
    BY DEF Paths
  <1>2. s \o t # <<>> /\ (s \o t)[Len(s \o t)] = t[Len(t)]
    BY <1>1
  <1>3. /\ Leading(s \o t) \in Seq(Segments) /\ Leading(t) \in Seq(Segments)
        /\ Len(Leading(t)) = Len(t) - 1
        /\ Len(Leading(s \o t)) = Len(s \o t) - 1
    BY <1>1, <1>2, LeadingSeq
  <1>4. s \o Leading(t) \in Seq(Segments) /\ Len(s \o Leading(t)) = Len(s) + Len(Leading(t))
    BY <1>1, <1>3, ConcatProperties
  <1>5. \A i \in 1..(Len(s) + Len(t) - 1) : Leading(s \o t)[i] = (s \o Leading(t))[i]
    <2> SUFFICES ASSUME NEW i \in 1..(Len(s) + Len(t) - 1)
                 PROVE  Leading(s \o t)[i] = (s \o Leading(t))[i]
      OBVIOUS
    <2>1. Leading(s \o t)[i] = (s \o t)[i]
      <3> DEFINE r == s \o t
      <3>1. r \in Seq(Segments) /\ r # <<>> /\ i \in 1..(Len(r) - 1)
        BY <1>1, <1>2
      <3> HIDE DEF r
      <3>2. Leading(r)[i] = r[i]
        BY <3>1, LeadingSeq
      <3> QED
        BY <3>2 DEF r
    <2>2. i > Len(s) => i - Len(s) \in 1..(Len(t) - 1)
      BY <1>1
    <2>3. i > Len(s) => Leading(t)[i - Len(s)] = t[i - Len(s)]
      BY <1>1, <2>2, LeadingSeq
    <2>4. (s \o t)[i] = IF i <= Len(s) THEN s[i] ELSE t[i - Len(s)]
      BY <1>1, ConcatProperties
    <2>5. (s \o Leading(t))[i] = IF i <= Len(s) THEN s[i] ELSE Leading(t)[i - Len(s)]
      BY <1>1, <1>3, ConcatProperties
    <2> QED
      BY <1>1, <2>1, <2>3, <2>4, <2>5
  <1>6. Leading(s \o t) = s \o Leading(t)
    <2> DEFINE q == Leading(s \o t)
               r == s \o Leading(t)
    <2>1. /\ q \in Seq(Segments) /\ r \in Seq(Segments)
          /\ Len(q) = Len(s) + Len(t) - 1 /\ Len(r) = Len(s) + Len(t) - 1
          /\ \A i \in 1..(Len(s) + Len(t) - 1) : q[i] = r[i]
      BY <1>1, <1>3, <1>4, <1>5
    <2> HIDE DEF q, r
    <2>2. q = r
      BY <2>1, SeqEqual
    <2> QED
      BY <2>2 DEF q, r
  <1> QED
    BY <1>1, <1>2, <1>6 DEF Paths

(* join_path: to walk a path put together is to walk its parts.            *)
LEMMA WalkJoined ==
    ASSUME NEW d, NEW s \in Paths
    PROVE  \A t \in Paths : WalkFrom(d)[s \o t] = WalkFrom(WalkFrom(d)[s])[t]
  <1> DEFINE G == {t \in Paths : WalkFrom(d)[s \o t] = WalkFrom(WalkFrom(d)[s])[t]}
  <1>1. <<>> \in G
    <2>1. s \o <<>> = s
      BY ConcatEmptySeq DEF Paths
    <2> QED
      BY <2>1, ShortPaths, WalkSteps
  <1>2. ASSUME NEW t \in Paths, t # <<>>, Leading(t) \in G
        PROVE  t \in G
    <2>1. WalkFrom(d)[s \o t] = Enter(WalkFrom(d)[s \o Leading(t)], t[Len(t)])
      <3>1. /\ s \o t \in Paths /\ s \o t # <<>> /\ Leading(s \o t) = s \o Leading(t)
            /\ (s \o t)[Len(s \o t)] = t[Len(t)]
        BY <1>2, LeadingJoined
      <3> DEFINE r == s \o t
      <3> HIDE DEF r
      <3>2. WalkFrom(d)[r] = Enter(WalkFrom(d)[Leading(r)], r[Len(r)])
        BY <3>1, WalkSteps DEF r
      <3> QED
        BY <3>1, <3>2 DEF r
    <2>2. WalkFrom(WalkFrom(d)[s])[t]
            = Enter(WalkFrom(WalkFrom(d)[s])[Leading(t)], t[Len(t)])
      BY <1>2, WalkSteps
    <2> QED
      BY <1>2, <2>1, <2>2
  <1> HIDE DEF G
  <1>3. Paths \subseteq G
    BY <1>1, <1>2, PathInduction
  <1> QED
    BY <1>3 DEF G

(* From the root it does not matter where the walk begins.                 *)
LEMMA WalkAbsolute ==
    ASSUME NEW d, NEW e
    PROVE  \A t \in Paths : t # <<>> /\ IsAbsolute(t) => WalkFrom(d)[t] = WalkFrom(e)[t]
  <1> DEFINE G == {t \in Paths : t # <<>> /\ IsAbsolute(t) => WalkFrom(d)[t] = WalkFrom(e)[t]}
  <1>1. <<>> \in G
    BY ShortPaths
  <1>2. ASSUME NEW t \in Paths, t # <<>>, Leading(t) \in G
        PROVE  t \in G
    <2> SUFFICES ASSUME IsAbsolute(t) PROVE WalkFrom(d)[t] = WalkFrom(e)[t]
      BY DEF G
    <2>1. /\ WalkFrom(d)[t] = Enter(WalkFrom(d)[Leading(t)], t[Len(t)])
          /\ WalkFrom(e)[t] = Enter(WalkFrom(e)[Leading(t)], t[Len(t)])
      BY <1>2, WalkSteps
    <2>2. CASE Leading(t) = <<>>
      <3>1. t[Len(t)] = "/"
        BY <1>2, <2>2, LeadingPath DEF IsAbsolute, Paths
      <3> QED
        BY <2>1, <3>1 DEF Enter
    <2>3. CASE Leading(t) # <<>>
      <3>1. Leading(t)[1] = t[1]
        BY <1>2, <2>3, LeadingPath DEF Paths, Leading
      <3> QED
        BY <1>2, <2>1, <2>3, <3>1 DEF IsAbsolute
    <2> QED
      BY <2>2, <2>3
  <1> HIDE DEF G
  <1>3. Paths \subseteq G
    BY <1>1, <1>2, PathInduction
  <1> QED
    BY <1>3 DEF G

-----------------------------------------------------------------------------
(* The directory of a file, by its path (dirname_from_path), is the one    *)
(* its place is in.                                                        *)
LEMMA DirnameIsPath ==
    ASSUME NEW p \in Paths
    PROVE  Dirname(p) \in Paths
  <1>1. CASE Len(p) <= 1
    BY <1>1, PathsAssumption DEF Dirname, Paths
  <1>2. CASE ~(Len(p) <= 1)
    <2>1. p # <<>>
      BY <1>2
    <2> QED
      BY <1>2, <2>1, LeadingPath DEF Dirname
  <1> QED
    BY <1>1, <1>2

LEMMA DirnameOfPlace ==
    ASSUME NEW p \in Paths, EndsInName(p)
    PROVE  WalkFrom(Cwd)[Dirname(p)] = Leading(PlaceOf(p))
  <1> DEFINE d == WalkFrom(Cwd)[Leading(p)]
             s == p[Len(p)]
  <1>1. p # <<>> /\ s \notin {".", "..", "/"}
    BY DEF EndsInName
  <1>2. d \in Paths /\ s \in Segments /\ Leading(p) \in Paths
    BY <1>1, LeadingPath, WalkIsPath, PathsAssumption
  <1>3. PlaceOf(p) = Append(d, s)
    BY <1>1, <1>2, WalkSteps DEF PlaceOf, Enter
  <1>4. Leading(Append(d, s)) = d
    <2> HIDE DEF d, s
    <2>1. <<s>> \in Paths /\ Append(d, s) = d \o <<s>>
      BY <1>2 DEF Paths
    <2>2. Leading(<<s>>) = <<>> /\ d \o <<>> = d
      <3>1. Len(<<s>>) = 1 /\ <<s>> # <<>>
        OBVIOUS
      <3>2. Leading(<<s>>) = <<>>
        <4> DEFINE r == <<s>>
        <4>1. r \in Paths /\ r # <<>> /\ Len(r) = 1
          BY <2>1, <3>1
        <4> HIDE DEF r
        <4>2. Leading(r) \in Paths /\ Len(Leading(r)) = 0
          BY <4>1, LeadingPath
        <4> QED
          BY <4>2, ShortPaths DEF r
      <3> QED
        BY <1>2, <3>2, ConcatEmptySeq DEF Paths
    <2>3. Leading(d \o <<s>>) = d \o Leading(<<s>>)
      <3>1. <<s>> # <<>>
        OBVIOUS
      <3> QED
        BY <1>2, <2>1, <3>1, LeadingJoined
    <2> QED
      BY <2>1, <2>2, <2>3
  <1>5. CASE Len(p) <= 1
    <2>1. Leading(p) = <<>>
      BY <1>1, <1>5, LeadingPath, ShortPaths
    <2>2. d = Cwd
      BY <2>1, WalkSteps
    <2>3. <<".">> \in Paths /\ <<".">> # <<>> /\ Leading(<<".">>) = <<>>
      <3>1. <<".">> \in Paths /\ <<".">> # <<>> /\ Len(<<".">>) = 1
        BY PathsAssumption DEF Paths
      <3> QED
        BY <3>1, LeadingPath, ShortPaths
    <2>4. WalkFrom(Cwd)[<<".">>] = Cwd
      <3>1. WalkFrom(Cwd)[<<".">>] = Enter(WalkFrom(Cwd)[<<>>], ".")
        BY <2>3, WalkSteps
      <3> QED
        BY <3>1, WalkSteps DEF Enter
    <2> QED
      BY <1>3, <1>4, <1>5, <2>2, <2>4 DEF Dirname
  <1>6. CASE ~(Len(p) <= 1)
    BY <1>3, <1>4, <1>6 DEF Dirname
  <1> QED
    BY <1>5, <1>6

(* join_path gives a path.                                                 *)
LEMMA JoinedIsPath ==
    ASSUME NEW s \in Paths, NEW t \in Paths
    PROVE  s \o t \in Paths
  BY DEF Paths

(* An import line means the same file wherever the file it stands in was   *)
(* found: what it imports depends only on the place of that file.          *)
LEMMA TargetDependsOnPlace ==
    ASSUME NEW p \in Paths, EndsInName(p), NEW l \in Lines, IsImport(l)
    PROVE  PlaceOf(PathFrom(p, l))
             = IF l.kind = "library" THEN PlaceOf(ResolveOfficial(l.target))
               ELSE WalkFrom(Leading(PlaceOf(p)))[l.target]
  <1>1. l.target \in Paths /\ l.target # <<>> /\ l.kind \in {"user", "library"}
    BY DEF Lines, IsImport
  <1>2. CASE l.kind = "library"
    BY <1>2 DEF PathFrom
  <1>3. CASE l.kind = "user" /\ IsAbsolute(l.target)
    <2>1. PathFrom(p, l) = l.target
      BY <1>3 DEF PathFrom, ResolveUser, Canonicalize
    <2> QED
      BY <1>1, <1>3, <2>1, WalkAbsolute DEF PlaceOf
  <1>4. CASE l.kind = "user" /\ ~IsAbsolute(l.target)
    <2>1. PathFrom(p, l) = Dirname(p) \o l.target
      BY <1>4 DEF PathFrom, ResolveUser, Canonicalize
    <2>2. PlaceOf(Dirname(p) \o l.target) = WalkFrom(WalkFrom(Cwd)[Dirname(p)])[l.target]
      BY <1>1, DirnameIsPath, WalkJoined DEF PlaceOf
    <2> QED
      BY <1>4, <2>1, <2>2, DirnameOfPlace
  <1> QED
    BY <1>1, <1>2, <1>3, <1>4
-----------------------------------------------------------------------------
(* The equation of Joined: each list is put behind the ones before it.     *)
JoinStage(lists, f, i) == IF i = 0 THEN <<>> ELSE f[i - 1] \o lists[i]
JoinTable(lists, f, n) == f = [i \in 0..n |-> JoinStage(lists, f, i)]

LEMMA JoinExists ==
    ASSUME NEW lists
    PROVE  \A n \in Nat : \E f : JoinTable(lists, f, n)
  <1> DEFINE S == {n \in Nat : \E f : JoinTable(lists, f, n)}
  <1>1. 0 \in S
    <2> DEFINE f == [i \in 0..0 |-> JoinStage(lists, <<>>, 0)]
    <2>1. \A i \in 0..0 : i = 0
      OBVIOUS
    <2>2. \A i \in 0..0 : JoinStage(lists, <<>>, 0) = JoinStage(lists, f, i)
      BY <2>1 DEF JoinStage
    <2>3. f = [i \in 0..0 |-> JoinStage(lists, f, i)]
      BY <2>2
    <2> QED
      BY <2>3 DEF JoinTable
  <1>2. ASSUME NEW n \in Nat, n \in S
        PROVE  n + 1 \in S
    <2>1. PICK f : JoinTable(lists, f, n)
      BY <1>2
    <2> DEFINE g == [i \in 0..(n + 1) |-> JoinStage(lists, f, i)]
    <2>2. \A i \in 0..(n + 1) : i # 0 => i - 1 \in 0..n /\ i - 1 \in 0..(n + 1)
      OBVIOUS
    <2>3. \A i \in 0..n : f[i] = JoinStage(lists, f, i)
      BY <2>1 DEF JoinTable
    <2>4. \A i \in 0..(n + 1) : g[i] = JoinStage(lists, f, i)
      OBVIOUS
    <2> HIDE DEF g
    <2>5. \A i \in 0..(n + 1) : i # 0 => g[i - 1] = f[i - 1]
      BY <2>2, <2>3, <2>4
    <2>6. \A i \in 0..(n + 1) : JoinStage(lists, f, i) = JoinStage(lists, g, i)
      BY <2>5 DEF JoinStage
    <2>7. g = [i \in 0..(n + 1) |-> JoinStage(lists, g, i)]
      BY <2>6 DEF g
    <2> QED
      BY <2>7 DEF JoinTable
  <1> HIDE DEF S
  <1>3. \A n \in Nat : n \in S
    BY <1>1, <1>2, Induction
  <1> QED
    BY <1>3 DEF S

LEMMA JoinUnique ==
    ASSUME NEW lists, NEW n \in Nat, NEW m \in Nat, NEW f, NEW g,
           JoinTable(lists, f, n), JoinTable(lists, g, m)
    PROVE  \A i \in Nat : i <= n /\ i <= m => f[i] = g[i]
  <1> DEFINE S == {i \in Nat : i <= n /\ i <= m => f[i] = g[i]}
  <1>0. /\ \A i \in 0..n : f[i] = JoinStage(lists, f, i)
        /\ \A i \in 0..m : g[i] = JoinStage(lists, g, i)
    BY DEF JoinTable
  <1>1. 0 \in S
    BY <1>0 DEF JoinStage
  <1>2. ASSUME NEW i \in Nat, i \in S
        PROVE  i + 1 \in S
    <2> SUFFICES ASSUME i + 1 <= n, i + 1 <= m PROVE f[i + 1] = g[i + 1]
      OBVIOUS
    <2>1. i + 1 \in 0..n /\ i + 1 \in 0..m /\ (i + 1) - 1 = i /\ i + 1 # 0
      OBVIOUS
    <2>2. f[i] = g[i]
      BY <1>2
    <2> QED
      BY <1>0, <2>1, <2>2 DEF JoinStage
  <1> HIDE DEF S
  <1>3. \A i \in Nat : i \in S
    BY <1>1, <1>2, Induction
  <1> QED
    BY <1>3 DEF S

LEMMA JoinedEquation ==
    ASSUME NEW lists
    PROVE  Joined(lists) = [i \in Nat |-> JoinStage(lists, Joined(lists), i)]
  <1> DEFINE F(n) == CHOOSE f : JoinTable(lists, f, n)
             W == [i \in Nat |-> F(i)[i]]
  <1>1. \A n \in Nat : JoinTable(lists, F(n), n)
    BY JoinExists
  <1> HIDE DEF F
  <1>2. ASSUME NEW i \in Nat
        PROVE  W[i] = JoinStage(lists, W, i)
    <2>1. W[i] = F(i)[i]
      OBVIOUS
    <2>2. F(i)[i] = JoinStage(lists, F(i), i)
      BY <1>1 DEF JoinTable
    <2>3. i # 0 => F(i)[i - 1] = W[i - 1]
      <3> SUFFICES ASSUME i # 0 PROVE F(i)[i - 1] = W[i - 1]
        OBVIOUS
      <3>1. i - 1 \in Nat /\ i - 1 <= i /\ i - 1 <= i - 1
        OBVIOUS
      <3>2. W[i - 1] = F(i - 1)[i - 1]
        BY <3>1
      <3>3. JoinTable(lists, F(i), i) /\ JoinTable(lists, F(i - 1), i - 1)
        BY <1>1, <3>1
      <3> HIDE DEF W
      <3> QED
        BY <3>1, <3>2, <3>3, JoinUnique
    <2> HIDE DEF W
    <2> QED
      BY <2>1, <2>2, <2>3 DEF JoinStage
  <1>3. W = [i \in Nat |-> JoinStage(lists, W, i)]
    BY <1>2
  <1> HIDE DEF W
  <1>4. \E w : w = [i \in Nat |-> JoinStage(lists, w, i)]
    BY <1>3
  <1>5. Joined(lists) = CHOOSE w : w = [i \in Nat |-> JoinStage(lists, w, i)]
    BY DEF Joined, JoinStage
  <1> QED
    BY <1>4, <1>5

-----------------------------------------------------------------------------
(* The equation of Expansion: one level of imports more than the one below.*)
ExpandStage(f, i) ==
    [p \in Paths |-> IF i = 0 THEN <<>> ELSE Flat(f[i - 1], p, FileText(p))]
ExpandTable(f, n) == f = [i \in 0..n |-> ExpandStage(f, i)]

LEMMA ExpandExists ==
    \A n \in Nat : \E f : ExpandTable(f, n)
  <1> DEFINE S == {n \in Nat : \E f : ExpandTable(f, n)}
  <1>1. 0 \in S
    <2> DEFINE f == [i \in 0..0 |-> ExpandStage(<<>>, 0)]
    <2>1. \A i \in 0..0 : i = 0
      OBVIOUS
    <2>2. \A i \in 0..0 : ExpandStage(<<>>, 0) = ExpandStage(f, i)
      BY <2>1 DEF ExpandStage
    <2>3. f = [i \in 0..0 |-> ExpandStage(f, i)]
      BY <2>2
    <2> QED
      BY <2>3 DEF ExpandTable
  <1>2. ASSUME NEW n \in Nat, n \in S
        PROVE  n + 1 \in S
    <2>1. PICK f : ExpandTable(f, n)
      BY <1>2
    <2> DEFINE g == [i \in 0..(n + 1) |-> ExpandStage(f, i)]
    <2>2. \A i \in 0..(n + 1) : i # 0 => i - 1 \in 0..n /\ i - 1 \in 0..(n + 1)
      OBVIOUS
    <2>3. \A i \in 0..n : f[i] = ExpandStage(f, i)
      BY <2>1 DEF ExpandTable
    <2>4. \A i \in 0..(n + 1) : g[i] = ExpandStage(f, i)
      OBVIOUS
    <2> HIDE DEF g
    <2>5. \A i \in 0..(n + 1) : i # 0 => g[i - 1] = f[i - 1]
      BY <2>2, <2>3, <2>4
    <2>6. \A i \in 0..(n + 1) : ExpandStage(f, i) = ExpandStage(g, i)
      BY <2>5 DEF ExpandStage
    <2>7. g = [i \in 0..(n + 1) |-> ExpandStage(g, i)]
      BY <2>6 DEF g
    <2> QED
      BY <2>7 DEF ExpandTable
  <1> HIDE DEF S
  <1>3. \A n \in Nat : n \in S
    BY <1>1, <1>2, Induction
  <1> QED
    BY <1>3 DEF S

LEMMA ExpandUnique ==
    ASSUME NEW n \in Nat, NEW m \in Nat, NEW f, NEW g,
           ExpandTable(f, n), ExpandTable(g, m)
    PROVE  \A i \in Nat : i <= n /\ i <= m => f[i] = g[i]
  <1> DEFINE S == {i \in Nat : i <= n /\ i <= m => f[i] = g[i]}
  <1>0. /\ \A i \in 0..n : f[i] = ExpandStage(f, i)
        /\ \A i \in 0..m : g[i] = ExpandStage(g, i)
    BY DEF ExpandTable
  <1>1. 0 \in S
    <2>1. ExpandStage(f, 0) = ExpandStage(g, 0)
      BY Zenon DEF ExpandStage
    <2> QED
      BY <1>0, <2>1
  <1>2. ASSUME NEW i \in Nat, i \in S
        PROVE  i + 1 \in S
    <2> SUFFICES ASSUME i + 1 <= n, i + 1 <= m PROVE f[i + 1] = g[i + 1]
      OBVIOUS
    <2>1. i + 1 \in 0..n /\ i + 1 \in 0..m /\ (i + 1) - 1 = i /\ i + 1 # 0
      OBVIOUS
    <2>2. f[(i + 1) - 1] = g[(i + 1) - 1]
      BY <1>2
    <2>3. ExpandStage(f, i + 1) = ExpandStage(g, i + 1)
      BY <2>2, Zenon DEF ExpandStage
    <2> QED
      BY <1>0, <2>1, <2>3
  <1> HIDE DEF S
  <1>3. \A i \in Nat : i \in S
    BY <1>1, <1>2, Induction
  <1> QED
    BY <1>3 DEF S

LEMMA ExpansionEquation ==
    Expansion = [i \in Nat |-> ExpandStage(Expansion, i)]
  <1> DEFINE F(n) == CHOOSE f : ExpandTable(f, n)
             W == [i \in Nat |-> F(i)[i]]
  <1>1. \A n \in Nat : ExpandTable(F(n), n)
    BY ExpandExists
  <1> HIDE DEF F
  <1>2. ASSUME NEW i \in Nat
        PROVE  W[i] = ExpandStage(W, i)
    <2>1. W[i] = F(i)[i]
      OBVIOUS
    <2>2. F(i)[i] = ExpandStage(F(i), i)
      BY <1>1 DEF ExpandTable
    <2>3. i # 0 => F(i)[i - 1] = W[i - 1]
      <3> SUFFICES ASSUME i # 0 PROVE F(i)[i - 1] = W[i - 1]
        OBVIOUS
      <3>1. i - 1 \in Nat /\ i - 1 <= i /\ i - 1 <= i - 1
        OBVIOUS
      <3>2. W[i - 1] = F(i - 1)[i - 1]
        BY <3>1
      <3>3. ExpandTable(F(i), i) /\ ExpandTable(F(i - 1), i - 1)
        BY <1>1, <3>1
      <3> HIDE DEF W
      <3> QED
        BY <3>1, <3>2, <3>3, ExpandUnique
    <2> HIDE DEF W
    <2> QED
      BY <2>1, <2>2, <2>3 DEF ExpandStage
  <1>3. W = [i \in Nat |-> ExpandStage(W, i)]
    BY <1>2
  <1> HIDE DEF W
  <1>4. \E w : w = [i \in Nat |-> ExpandStage(w, i)]
    BY <1>3
  <1>5. Expansion = CHOOSE w : w = [i \in Nat |-> ExpandStage(w, i)]
    BY DEF Expansion, ExpandStage
  <1> QED
    BY <1>4, <1>5

-----------------------------------------------------------------------------
(* One list more.                                                          *)
LEMMA JoinedSteps ==
    ASSUME NEW lists
    PROVE  /\ Joined(lists)[0] = <<>>
           /\ \A i \in Nat : Joined(lists)[i + 1] = Joined(lists)[i] \o lists[i + 1]
  <1>1. \A i \in Nat : Joined(lists)[i] = JoinStage(lists, Joined(lists), i)
    BY JoinedEquation, Zenon
  <1>2. \A i \in Nat : i + 1 \in Nat /\ i + 1 # 0 /\ (i + 1) - 1 = i
    OBVIOUS
  <1> QED
    BY <1>1, <1>2 DEF JoinStage

(* The first n of the lists settle what they come to, ...                  *)
LEMMA JoinedSame ==
    ASSUME NEW r, NEW s, NEW n \in Nat, \A k \in 1..n : r[k] = s[k]
    PROVE  \A i \in 0..n : Joined(r)[i] = Joined(s)[i]
  <1> DEFINE S == {i \in Nat : i <= n => Joined(r)[i] = Joined(s)[i]}
  <1>1. 0 \in S
    BY JoinedSteps
  <1>2. ASSUME NEW i \in Nat, i \in S
        PROVE  i + 1 \in S
    <2>1. i + 1 <= n => Joined(r)[i + 1] = Joined(s)[i + 1]
      <3> SUFFICES ASSUME i + 1 <= n PROVE Joined(r)[i + 1] = Joined(s)[i + 1]
        OBVIOUS
      <3>1. i <= n /\ i + 1 \in 1..n
        OBVIOUS
      <3>2. Joined(r)[i] = Joined(s)[i] /\ r[i + 1] = s[i + 1]
        BY <1>2, <3>1
      <3> QED
        BY <3>2, JoinedSteps
    <2> QED
      BY <2>1
  <1> HIDE DEF S
  <1>3. \A i \in Nat : i \in S
    BY <1>1, <1>2, Induction
  <1> QED
    BY <1>3 DEF S

(* ... and together they are a list of the same elements.                  *)
LEMMA JoinedType ==
    ASSUME NEW E, NEW lists, NEW n \in Nat, \A k \in 1..n : lists[k] \in Seq(E)
    PROVE  \A i \in 0..n : Joined(lists)[i] \in Seq(E)
  <1> DEFINE S == {i \in Nat : i <= n => Joined(lists)[i] \in Seq(E)}
  <1>1. 0 \in S
    <2>1. Joined(lists)[0] = <<>>
      BY JoinedSteps
    <2>2. <<>> \in Seq(E)
      OBVIOUS
    <2>3. Joined(lists)[0] \in Seq(E)
      BY <2>1, <2>2, Zenon
    <2> QED
      BY <2>3
  <1>2. ASSUME NEW i \in Nat, i \in S
        PROVE  i + 1 \in S
    <2>1. i + 1 <= n => Joined(lists)[i + 1] \in Seq(E)
      <3> SUFFICES ASSUME i + 1 <= n PROVE Joined(lists)[i + 1] \in Seq(E)
        OBVIOUS
      <3>1. i <= n /\ i + 1 \in 1..n
        OBVIOUS
      <3>2. Joined(lists)[i] \in Seq(E) /\ lists[i + 1] \in Seq(E)
        BY <1>2, <3>1
      <3>3. Joined(lists)[i + 1] = Joined(lists)[i] \o lists[i + 1]
        BY JoinedSteps
      <3> QED
        BY <3>2, <3>3, ConcatProperties
    <2> QED
      BY <2>1
  <1> HIDE DEF S
  <1>3. \A i \in Nat : i \in S
    BY <1>1, <1>2, Induction
  <1> QED
    BY <1>3 DEF S

(* One level of imports more.                                              *)
LEMMA ExpansionSteps ==
    ASSUME NEW p \in Paths, NEW n \in Nat
    PROVE  Expansion[n + 1][p] = Flat(Expansion[n], p, FileText(p))
  <1>1. n + 1 \in Nat /\ n + 1 # 0 /\ (n + 1) - 1 = n
    OBVIOUS
  <1>2. Expansion[n + 1] = ExpandStage(Expansion, n + 1)
    BY <1>1, ExpansionEquation, Zenon
  <1> QED
    BY <1>1, <1>2 DEF ExpandStage

(* What the first n lines come to depends only on what the files come to   *)
(* that they import.                                                       *)
LEMMA LinesSame ==
    ASSUME NEW f, NEW g, NEW p, NEW t \in Seq(Lines), NEW n \in 0..Len(t),
           \A i \in 1..n : IsImport(t[i]) => f[PathFrom(p, t[i])] = g[PathFrom(p, t[i])]
    PROVE  Joined(LineLists(f, p, t))[n] = Joined(LineLists(g, p, t))[n]
  <1>1. \A i \in 1..n : i \in 1..Len(t)
    OBVIOUS
  <1>2. \A i \in 1..n : LineLists(f, p, t)[i] = LineLists(g, p, t)[i]
    BY <1>1 DEF LineLists
  <1>3. n \in Nat /\ n \in 0..n
    OBVIOUS
  <1> QED
    BY <1>2, <1>3, JoinedSame

(* Whether an import line names a file, and not a directory, does not      *)
(* depend on the path of the file it stands in.                            *)
LEMMA TargetEnds ==
    ASSUME NEW p \in Paths, NEW q \in Paths, NEW l \in Lines, IsImport(l)
    PROVE  /\ PathFrom(p, l) \in Paths
           /\ EndsInName(PathFrom(p, l)) => EndsInName(PathFrom(q, l))
  <1>1. l.target \in Paths /\ l.target # <<>> /\ l.kind \in {"user", "library"}
    BY DEF Lines, IsImport
  <1>2. CASE l.kind = "library"
    <2>1. l.target[1] \in Segments /\ DotLs[l.target[1]] \in Segments
      BY <1>1, PathsAssumption DEF Paths
    <2>2. <<l.target[1]>> \in Paths /\ <<DotLs[l.target[1]]>> \in Paths
      BY <2>1 DEF Paths
    <2>3. Suffixed(l.target) \in Paths /\ Unsuffixed(l.target) \in Paths
      BY <2>2, JoinedIsPath, PathsAssumption DEF Suffixed, Unsuffixed
    <2> QED
      BY <1>2, <2>3 DEF PathFrom, ResolveOfficial, Canonicalize
  <1>3. CASE l.kind = "user" /\ IsAbsolute(l.target)
    BY <1>1, <1>3 DEF PathFrom, ResolveUser, Canonicalize
  <1>4. CASE l.kind = "user" /\ ~IsAbsolute(l.target)
    <2>1. PathFrom(p, l) = Dirname(p) \o l.target /\ PathFrom(q, l) = Dirname(q) \o l.target
      BY <1>4 DEF PathFrom, ResolveUser, Canonicalize
    <2> DEFINE r == PathFrom(p, l)
               s == PathFrom(q, l)
               t == l.target
               d == Dirname(p)
               e == Dirname(q)
    <2>4. d \in Paths /\ e \in Paths /\ t \in Paths /\ t # <<>> /\ r = d \o t /\ s = e \o t
      BY <1>1, <2>1, DirnameIsPath
    <2> HIDE DEF r, s, t, d, e
    <2>2. r \in Paths /\ r # <<>> /\ r[Len(r)] = t[Len(t)]
      BY <2>4, LeadingJoined
    <2>3. s \in Paths /\ s # <<>> /\ s[Len(s)] = t[Len(t)]
      BY <2>4, LeadingJoined
    <2>5. EndsInName(r) => EndsInName(s)
      BY <2>2, <2>3 DEF EndsInName
    <2> QED
      BY <2>2, <2>5 DEF r, s
  <1> QED
    BY <1>1, <1>2, <1>3, <1>4

-----------------------------------------------------------------------------
(* What the file at a place comes to no longer changes from level n on.    *)
Settled(place, n) ==
    \A p \in Paths : EndsInName(p) /\ PlaceOf(p) = place =>
        \A m \in Nat : n <= m => Expansion[m][p] = Expansion[n][p]

LEMMA SettledStays ==
    ASSUME NEW q, NEW n \in Nat, Settled(q, n)
    PROVE  Settled(q, n + 1)
  <1> SUFFICES ASSUME NEW p \in Paths, EndsInName(p), PlaceOf(p) = q,
                      NEW m \in Nat, n + 1 <= m
               PROVE  Expansion[m][p] = Expansion[n + 1][p]
    BY DEF Settled
  <1>1. n <= m /\ n <= n + 1 /\ n + 1 \in Nat
    OBVIOUS
  <1> QED
    BY <1>1, Zenon DEF Settled

(* A file whose imports are settled is settled one level higher.           *)
LEMMA SettledNext ==
    ASSUME NEW F, NEW n \in Nat, \A q \in F : Settled(q, n),
           NEW p \in Paths, EndsInName(p), FileText(p) \in Seq(Lines),
           \A i \in 1..Len(FileText(p)) : IsImport(FileText(p)[i]) =>
               /\ EndsInName(PathFrom(p, FileText(p)[i]))
               /\ PlaceOf(PathFrom(p, FileText(p)[i])) \in F
    PROVE  Settled(PlaceOf(p), n + 1)
  <1> SUFFICES ASSUME NEW r \in Paths, EndsInName(r), PlaceOf(r) = PlaceOf(p),
                      NEW m \in Nat, n + 1 <= m
               PROVE  Expansion[m][r] = Expansion[n + 1][r]
    BY DEF Settled
  <1> DEFINE t == FileText(p)
  <1>1. FileText(r) = t
    BY DEF FileText
  <1>2. m - 1 \in Nat /\ (m - 1) + 1 = m /\ n <= m - 1
    OBVIOUS
  <1>3. Expansion[m][r] = Flat(Expansion[m - 1], r, t)
    BY <1>1, <1>2, ExpansionSteps
  <1>4. Expansion[n + 1][r] = Flat(Expansion[n], r, t)
    BY <1>1, ExpansionSteps
  <1>5. t \in Seq(Lines) /\ Len(t) \in 0..Len(t)
    OBVIOUS
  <1>6. ASSUME NEW i \in 1..Len(t), IsImport(t[i])
        PROVE  Expansion[m - 1][PathFrom(r, t[i])] = Expansion[n][PathFrom(r, t[i])]
    <2>1. t[i] \in Lines
      BY <1>5
    <2>2. EndsInName(PathFrom(p, t[i])) /\ PlaceOf(PathFrom(p, t[i])) \in F
      BY <1>6
    <2> HIDE DEF t
    <2>3. PathFrom(r, t[i]) \in Paths /\ EndsInName(PathFrom(r, t[i]))
      BY <1>6, <2>1, <2>2, TargetEnds
    <2>4. PlaceOf(PathFrom(r, t[i])) = PlaceOf(PathFrom(p, t[i]))
      BY <1>6, <2>1, TargetDependsOnPlace
    <2>5. Settled(PlaceOf(PathFrom(r, t[i])), n)
      BY <2>2, <2>4
    <2> QED
      BY <1>2, <2>3, <2>5, Zenon DEF Settled
  <1> HIDE DEF t
  <1>7. Flat(Expansion[m - 1], r, t) = Flat(Expansion[n], r, t)
    BY <1>5, <1>6, LinesSame DEF Flat
  <1> QED
    BY <1>3, <1>4, <1>7

-----------------------------------------------------------------------------
(* A sequence is its last element behind the others.                       *)
LEMMA LastJoins ==
    ASSUME NEW S, NEW s \in Seq(S), s # <<>>
    PROVE  s = Append(Leading(s), s[Len(s)])
  <1> DEFINE m == Len(s) - 1
             p == Leading(s)
             e == s[Len(s)]
  <1>1. m \in Nat /\ m + 1 = Len(s) /\ e \in S
    OBVIOUS
  <1>2. p \in Seq(S) /\ Len(p) = m /\ \A k \in 1..m : p[k] = s[k]
    BY LeadingSeq
  <1> HIDE DEF p, e
  <1> DEFINE r == Append(p, e)
  <1>3. p \in Seq(S) /\ e \in S
    BY <1>1, <1>2
  <1>4. /\ r \in Seq(S) /\ Len(r) = m + 1 /\ r[m + 1] = e
        /\ \A k \in 1..m : r[k] = s[k]
    <2>1. /\ r \in Seq(S) /\ Len(r) = Len(p) + 1 /\ r[Len(p) + 1] = e
          /\ \A k \in 1..Len(p) : r[k] = p[k]
      BY <1>3
    <2> HIDE DEF r
    <2> QED
      BY <1>1, <1>2, <2>1
  <1> HIDE DEF r
  <1>5. \A k \in 1..Len(s) : r[k] = s[k]
    <2> SUFFICES ASSUME NEW k \in 1..(m + 1) PROVE r[k] = s[k]
      BY <1>1
    <2>1. k \in 1..m \/ k = m + 1
      <3> HIDE DEF m
      <3> QED
        BY <1>1
    <2> QED
      BY <1>1, <1>4, <2>1 DEF e
  <1> HIDE DEF m
  <1>6. r = s
    BY <1>1, <1>4, <1>5, SeqEqual
  <1> QED
    BY <1>6 DEF r, p, e

(* The names of files are finitely many, and so are the paths of any       *)
(* bounded length.                                                         *)
LEMMA FinitePaths == \A n \in Nat : IsFiniteSet(UpTo(n))
  <1> DEFINE S == {n \in Nat : IsFiniteSet(UpTo(n))}
  <1>1. 0 \in S
    <2>1. UpTo(0) = {<<>>}
      BY ShortPaths DEF UpTo
    <2> QED
      BY <2>1, FS_Singleton
  <1>2. ASSUME NEW n \in Nat, n \in S
        PROVE  n + 1 \in S
    <2> DEFINE L == UpTo(n + 1) \ {<<>>}
               R == UpTo(n) \X Segments
               f == [p \in L |-> <<Leading(p), p[Len(p)]>>]
    <2>1. IsFiniteSet(R)
      BY <1>2, FS_Product, SegmentsAssumption
    <2>2. \A p \in L : /\ Leading(p) \in UpTo(n) /\ p[Len(p)] \in Segments
                       /\ p = Append(Leading(p), p[Len(p)])
      <3> SUFFICES ASSUME NEW p \in L
                   PROVE  /\ Leading(p) \in UpTo(n) /\ p[Len(p)] \in Segments
                          /\ p = Append(Leading(p), p[Len(p)])
        OBVIOUS
      <3>1. p \in Paths /\ p # <<>> /\ Len(p) <= n + 1
        BY DEF UpTo
      <3>2. /\ Len(p) \in Nat \ {0} /\ Leading(p) \in Paths
            /\ Len(Leading(p)) = Len(p) - 1 /\ p[Len(p)] \in Segments
        BY <3>1, LeadingPath
      <3>3. Len(Leading(p)) <= n
        BY <3>1, <3>2
      <3>4. p = Append(Leading(p), p[Len(p)])
        BY <3>1, LastJoins DEF Paths
      <3> QED
        BY <3>2, <3>3, <3>4 DEF UpTo
    <2> HIDE DEF L, R
    <2>3. f \in [L -> R]
      BY <2>2 DEF R
    <2>4. ASSUME NEW p \in L, NEW q \in L, f[p] = f[q]
          PROVE  p = q
      <3>1. Leading(p) = Leading(q) /\ p[Len(p)] = q[Len(q)]
        BY <2>4
      <3> QED
        BY <2>2, <3>1
    <2> HIDE DEF f
    <2>5. f \in Injection(L, R)
      BY <2>3, <2>4 DEF Injection, IsInjective
    <2>6. IsFiniteSet(L)
      BY <2>1, <2>5, FS_Injection
    <2>7. IsFiniteSet(L \cup {<<>>})
      BY <2>6, FS_AddElement
    <2>8. UpTo(n + 1) \subseteq L \cup {<<>>}
      BY DEF L
    <2>9. IsFiniteSet(UpTo(n + 1))
      BY <2>7, <2>8, FS_Subset
    <2> QED
      BY <2>9
  <1> HIDE DEF S
  <1>3. \A n \in Nat : n \in S
    BY <1>1, <1>2, Induction
  <1> QED
    BY <1>3 DEF S
=============================================================================
