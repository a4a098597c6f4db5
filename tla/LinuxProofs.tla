----------------------------- MODULE LinuxProofs ------------------------------
(***************************************************************************)
(* Proofs about a session on Linux: what of the host its mounts show, and  *)
(* that bubblewrap gets through making them, for any host, any paths       *)
(* declared and any links; and what its network lets through, for any      *)
(* ports and any settings.                                                 *)
(***************************************************************************)
EXTENDS LinuxBinds, NetworkRules, HostPathsProofs, FiniteSetTheorems

-----------------------------------------------------------------------------
(* Sequences of sets, of sequences and of steps.                           *)

LEMMA SetSeq ==
  ASSUME NEW S, IsFiniteSet(S)
  PROVE  /\ SetToSeq(S) \in Seq(S)
         /\ \A x \in S : \E n \in 1..Len(SetToSeq(S)) : SetToSeq(S)[n] = x
<1>1. PICK N \in Nat : N = Cardinality(S) /\ Bijection(1..N, S) # {}
  BY FS_CardinalityType DEF ExistsBijection
<1>2. PICK f \in [1..N -> S] : IsInjective(f)
  BY <1>1 DEF Bijection, Injection
<1> DEFINE s == SetToSeq(S)
<1>3. s \in [1..N -> S] /\ IsInjective(s)
  BY <1>1, <1>2 DEF SetToSeq
<1> HIDE DEF s
<1>4. s \in Injection(1..N, S)
  BY <1>3 DEF Injection
<1>5. Cardinality(1..N) = N
  BY FS_Interval
<1>6. s \in Surjection(1..N, S)
  BY <1>1, <1>4, <1>5, FS_Injection
<1>7. s \in Seq(S) /\ Len(s) = N
  BY <1>3
<1> QED BY <1>6, <1>7 DEF Surjection, s

(* What finitely many things are mapped to is finite.                      *)
LEMMA FiniteRange ==
  ASSUME NEW D, IsFiniteSet(D), NEW f
  PROVE  IsFiniteSet({f[x] : x \in D})
<1> DEFINE T == {f[x] : x \in D}
           g == [x \in D |-> f[x]]
<1>1. g \in Surjection(D, T)
  BY DEF Surjection
<1> HIDE DEF T, g
<1>2. IsFiniteSet(T)
  BY <1>1, FS_Surjection
<1> QED BY <1>2 DEF T

LEMMA FiniteUnion ==
  ASSUME NEW D, IsFiniteSet(D), NEW f, \A x \in D : IsFiniteSet(f[x])
  PROVE  IsFiniteSet(UNION {f[x] : x \in D})
<1> DEFINE T == {f[x] : x \in D}
<1>1. IsFiniteSet(T) /\ \A t \in T : IsFiniteSet(t)
  BY FiniteRange
<1> HIDE DEF T
<1>2. IsFiniteSet(UNION T)
  BY <1>1, FS_UNION
<1> QED BY <1>2 DEF T

LEMMA FiniteElements ==
  ASSUME NEW S, NEW s \in Seq(S)
  PROVE  IsFiniteSet({s[n] : n \in 1..Len(s)})
<1>1. PICK N \in Nat : N = Len(s)
  OBVIOUS
<1>2. IsFiniteSet(1..N)
  BY FS_Interval
<1> QED BY <1>1, <1>2, FiniteRange

(* What a sequence holds.                                                  *)
In(s) == {s[n] : n \in 1..Len(s)}

LEMMA InConcat ==
  ASSUME NEW S, NEW s \in Seq(S), NEW t \in Seq(S)
  PROVE  s \o t \in Seq(S) /\ In(s \o t) = In(s) \cup In(t)
<1> DEFINE u == s \o t
<1>1. PICK m \in Nat, n \in Nat : m = Len(s) /\ n = Len(t)
  OBVIOUS
<1>2. /\ u \in Seq(S) /\ Len(u) = m + n
      /\ \A i \in 1..(m + n) : u[i] = IF i <= m THEN s[i] ELSE t[i - m]
  BY <1>1, ConcatProperties
<1> HIDE DEF u
<1>3. \A i \in 1..m : i \in 1..(m + n) /\ u[i] = s[i]
  BY <1>2
<1>4. \A i \in 1..n : m + i \in 1..(m + n) /\ u[m + i] = t[i]
  <2> TAKE i \in 1..n
  <2>1. m + i \in 1..(m + n) /\ ~(m + i <= m) /\ (m + i) - m = i
    OBVIOUS
  <2> QED BY <1>2, <2>1
<1>5. \A i \in 1..(m + n) : u[i] \in In(s) \cup In(t)
  <2> TAKE i \in 1..(m + n)
  <2>1. CASE i <= m
    BY <1>1, <1>2, <2>1 DEF In
  <2>2. CASE ~(i <= m)
    <3>1. i - m \in 1..n /\ u[i] = t[i - m]
      BY <1>2, <2>2
    <3> QED BY <1>1, <3>1 DEF In
  <2> QED BY <2>1, <2>2
<1>6. In(s) \cup In(t) \subseteq In(u)
  BY <1>1, <1>2, <1>3, <1>4 DEF In
<1>7. In(u) \subseteq In(s) \cup In(t)
  BY <1>2, <1>5 DEF In
<1> QED BY <1>2, <1>6, <1>7 DEF u

LEMMA FlattenRecursion ==
  ASSUME NEW seqs, NEW L \in Nat, L = Len(seqs), L # 0
  PROVE  \E f : /\ FlattenSeq(seqs) = f[L]
               /\ \A i \in 1..L : f[i] = IF i = 1 THEN seqs[i] ELSE f[i - 1] \o seqs[i]
<1> DEFINE Upto(f, N) ==
      f = [i \in 1..N |-> IF i = 1 THEN seqs[i] ELSE f[i - 1] \o seqs[i]]
           Defined == {N \in 0..L : \E f : Upto(f, N)}
<1>1. 0 \in Defined
  <2> DEFINE f == [i \in 1..0 |-> <<>>]
  <2>1. Upto(f, 0)
    OBVIOUS
  <2> HIDE DEF Upto, f
  <2> QED BY <2>1
<1>2. ASSUME NEW N \in 0..L, N \in Defined, N < L
      PROVE  N + 1 \in Defined
  <2>1. PICK f : Upto(f, N)
    BY <1>2
  <2> DEFINE g == [i \in 1..(N + 1) |->
                     IF i = N + 1
                     THEN IF i = 1 THEN seqs[i] ELSE f[N] \o seqs[i]
                     ELSE f[i]]
  <2>2. \A i \in 1..N : g[i] = f[i]
    OBVIOUS
  <2>3. ASSUME NEW i \in 1..(N + 1)
        PROVE  g[i] = IF i = 1 THEN seqs[i] ELSE g[i - 1] \o seqs[i]
    <3>1. CASE i = N + 1
      BY <2>2, <3>1
    <3>2. CASE i # N + 1
      <4>1. i \in 1..N /\ (i # 1 => i - 1 \in 1..N)
        BY <3>2
      <4>2. f[i] = IF i = 1 THEN seqs[i] ELSE f[i - 1] \o seqs[i]
        BY <2>1, <4>1
      <4> QED BY <2>2, <4>1, <4>2
    <3> QED BY <3>1, <3>2
  <2>4. Upto(g, N + 1)
    BY <2>3
  <2>5. N + 1 \in 0..L
    BY <1>2
  <2> HIDE DEF Upto, g
  <2> QED BY <2>4, <2>5
<1>3. L \in Defined
  <2> HIDE DEF Defined
  <2>1. \A n \in 0..L : n \in Defined /\ n < L => n + 1 \in Defined
    BY <1>2
  <2>2. \A n \in 0..L : n \in Defined
    BY <1>1, <2>1, CountUp
  <2> QED BY <2>2
<1> DEFINE flatten == CHOOSE f : Upto(f, L)
<1>4. Upto(flatten, L) /\ FlattenSeq(seqs) = flatten[L]
  <2>1. FlattenSeq(seqs) = flatten[L]
    BY DEF FlattenSeq
  <2> HIDE DEF Upto
  <2> QED BY <1>3, <2>1
<1> HIDE DEF flatten
<1>5. \A i \in 1..L : flatten[i] = IF i = 1 THEN seqs[i] ELSE flatten[i - 1] \o seqs[i]
  BY <1>4
<1> QED BY <1>4, <1>5

LEMMA FlattenedFrom ==
  ASSUME NEW S, NEW seqs \in Seq(Seq(S))
  PROVE  /\ FlattenSeq(seqs) \in Seq(S)
         /\ \A n \in 1..Len(seqs) : In(seqs[n]) \subseteq In(FlattenSeq(seqs))
<1>0. PICK L \in Nat : L = Len(seqs)
  OBVIOUS
<1>1. CASE L = 0
  <2>1. seqs = <<>>
    BY <1>0, <1>1, EmptySeq
  <2> QED BY <1>0, <1>1, <2>1, EmptySeq DEF FlattenSeq
<1>2. CASE L # 0
  <2>1. PICK f :
          /\ FlattenSeq(seqs) = f[L]
          /\ \A i \in 1..L : f[i] = IF i = 1 THEN seqs[i] ELSE f[i - 1] \o seqs[i]
    BY <1>0, <1>2, FlattenRecursion
  <2> DEFINE Good == {n \in 0..L : n # 0 => /\ f[n] \in Seq(S)
                                            /\ \A m \in 1..n : In(seqs[m]) \subseteq In(f[n])}
  <2>2. ASSUME NEW n \in 0..L, n \in Good, n < L
        PROVE  n + 1 \in Good
    <3>1. n + 1 \in 1..L /\ (n + 1) - 1 = n /\ seqs[n + 1] \in Seq(S)
      BY <1>0, <2>2
    <3>2. CASE n = 0
      <4>1. f[1] = seqs[1] /\ n + 1 = 1 /\ \A m \in 1..1 : m = 1
        BY <2>1, <3>1, <3>2
      <4> QED BY <3>1, <4>1
    <3>3. CASE n # 0
      <4>1. PICK before \in Seq(S), more \in Seq(S) :
              before = f[n] /\ more = seqs[n + 1]
        BY <2>2, <3>1, <3>3
      <4>2. f[n + 1] = before \o more
        <5>1. n + 1 # 1
          BY <3>3
        <5>2. f[n + 1] = f[(n + 1) - 1] \o seqs[n + 1]
          BY <2>1, <3>1, <5>1
        <5> QED BY <3>1, <4>1, <5>2
      <4>3. f[n + 1] \in Seq(S) /\ In(f[n + 1]) = In(before) \cup In(more)
        BY <4>2, InConcat
      <4>4. \A m \in 1..(n + 1) : m = n + 1 \/ m \in 1..n
        OBVIOUS
      <4>5. \A m \in 1..(n + 1) : In(seqs[m]) \subseteq In(f[n + 1])
        BY <2>2, <3>3, <4>1, <4>3, <4>4
      <4> QED BY <3>1, <4>3, <4>5
    <3> QED BY <3>2, <3>3
  <2>3. L \in Good
    <3>1. 0 \in Good
      OBVIOUS
    <3> HIDE DEF Good
    <3>2. \A n \in 0..L : n \in Good /\ n < L => n + 1 \in Good
      BY <2>2
    <3>3. \A n \in 0..L : n \in Good
      BY <3>1, <3>2, CountUp
    <3> QED BY <3>3
  <2> QED BY <1>0, <1>2, <2>1, <2>3
<1> QED BY <1>1, <1>2

-----------------------------------------------------------------------------
(* The host, read or yet to be read.                                       *)

HostInv ==
  \E h \in Hosts :
    host = IF status = "reading" THEN h ELSE [h EXCEPT !.declared = ReadAll(h)]

(* What reading a host does not change.                                    *)
Grounded(h) ==
  /\ \A q \in DOMAIN h.links : h.links[q] \in Paths
  /\ DOMAIN h.links \cup h.dirs \cup h.files \cup h.worktrees \subseteq Paths
  /\ <<>> \notin DOMAIN h.links
  /\ \A S \in {DOMAIN h.links, h.dirs, h.files, h.worktrees} : IsFiniteSet(S)
  /\ \A p \in h.dirs \cup h.files : FirstLink(p, h.links) = 0
  /\ h.workspace \in Paths /\ {h.common, h.socket} \subseteq Paths \cup {NoPath}

(* The same, of what the launch takes from it.                             *)
Furnished(h) ==
  /\ \A p \in h.dirs \cup h.files \cup DOMAIN h.links : Ancestors(p) \subseteq h.dirs
  /\ (h.dirs \cup {<<>>}) \cap h.files = {}
  /\ FirstLink(h.workspace, h.links) = 0
  /\ h.socket # NoPath => h.allowNix /\ h.socket \in h.files
  /\ h.socket # NoPath /\ Under(h.socket, NixVar) =>
       ~Under(h.socket, Tmp) /\ ~Under(h.socket, Home)
  /\ h.common # NoPath => h.common \in h.dirs
  /\ GitUsable(h) =>
       \A p \in ProtectedFiles(h) :
         p \notin h.dirs /\ Ancestors(p) \cap (h.files \cup ProtectedFiles(h)) = {}
  /\ h.proxy => Bundle \in h.files
  /\ \A p \in h.dirs \cup h.files \cup DOMAIN h.links \cup ProtectedFiles(h) :
       ~Under(p, Within(Tmp, "bundle"))

Entries(h) == {ReadDeclared(h, x) : x \in DeclaredNames}

LEMMA InnerFacts ==
  ASSUME NEW h, Grounded(h), NEW dir \in Paths
  PROVE  /\ IsFiniteSet(InnerSymlinks(h, dir))
         /\ \A i \in InnerSymlinks(h, dir) :
              i.parents \in Seq(PathPairs) /\ i.hops \in Seq(Paths)
<1> DEFINE links == {l \in DOMAIN h.links :
                       /\ Parent(l) = Landing(dir, h.links)
                       /\ Whole(Append(dir, Last(l)), h.links)}
           entry(l) == Append(dir, Last(l))
           read(l) == [parents |-> ParentLinks(entry(l), h.links),
                       hops |-> Hops(entry(l), h.links)]
           f == [l \in links |-> read(l)]
<1>1. InnerSymlinks(h, dir) = {f[l] : l \in links}
  BY DEF InnerSymlinks
<1>2. IsFiniteSet(DOMAIN h.links) /\ links \in SUBSET DOMAIN h.links
  BY DEF Grounded
<1>3. IsFiniteSet(links)
  <2> HIDE DEF links
  <2> QED BY <1>2, FS_Subset
<1>4. IsFiniteSet({f[l] : l \in links})
  <2> HIDE DEF f, links
  <2> QED BY <1>3, FiniteRange
<1>5. ASSUME NEW l \in links
      PROVE  f[l].parents \in Seq(PathPairs) /\ f[l].hops \in Seq(Paths)
  <2>1. l \in Paths /\ l # <<>>
    BY <1>2 DEF Grounded
  <2>2. Last(l) \in FileNames
    BY <2>1, EmptySeq DEF Paths, Last
  <2>3. entry(l) \in Paths
    BY <2>2, AppendProperties DEF Paths
  <2> HIDE DEF entry, links
  <2>4. ParentLinks(entry(l), h.links) \in Seq(PathPairs) /\ Hops(entry(l), h.links) \in Seq(Paths)
    BY <2>3, ParentLinksArePaths, HopsArePaths DEF Grounded
  <2> QED BY <2>4
<1> QED BY <1>1, <1>4, <1>5

(* What a launch knows of what is declared.  Where a whole walk leaves the *)
(* final name as written, the name leads where it did.                     *)
RealNames(h) == h.dirs \cup h.files \cup DOMAIN h.links

(* A name whose walk stops at its final name is one the host has.          *)
LEMMA FinalIsReal ==
  ASSUME NEW h, NEW p \in Paths, AtFinal(p, h.links), Exists(h, p)
  PROVE  p \in RealNames(h)
<1>1. CASE FirstLink(p, h.links) = 0
  <2>1. Landing(p, h.links) = p
    BY <1>1, FirstLinkIsFirst, NoLinkNoWalk
  <2> QED BY <2>1 DEF Exists, IsDir, IsFile, RealNames
<1>2. CASE FirstLink(p, h.links) # 0
  <2>1. FirstLink(p, h.links) = Len(p)
    BY <1>2 DEF AtFinal
  <2>2. AtLink(p, h.links) = p
    BY <2>1 DEF AtLink, Paths
  <2> QED BY <1>2, <2>2, FirstLinkIsFirst DEF RealNames
<1> QED BY <1>1, <1>2

Found(h, d) ==
  /\ ~d.stopped /\ d.exists => d.path \in RealNames(h)
  /\ d.hops # <<>> => FirstLink(d.path, h.links) # 0

Known(h, d) ==
  /\ d.mode \in {"rw", "ro"} /\ d.kind \in {"dir", "file"}
  /\ d.name \in Paths /\ d.path \in Paths
  /\ d.parents \in Seq(PathPairs) /\ d.hops \in Seq(Paths)
  /\ ~d.stopped => Landing(d.path, h.links) = Landing(d.name, h.links)
  /\ Found(h, d)
  /\ IsFiniteSet(d.inner)
  /\ \A i \in d.inner : i.parents \in Seq(PathPairs) /\ i.hops \in Seq(Paths)

LEMMA EntryFacts ==
  ASSUME NEW h, Grounded(h), NEW d \in Entries(h)
  PROVE  Known(h, d)
<1>1. PICK x \in DeclaredNames : d = ReadDeclared(h, x)
  BY DEF Entries
<1>2. x.name \in Paths /\ x.mode \in {"rw", "ro"} /\ x.kind \in {"dir", "file"}
  BY DEF DeclaredNames
<1>3. \A q \in DOMAIN h.links : h.links[q] \in Paths
  BY DEF Grounded
<1> DEFINE whole == Whole(x.name, h.links)
           path == IF whole THEN PhysicalPath(x.name, h.links) ELSE x.name
<1>4. path \in Paths /\ (whole => Landing(path, h.links) = Landing(x.name, h.links))
  BY <1>2, <1>3, PhysicalIsPath, LandingOfPhysical
<1>5. /\ d.name = x.name /\ d.mode = x.mode /\ d.kind = x.kind /\ d.path = path
      /\ d.parents = IF whole THEN ParentLinks(x.name, h.links) ELSE <<>>
      /\ d.hops = IF whole THEN Hops(x.name, h.links) ELSE <<>>
      /\ d.stopped = ~whole /\ d.exists = Exists(h, path)
      /\ d.inner = IF x.kind = "dir" /\ IsDir(h, path) THEN InnerSymlinks(h, path) ELSE {}
  BY <1>1 DEF ReadDeclared
<1> HIDE DEF whole, path
<1>6. d.parents \in Seq(PathPairs)
  BY <1>2, <1>3, <1>5, ParentLinksArePaths, EmptySeq
<1>7. d.hops \in Seq(Paths)
  BY <1>2, <1>3, <1>5, HopsArePaths, EmptySeq
<1>8. /\ IsFiniteSet(d.inner)
      /\ \A i \in d.inner : i.parents \in Seq(PathPairs) /\ i.hops \in Seq(Paths)
  BY <1>4, <1>5, InnerFacts, FS_EmptySet
<1>9. ~d.stopped /\ d.exists => d.path \in RealNames(h)
  <2>1. SUFFICES ASSUME whole, Exists(h, path) PROVE path \in RealNames(h)
    BY <1>5
  <2>2. AtFinal(path, h.links)
    BY <2>1, PhysicalIsFinal DEF whole, path
  <2> QED BY <1>4, <2>1, <2>2, FinalIsReal
<1>10. d.hops # <<>> => FirstLink(d.path, h.links) # 0
  BY <1>5, NoHops DEF whole, path
<1>11. Found(h, d)
  BY <1>9, <1>10 DEF Found
<1>12. /\ d.mode \in {"rw", "ro"} /\ d.kind \in {"dir", "file"}
       /\ d.name \in Paths /\ d.path \in Paths
       /\ ~d.stopped => Landing(d.path, h.links) = Landing(d.name, h.links)
  BY <1>2, <1>4, <1>5
<1> QED BY <1>6, <1>7, <1>8, <1>11, <1>12 DEF Known

LEMMA ReadAllEntries ==
  ASSUME NEW h, h.declared \in Seq(DeclaredNames)
  PROVE  ReadAll(h) \in Seq(Entries(h))
<1> DEFINE is(n, m, k) == h.declared[n].mode = m /\ h.declared[n].kind = k
           group(m, k) ==
             Selected(h.declared, {n \in 1..Len(h.declared) : is(n, m, k)})
           all == group("rw", "dir") \o group("rw", "file")
                    \o group("ro", "dir") \o group("ro", "file")
<1>1. ASSUME NEW m, NEW k PROVE group(m, k) \in Seq(DeclaredNames)
  BY SelectedFrom
<1>2. all \in Seq(DeclaredNames)
  <2> HIDE DEF group
  <2> QED BY <1>1, ConcatProperties
<1>3. ReadAll(h) = [n \in 1..Len(all) |-> ReadDeclared(h, all[n])]
  BY DEF ReadAll
<1> HIDE DEF all
<1>4. PICK N \in Nat : N = Len(all)
  BY <1>2
<1>5. \A n \in 1..N : ReadDeclared(h, all[n]) \in Entries(h)
  BY <1>2, <1>4 DEF Entries
<1> QED BY <1>3, <1>4, <1>5, IsASeq

LEMMA HostFacts ==
  ASSUME HostInv
  PROVE  /\ Grounded(host) /\ Furnished(host)
         /\ status # "reading" => host.declared \in Seq(Entries(host))
<1>1. PICK h \in Hosts :
        host = IF status = "reading" THEN h ELSE [h EXCEPT !.declared = ReadAll(h)]
  BY DEF HostInv
<1>2. h.declared \in Seq(DeclaredNames) /\ Grounded(h) /\ Furnished(h)
  BY HostsAssumption, TreeAssumption, LaunchAssumption DEF Grounded, Furnished
<1>3. CASE status = "reading"
  BY <1>1, <1>2, <1>3
<1>4. CASE status # "reading"
  <2>1. /\ host.links = h.links /\ host.dirs = h.dirs /\ host.files = h.files
        /\ host.worktrees = h.worktrees /\ host.workspace = h.workspace
        /\ host.worktreeConfig = h.worktreeConfig /\ host.coreWorktrees = h.coreWorktrees
        /\ host.common = h.common /\ host.socket = h.socket
        /\ host.allowNix = h.allowNix /\ host.proxy = h.proxy
        /\ host.declared = ReadAll(h)
    <3>1. DOMAIN h = {"links", "dirs", "files", "workspace", "declared", "common",
                      "worktrees", "worktreeConfig", "coreWorktrees",
                      "allowNix", "socket", "proxy"}
      BY HostsAssumption
    <3> QED BY <1>1, <1>4, <3>1
  <2>2. Grounded(host)
    BY <1>2, <2>1 DEF Grounded
  <2>3. GitUsable(host) = GitUsable(h) /\ ProtectedFiles(host) = ProtectedFiles(h)
    BY <2>1 DEF GitUsable, RepoRoot, ProtectedFiles, GitDirs, WorktreesOf, SubmoduleDotGit
  <2>4. Furnished(host)
    BY <1>2, <2>1, <2>3 DEF Furnished
  <2>5. \A x : ReadDeclared(host, x) = ReadDeclared(h, x)
    BY <2>1 DEF ReadDeclared, Exists, IsDir, IsFile, InnerSymlinks
  <2>6. Entries(host) = Entries(h)
    BY <2>5 DEF Entries
  <2> QED BY <1>2, <1>4, <2>1, <2>2, <2>4, <2>6, ReadAllEntries
<1> QED BY <1>3, <1>4

(* A host that was read.                                                   *)
Read(h) == Grounded(h) /\ h.declared \in Seq(Entries(h))

LEMMA DeclaredFacts ==
  ASSUME NEW h, Read(h)
  PROVE  /\ IsFiniteSet(DeclaredSet(h))
         /\ \A d \in DeclaredSet(h) : Known(h, d)
<1>1. IsFiniteSet(DeclaredSet(h))
  BY FiniteElements DEF Read, DeclaredSet
<1>2. \A d \in DeclaredSet(h) : d \in Entries(h)
  BY DEF Read, DeclaredSet
<1> QED BY <1>1, <1>2, EntryFacts DEF Read

(* What the sequences of the declared paths, and of the links inside them, *)
(* hold.                                                                   *)
Held(D, own, inner) == UNION {In(own[d]) \cup UNION {In(s) : s \in inner[d]} : d \in D}

LEMMA FiniteOfDeclared ==
  ASSUME NEW D, IsFiniteSet(D), NEW T, NEW own, NEW inner,
         \A d \in D : own[d] \in Seq(T) /\ IsFiniteSet(inner[d]),
         \A d \in D : \A s \in inner[d] : s \in Seq(T)
  PROVE  IsFiniteSet(Held(D, own, inner)) /\ Held(D, own, inner) \subseteq T
<1> DEFINE of(d) == In(own[d]) \cup UNION {In(s) : s \in inner[d]}
<1>1. \A s \in Seq(T) : IsFiniteSet(In(s)) /\ In(s) \subseteq T
  BY FiniteElements DEF In
<1>2. ASSUME NEW d \in D PROVE IsFiniteSet(of(d)) /\ of(d) \subseteq T
  <2> DEFINE f == [s \in inner[d] |-> In(s)]
             U == UNION {f[s] : s \in inner[d]}
  <2>1. IsFiniteSet(inner[d]) /\ \A s \in inner[d] : IsFiniteSet(f[s]) /\ f[s] \subseteq T
    BY <1>1
  <2>2. of(d) = In(own[d]) \cup U
    OBVIOUS
  <2> HIDE DEF f, of
  <2>3. IsFiniteSet(U) /\ U \subseteq T
    BY <2>1, FiniteUnion
  <2>4. IsFiniteSet(In(own[d])) /\ In(own[d]) \subseteq T
    BY <1>1
  <2> HIDE DEF U
  <2> QED BY <2>2, <2>3, <2>4, FS_Union
<1> DEFINE g == [d \in D |-> of(d)]
           all == UNION {g[d] : d \in D}
<1>3. all = Held(D, own, inner)
  BY DEF Held
<1>4. \A d \in D : IsFiniteSet(g[d]) /\ g[d] \subseteq T
  BY <1>2
<1>5. IsFiniteSet(all) /\ all \subseteq T
  <2> HIDE DEF g
  <2> QED BY <1>4, FiniteUnion
<1> QED BY <1>3, <1>5

LEMMA LandingFacts ==
  ASSUME NEW h, Read(h)
  PROVE  IsFiniteSet(Landings(h)) /\ Landings(h) \subseteq Paths
<1> DEFINE D == DeclaredSet(h)
           own == [d \in D |-> d.hops]
           inner == [d \in D |-> {i.hops : i \in d.inner}]
<1>1. /\ IsFiniteSet(D)
      /\ \A d \in D : own[d] \in Seq(Paths)
      /\ \A d \in D : \A s \in inner[d] : s \in Seq(Paths)
  BY DeclaredFacts DEF Known
<1>2. ASSUME NEW d \in D PROVE IsFiniteSet(inner[d])
  <2> DEFINE f == [i \in d.inner |-> i.hops]
  <2>1. IsFiniteSet({f[i] : i \in d.inner})
    <3>1. IsFiniteSet(d.inner)
      BY DeclaredFacts DEF Known
    <3> HIDE DEF f
    <3> QED BY <3>1, FiniteRange
  <2> QED BY <2>1
<1>3. Landings(h) = Held(D, own, inner)
  BY DEF Landings, Held, In
<1> HIDE DEF D, own, inner
<1> QED BY <1>1, <1>2, <1>3, FiniteOfDeclared

LEMMA ParentSymlinkFacts ==
  ASSUME NEW h, Read(h)
  PROVE  IsFiniteSet(ParentSymlinks(h)) /\ ParentSymlinks(h) \subseteq PathPairs
<1> DEFINE D == DeclaredSet(h)
           own == [d \in D |-> d.parents]
           inner == [d \in D |-> {i.parents : i \in d.inner}]
<1>1. /\ IsFiniteSet(D)
      /\ \A d \in D : own[d] \in Seq(PathPairs)
      /\ \A d \in D : \A s \in inner[d] : s \in Seq(PathPairs)
  BY DeclaredFacts DEF Known
<1>2. ASSUME NEW d \in D PROVE IsFiniteSet(inner[d])
  <2> DEFINE f == [i \in d.inner |-> i.parents]
  <2>1. IsFiniteSet({f[i] : i \in d.inner})
    <3>1. IsFiniteSet(d.inner)
      BY DeclaredFacts DEF Known
    <3> HIDE DEF f
    <3> QED BY <3>1, FiniteRange
  <2> QED BY <2>1
<1>3. ParentSymlinks(h) \in SUBSET Held(D, own, inner)
  BY DEF ParentSymlinks, Held, In
<1> HIDE DEF D, own, inner
<1>4. IsFiniteSet(Held(D, own, inner)) /\ Held(D, own, inner) \subseteq PathPairs
  BY <1>1, <1>2, FiniteOfDeclared
<1> QED BY <1>3, <1>4, FS_Subset

-----------------------------------------------------------------------------
(* What the arguments bind was granted.                                    *)

(* A path of the host that leads into a place that was granted.            *)
InPlace(h, s) == \E g \in GrantedNames(h) : g \in Paths /\ Under(s, Landing(g, h.links))
Leads(h, p) == InPlace(h, Landing(p, h.links))

Arguments ==
  [op : {"bind", "tmpfs", "dir", "symlink"}, src : Paths \cup {NoPath},
   at : Paths, rw : BOOLEAN]

GoodArg(h) ==
  {a \in Arguments : a.op = "bind" => a.src \in Paths /\ Leads(h, a.src)}

LEMMA BindsAreGood ==
  ASSUME NEW h, NEW src \in Paths, NEW at \in Paths, Leads(h, src)
  PROVE  Bind(src, at) \in GoodArg(h) /\ RoBind(src, at) \in GoodArg(h)
BY DEF Bind, RoBind, GoodArg, Arguments

LEMMA OthersAreGood ==
  ASSUME NEW h, NEW at \in Paths
  PROVE  /\ Tmpfs(at) \in GoodArg(h) /\ MakeDir(at) \in GoodArg(h)
         /\ \A to \in Paths : Symlink(to, at) \in GoodArg(h)
BY DEF Tmpfs, MakeDir, Symlink, GoodArg, Arguments

LEMMA GrantedLeads ==
  ASSUME NEW h, Grounded(h), NEW g \in GrantedNames(h), g \in Paths
  PROVE  Leads(h, g)
<1>1. Landing(g, h.links) \in Paths
  BY LandingIsPath DEF Grounded
<1> QED BY <1>1, UnderItself DEF Leads, InPlace

(* What is granted is bound from where it is.                              *)
LEMMA GrantedBound ==
  ASSUME NEW h, Grounded(h), NEW g \in GrantedNames(h), g \in Paths, NEW at \in Paths
  PROVE  Bind(g, at) \in GoodArg(h) /\ RoBind(g, at) \in GoodArg(h)
BY GrantedLeads, BindsAreGood

(* Each path of a set bound where it is.                                   *)
LEMMA EachBoundIn ==
  ASSUME NEW K, NEW S, IsFiniteSet(S), \A p \in S : RoBind(p, p) \in K
  PROVE  EachOf(S, LAMBDA p : RoBind(p, p)) \in Seq(K)
<1> DEFINE s == SetToSeq(S)
<1>1. EachOf(S, LAMBDA p : RoBind(p, p)) = [n \in 1..Len(s) |-> RoBind(s[n], s[n])]
  BY DEF EachOf
<1>2. s \in Seq(S)
  BY SetSeq
<1> HIDE DEF s
<1>3. \A n \in 1..Len(s) : RoBind(s[n], s[n]) \in K
  BY <1>2
<1>4. Len(s) \in Nat
  BY <1>2
<1>5. [n \in 1..Len(s) |-> RoBind(s[n], s[n])] \in Seq(K)
  BY <1>3, <1>4, IsASeq
<1> QED BY <1>1, <1>5

LEMMA EachBound ==
  ASSUME NEW h, NEW S, IsFiniteSet(S), S \subseteq Paths, \A p \in S : Leads(h, p)
  PROVE  EachOf(S, LAMBDA p : RoBind(p, p)) \in Seq(GoodArg(h))
<1>1. \A p \in S : RoBind(p, p) \in GoodArg(h)
  BY BindsAreGood
<1> QED BY <1>1, EachBoundIn

LEMMA StoreBindsGood ==
  ASSUME NEW h, Grounded(h)
  PROVE  StoreBinds(h) \in Seq(GoodArg(h))
<1>1. {Store, NixVar} \cup Closure \subseteq Paths /\ IsFiniteSet(Closure)
  BY PlacesAssumption
<1>2. CASE h.allowNix
  <2>1. Store \in GrantedNames(h) /\ NixVar \in GrantedNames(h)
    BY <1>2 DEF GrantedNames
  <2>2. RoBind(Store, Store) \in GoodArg(h) /\ RoBind(NixVar, NixVar) \in GoodArg(h)
    BY <1>1, <2>1, GrantedBound
  <2> QED BY <1>2, <2>2 DEF StoreBinds
<1>3. CASE ~h.allowNix
  <2>1. \A p \in Closure : p \in GrantedNames(h)
    BY DEF GrantedNames
  <2>2. EachOf(Closure, LAMBDA p : RoBind(p, p)) \in Seq(GoodArg(h))
    BY <1>1, <2>1, GrantedLeads, EachBound
  <2>3. <<Tmpfs(Store)>> \in Seq(GoodArg(h))
    BY <1>1, OthersAreGood
  <2> QED BY <1>3, <2>2, <2>3, ConcatProperties DEF StoreBinds
<1> QED BY <1>2, <1>3

LEMMA RootFacts ==
  ASSUME NEW h, Grounded(h)
  PROVE  IsFiniteSet(GrantableRepoRoot(h)) /\ GrantableRepoRoot(h) \subseteq Paths
<1> DEFINE S == GrantableRepoRoot(h)
<1>1. WorkTreeRoot(h) \in Paths
  <2> DEFINE roots == {k \in 0..Len(h.workspace) :
                         Within(SubSeq(h.workspace, 1, k), ".git") \in h.dirs \cup h.files}
             k == CHOOSE k \in roots : \A j \in roots : j <= k
  <2>1. h.workspace \in Paths
    BY DEF Grounded
  <2>2. WorkTreeRoot(h) = IF roots = {} THEN h.workspace ELSE SubSeq(h.workspace, 1, k)
    BY DEF WorkTreeRoot
  <2>3. ASSUME roots # {} PROVE k \in 0..Len(h.workspace)
    <3>0. PICK N \in Nat : N = Len(h.workspace)
      BY <2>1 DEF Paths
    <3>1. \E m \in roots : \A j \in roots : j <= m
      <4> DEFINE up == {j + 1 : j \in roots}
      <4>1. \A j \in roots : j \in 0..N
        BY <3>0
      <4> HIDE DEF roots
      <4>2. up \in SUBSET (1..(N + 1)) /\ up # {}
        BY <2>3, <4>1
      <4>3. PICK m \in up : \A j \in up : m >= j
        <5> HIDE DEF up
        <5>1. N + 1 \in Nat
          BY <3>0
        <5> QED BY <4>2, <5>1, GreatestExists
      <4>4. PICK i \in roots : m = i + 1
        OBVIOUS
      <4>5. ASSUME NEW j \in roots PROVE j <= i
        <5>1. j + 1 \in up
          OBVIOUS
        <5>2. i + 1 >= j + 1
          BY <4>3, <4>4, <5>1
        <5> QED BY <4>1, <5>2
      <4> QED BY <4>5
    <3>2. k \in roots
      <4> HIDE DEF roots
      <4> QED BY <3>1
    <3> QED BY <3>2
  <2> HIDE DEF roots, k
  <2> QED BY <2>1, <2>2, <2>3, PrefixAbove
<1>2. S \in SUBSET {WorkTreeRoot(h)} /\ IsFiniteSet({WorkTreeRoot(h)})
  BY FS_Singleton DEF GrantableRepoRoot
<1> QED BY <1>1, <1>2, FS_Subset

LEMMA RootGood ==
  ASSUME NEW h, Grounded(h)
  PROVE  EachOf(GrantableRepoRoot(h), LAMBDA p : RoBind(p, p)) \in Seq(GoodArg(h))
<1>1. \A g \in GrantableRepoRoot(h) : g \in GrantedNames(h)
  BY DEF GrantedNames, GrantableRepoRoot
<1> QED BY <1>1, RootFacts, GrantedLeads, EachBound

(* What a declared path adds.  Its bind is of the declared name's landing, *)
(* or of a landing in the store.                                           *)
LEMMA LastHopIsLanding ==
  ASSUME NEW h, Read(h), NEW d \in DeclaredSet(h), d.hops # <<>>
  PROVE  Last(d.hops) \in Paths /\ Last(d.hops) \in Landings(h)
<1>1. d.hops \in Seq(Paths)
  BY DeclaredFacts DEF Known
<1>2. Len(d.hops) \in 1..Len(d.hops)
  BY <1>1, EmptySeq
<1>3. Last(d.hops) = d.hops[Len(d.hops)]
  BY DEF Last
<1> QED BY <1>1, <1>2, <1>3 DEF Landings

LEMMA DeclaredBindGood ==
  ASSUME NEW h, Read(h), ~DeclaredRefused(h), NEW d \in DeclaredSet(h)
  PROVE  DeclaredBind(h, d) \in Seq(GoodArg(h))
<1>1. Known(h, d) /\ Grounded(h) /\ ~d.stopped
  BY DeclaredFacts DEF DeclaredRefused, Read
<1>2. Leads(h, d.path)
  <2>1. d.name \in GrantedNames(h)
    BY DEF GrantedNames
  <2>2. Leads(h, d.name)
    BY <1>1, <2>1, GrantedLeads DEF Known
  <2> QED BY <1>1, <2>2 DEF Known, Leads
<1> DEFINE bind(src) == IF d.mode = "rw" THEN Bind(src, d.path) ELSE RoBind(src, d.path)
<1>3. ASSUME NEW src \in Paths, Leads(h, src) PROVE <<bind(src)>> \in Seq(GoodArg(h))
  BY <1>1, <1>3, BindsAreGood DEF Known
<1>4. <<bind(d.path)>> \in Seq(GoodArg(h))
  BY <1>1, <1>2, <1>3 DEF Known
<1>5. ASSUME d.hops # <<>>, StrictlyUnder(Last(d.hops), Store)
      PROVE  <<bind(Last(d.hops))>> \in Seq(GoodArg(h))
  <2>1. Last(d.hops) \in Paths /\ Last(d.hops) \in Landings(h)
    BY <1>5, LastHopIsLanding
  <2>2. Last(d.hops) \in GrantedNames(h)
    BY <1>5, <2>1 DEF GrantedNames
  <2> QED BY <1>1, <1>3, <2>1, <2>2, GrantedLeads
<1>6. DeclaredBind(h, d) =
        CASE d.hops = <<>> -> <<bind(d.path)>>
          [] d.hops # <<>> /\ AlreadyBound(Parent(d.path), BoundPrefixes(h)) -> <<>>
          [] d.hops # <<>> /\ d.kind = "dir"
               /\ ~AlreadyBound(Parent(d.path), BoundPrefixes(h)) -> <<bind(d.path)>>
          [] OTHER -> IF StrictlyUnder(Last(d.hops), Store)
                      THEN <<bind(Last(d.hops))>> ELSE <<>>
  BY DEF DeclaredBind
<1> HIDE DEF bind
<1>7. <<>> \in Seq(GoodArg(h))
  OBVIOUS
<1>8. CASE d.hops = <<>>
  BY <1>4, <1>6, <1>8
<1>9. CASE d.hops # <<>>
  BY <1>4, <1>5, <1>6, <1>7, <1>9
<1> QED BY <1>8, <1>9

LEMMA DeclaredBindsIn ==
  ASSUME NEW h, Read(h), NEW mode, NEW kind, NEW K,
         \A d \in DeclaredSet(h) :
           d.mode = mode /\ d.kind = kind => DeclaredBind(h, d) \in Seq(K)
  PROVE  DeclaredBinds(h, mode, kind) \in Seq(K)
<1> DEFINE of(d) == IF d.mode = mode /\ d.kind = kind THEN DeclaredBind(h, d) ELSE <<>>
           seqs == [n \in 1..Len(h.declared) |-> of(h.declared[n])]
<1>1. DeclaredBinds(h, mode, kind) = FlattenSeq(seqs)
  BY DEF DeclaredBinds
<1>2. \A n \in 1..Len(h.declared) : of(h.declared[n]) \in Seq(K)
  BY EmptySeq DEF DeclaredSet
<1>3. Len(h.declared) \in Nat
  BY DEF Read
<1>4. seqs \in Seq(Seq(K))
  <2> HIDE DEF of
  <2> QED BY <1>2, <1>3, IsASeq
<1> HIDE DEF seqs
<1> QED BY <1>1, <1>4, FlattenedFrom

LEMMA DeclaredBindsGood ==
  ASSUME NEW h, Read(h), ~DeclaredRefused(h), NEW mode, NEW kind
  PROVE  DeclaredBinds(h, mode, kind) \in Seq(GoodArg(h))
BY DeclaredBindGood, DeclaredBindsIn

LEMMA StoreTargetFacts ==
  ASSUME NEW h, Read(h), NEW prefixes
  PROVE  /\ IsFiniteSet(StoreTargets(h, prefixes)) /\ StoreTargets(h, prefixes) \subseteq Paths
         /\ \A l \in StoreTargets(h, prefixes) : Leads(h, l)
<1>1. IsFiniteSet(Landings(h)) /\ Landings(h) \subseteq Paths /\ Grounded(h)
  BY LandingFacts DEF Read
<1>2. StoreTargets(h, prefixes) \in SUBSET Landings(h)
  BY DEF StoreTargets, Unbound
<1>3. \A l \in StoreTargets(h, prefixes) : l \in GrantedNames(h)
  BY <1>2 DEF StoreTargets, GrantedNames
<1> QED BY <1>1, <1>2, <1>3, FS_Subset, GrantedLeads

(* What directories are made above.                                        *)
MadeAbove(h) == StoreTargets(h, BoundPrefixes(h)) \cup {d.path : d \in DeclaredSet(h)}

LEMMA ParentDirsIn ==
  ASSUME NEW h, Read(h), NEW K,
         \A p \in MadeAbove(h) : \A q \in Ancestors(p) \cap Paths : MakeDir(q) \in K
  PROVE  ParentDirArgs(h) \in Seq(K)
<1> DEFINE B == BoundPrefixes(h)
           linked == {d \in DeclaredSet(h) :
                        d.kind = "file" /\ d.hops # <<>> /\ DeclaredBind(h, d) # <<>>}
           names == {d.path : d \in linked}
           below == StoreTargets(h, B) \cup names
           dirs == UNION {ParentDirs(p, B) : p \in below}
           s == SetToSeq(dirs)
<1>1. ParentDirArgs(h) = [n \in 1..Len(s) |-> MakeDir(s[n])]
  BY DEF ParentDirArgs, EachOf
<1>2. IsFiniteSet(names) /\ names \subseteq Paths
  <2>1. IsFiniteSet(linked) /\ \A d \in linked : d.path \in Paths
    BY DeclaredFacts, FS_Subset DEF Known
  <2> DEFINE f == [d \in linked |-> d.path]
  <2>2. IsFiniteSet({f[d] : d \in linked})
    <3> HIDE DEF linked, f
    <3> QED BY <2>1, FiniteRange
  <2> QED BY <2>1, <2>2
<1>3. IsFiniteSet(below) /\ below \subseteq Paths
  <2> HIDE DEF names, B
  <2> QED BY <1>2, StoreTargetFacts, FS_Union
<1>4. ASSUME NEW p \in below PROVE IsFiniteSet(ParentDirs(p, B)) /\ ParentDirs(p, B) \subseteq Paths
  <2>1. PICK N \in Nat : p \in Paths /\ N = Len(p)
    BY <1>3 DEF Paths
  <2> DEFINE f == [k \in 1..(N - 1) |-> SubSeq(p, 1, k)]
  <2>2. Ancestors(p) = {f[k] : k \in 1..(N - 1)}
    BY <2>1 DEF Ancestors
  <2>3. IsFiniteSet(1..(N - 1))
    BY FS_Interval
  <2>4. IsFiniteSet({f[k] : k \in 1..(N - 1)})
    <3> HIDE DEF f
    <3> QED BY <2>3, FiniteRange
  <2>5. \A k \in 1..(N - 1) : f[k] \in Paths
    BY <2>1, PrefixAbove
  <2> QED BY <2>2, <2>4, <2>5, FS_EmptySet DEF ParentDirs
<1>5. IsFiniteSet(dirs) /\ dirs \subseteq Paths
      /\ \A q \in dirs : \E p \in below : q \in Ancestors(p)
  <2> HIDE DEF below, B
  <2> DEFINE f == [p \in below |-> ParentDirs(p, B)]
  <2>1. \A p \in below : IsFiniteSet(f[p])
    BY <1>4
  <2>2. IsFiniteSet(UNION {f[p] : p \in below})
    <3> HIDE DEF f
    <3> QED BY <1>3, <2>1, FiniteUnion
  <2>3. \A p \in below : ParentDirs(p, B) \subseteq Ancestors(p)
    BY DEF ParentDirs
  <2> QED BY <1>4, <2>2, <2>3
<1> HIDE DEF dirs
<1>6. s \in Seq(dirs)
  BY <1>5, SetSeq
<1> HIDE DEF s
<1>7. \A n \in 1..Len(s) : MakeDir(s[n]) \in K
  <2>1. below \subseteq MadeAbove(h)
    BY DEF MadeAbove
  <2> HIDE DEF below
  <2>2. \A q \in dirs : MakeDir(q) \in K
    BY <1>5, <2>1
  <2> QED BY <1>6, <2>2
<1>8. Len(s) \in Nat
  BY <1>6
<1>9. [n \in 1..Len(s) |-> MakeDir(s[n])] \in Seq(K)
  BY <1>7, <1>8, IsASeq
<1> QED BY <1>1, <1>9

LEMMA ParentDirsGood ==
  ASSUME NEW h, Read(h)
  PROVE  ParentDirArgs(h) \in Seq(GoodArg(h))
<1>1. \A p \in Paths : MakeDir(p) \in GoodArg(h)
  BY OthersAreGood
<1> QED BY <1>1, ParentDirsIn

LEMMA ParentSymlinksIn ==
  ASSUME NEW h, Read(h), NEW K,
         \A l \in ParentSymlinks(h) \cap PathPairs : Symlink(l.to, l.path) \in K
  PROVE  EachOf(ParentSymlinks(h), LAMBDA l : Symlink(l.to, l.path)) \in Seq(K)
<1> DEFINE s == SetToSeq(ParentSymlinks(h))
<1>1. EachOf(ParentSymlinks(h), LAMBDA l : Symlink(l.to, l.path)) =
        [n \in 1..Len(s) |-> Symlink(s[n].to, s[n].path)]
  BY DEF EachOf
<1>2. s \in Seq(ParentSymlinks(h)) /\ ParentSymlinks(h) \subseteq PathPairs
  BY ParentSymlinkFacts, SetSeq
<1> HIDE DEF s
<1>3. \A n \in 1..Len(s) : Symlink(s[n].to, s[n].path) \in K
  <2> TAKE n \in 1..Len(s)
  <2>1. s[n] \in ParentSymlinks(h) \cap PathPairs
    BY <1>2
  <2> QED BY <2>1
<1>4. Len(s) \in Nat
  BY <1>2
<1>5. [n \in 1..Len(s) |-> Symlink(s[n].to, s[n].path)] \in Seq(K)
  BY <1>3, <1>4, IsASeq
<1> QED BY <1>1, <1>5

LEMMA ParentSymlinksGood ==
  ASSUME NEW h, Read(h)
  PROVE  EachOf(ParentSymlinks(h), LAMBDA l : Symlink(l.to, l.path)) \in Seq(GoodArg(h))
<1>1. \A l \in PathPairs : Symlink(l.to, l.path) \in GoodArg(h)
  BY OthersAreGood DEF PathPairs
<1> QED BY <1>1, ParentSymlinksIn

-----------------------------------------------------------------------------
(* git's paths.                                                            *)

(* No link is above what is known by its real name.                        *)
LEMMA RealAbove ==
  ASSUME NEW h, Grounded(h), NEW p \in h.dirs \cup h.files, NEW q \in Paths, Under(p, q)
  PROVE  FirstLink(q, h.links) = 0 /\ Landing(q, h.links) = q
<1>1. p \in Paths /\ FirstLink(p, h.links) = 0
  BY DEF Grounded
<1>2. \A k \in 1..Len(p) : SubSeq(p, 1, k) \notin DOMAIN h.links
  BY <1>1, FirstLinkIsFirst
<1>3. ASSUME NEW k \in 1..Len(q) PROVE SubSeq(q, 1, k) \notin DOMAIN h.links
  <2>1. k \in 0..Len(q) /\ k \in 1..Len(p)
    BY <1>1, UnderMeans DEF Paths
  <2> QED BY <1>1, <1>2, <2>1, AboveIsPrefix
<1> QED BY <1>3, FirstLinkIsFirst, NoLinkNoWalk

LEMMA RealWithinLeads ==
  ASSUME NEW h, Grounded(h), NEW p \in h.dirs \cup h.files,
         NEW g \in GrantedNames(h), g \in Paths, Under(p, g)
  PROVE  Leads(h, p)
<1>1. p \in Paths /\ Under(p, p)
  BY UnderItself DEF Grounded
<1>2. Landing(p, h.links) = p /\ Landing(g, h.links) = g
  BY <1>1, RealAbove
<1> QED BY <1>2 DEF Leads, InPlace

LEMMA GitDirFacts ==
  ASSUME NEW h, Grounded(h), GitUsable(h)
  PROVE  /\ h.common \in Paths /\ h.common \in GrantedNames(h) /\ IsFiniteSet(GitDirs(h))
         /\ \A g \in GitDirs(h) : g \in Paths /\ Under(g, h.common)
<1> DEFINE modules == Within(h.common, "modules")
           subs == {g \in h.dirs : /\ StrictlyUnder(g, modules)
                                   /\ {Within(g, "HEAD"), Within(g, "config")} \subseteq h.files}
<1>1. h.common \in Paths /\ h.common \in GrantedNames(h)
  BY DEF Grounded, GitUsable, GrantedNames
<1>2. modules \in Paths /\ Under(modules, h.common)
  BY <1>1, OwnNamesAssumption, WithinIsPath
<1>3. GitDirs(h) = {h.common} \cup subs
  BY DEF GitDirs
<1>4. IsFiniteSet(h.dirs) /\ h.dirs \subseteq Paths /\ subs \in SUBSET h.dirs
  BY DEF Grounded
<1> HIDE DEF modules
<1>5. \A g \in subs : g \in Paths /\ Under(g, h.common)
  BY <1>1, <1>2, <1>4, UnderUnder DEF StrictlyUnder
<1> HIDE DEF subs
<1>6. IsFiniteSet(subs) /\ IsFiniteSet({h.common})
  BY <1>4, FS_Subset, FS_Singleton
<1>7. IsFiniteSet({h.common} \cup subs)
  BY <1>6, FS_Union
<1>8. Under(h.common, h.common)
  BY <1>1, UnderItself
<1> QED BY <1>1, <1>3, <1>5, <1>7, <1>8

LEMMA ProtectedDirFacts ==
  ASSUME NEW h, Grounded(h), GitUsable(h)
  PROVE  /\ IsFiniteSet(ProtectedDirs(h)) /\ ProtectedDirs(h) \subseteq Paths
         /\ \A p \in ProtectedDirs(h) : Leads(h, p)
<1>1. ProtectedDirs(h) \in SUBSET h.dirs /\ IsFiniteSet(h.dirs) /\ h.dirs \subseteq Paths
  BY DEF ProtectedDirs, Grounded
<1>2. ASSUME NEW p \in ProtectedDirs(h) PROVE Leads(h, p)
  <2>1. PICK g \in GitDirs(h) : p = Within(g, "hooks")
    BY DEF ProtectedDirs
  <2>2. g \in Paths /\ h.common \in Paths /\ h.common \in GrantedNames(h) /\ Under(g, h.common)
    BY GitDirFacts
  <2>3. p \in Paths /\ Under(p, g)
    BY <2>1, <2>2, OwnNamesAssumption, WithinIsPath
  <2>4. Under(p, h.common)
    BY <2>2, <2>3, UnderUnder
  <2> QED BY <1>1, <2>2, <2>4, RealWithinLeads
<1> QED BY <1>1, <1>2, FS_Subset

(* Three names below.                                                      *)
LEMMA ThreeBelow ==
  ASSUME NEW g \in Paths, NEW a \in FileNames, NEW b \in FileNames, NEW c \in FileNames
  PROVE  g \o <<a, b, c>> \in Paths /\ Under(g \o <<a, b, c>>, g)
<1> DEFINE t == <<a, b, c>>
           p == g \o t
<1>1. t \in Seq(FileNames) /\ Len(t) = 3
  OBVIOUS
<1>2. PICK n \in Nat : n = Len(g)
  BY DEF Paths
<1> HIDE DEF t
<1>3. p \in Paths /\ Len(p) = n + 3 /\ \A i \in 1..n : p[i] = g[i]
  <2>1. g \in Seq(FileNames)
    BY DEF Paths
  <2>2. /\ p \in Seq(FileNames) /\ Len(p) = Len(g) + Len(t)
        /\ \A i \in 1..(Len(g) + Len(t)) :
             p[i] = IF i <= Len(g) THEN g[i] ELSE t[i - Len(g)]
    BY <1>1, <2>1, ConcatProperties
  <2> HIDE DEF p
  <2>3. \A i \in 1..n : i \in 1..(n + 3) /\ i <= n
    BY <1>2
  <2> QED BY <1>1, <1>2, <2>2, <2>3 DEF Paths
<1> HIDE DEF p
<1>4. Under(p, g)
  BY <1>2, <1>3, UnderMeans
<1> QED BY <1>3, <1>4 DEF p, t

LEMMA ProtectedFileFacts ==
  ASSUME NEW h, Grounded(h), GitUsable(h)
  PROVE  /\ IsFiniteSet(ProtectedFiles(h)) /\ ProtectedFiles(h) \subseteq Paths
         /\ \A p \in ProtectedFiles(h) \cap h.files : Leads(h, p)
         /\ \A p \in ProtectedFiles(h) \ h.files : Under(p, h.common)
<1> DEFINE G == GitDirs(h)
           A == {Within(g, "config") : g \in G} \cap h.files
           B == {g \o <<"objects", "info", "alternates">> : g \in G}
           trees == WorktreesOf(h, G)
           C == {Within(w, "commondir") : w \in trees}
           enabled == G \cap h.worktreeConfig
           configured == enabled \cup WorktreesOf(h, enabled)
           F == {Within(g, "config.worktree") : g \in configured}
           D == {Within(w, ".git") : w \in {t \in h.worktrees : Under(t, h.workspace)}}
                  \cap h.files
           S == SubmoduleDotGit(h)
<1>1. ProtectedFiles(h) = A \cup B \cup C \cup F \cup D \cup S
  BY DEF ProtectedFiles
<1>2. {"config", "objects", "info", "alternates", "worktrees", "commondir", ".git",
       "config.worktree"} \subseteq FileNames
  BY OwnNamesAssumption
<1>3. /\ h.common \in Paths /\ h.common \in GrantedNames(h) /\ IsFiniteSet(G)
      /\ \A g \in G : g \in Paths /\ Under(g, h.common)
  BY GitDirFacts
<1>4. /\ h.workspace \in Paths /\ h.workspace \in GrantedNames(h)
      /\ h.dirs \cup h.files \cup h.worktrees \subseteq Paths
      /\ IsFiniteSet(h.files) /\ IsFiniteSet(h.dirs)
  BY DEF Grounded, GrantedNames
<1>0. S \subseteq h.files /\ S \subseteq GrantedNames(h)
  BY DEF SubmoduleDotGit, GrantedNames
<1> HIDE DEF G, S
<1>5. IsFiniteSet(A) /\ A \subseteq Paths /\ \A p \in A : Under(p, h.common)
  <2>1. ASSUME NEW p \in A PROVE Under(p, h.common)
    <3>1. PICK g \in G : p = Within(g, "config")
      OBVIOUS
    <3>2. p \in Paths /\ Under(p, g)
      BY <1>2, <1>3, <3>1, WithinIsPath
    <3> QED BY <1>3, <3>2, UnderUnder
  <2>2. A \in SUBSET h.files
    OBVIOUS
  <2> QED BY <1>4, <2>1, <2>2, FS_Subset
<1>6. IsFiniteSet(B) /\ B \subseteq Paths /\ \A p \in B : Under(p, h.common)
  <2>1. ASSUME NEW p \in B PROVE p \in Paths /\ Under(p, h.common)
    <3>1. PICK g \in G : p = g \o <<"objects", "info", "alternates">>
      OBVIOUS
    <3>2. p \in Paths /\ Under(p, g)
      BY <1>2, <1>3, <3>1, ThreeBelow
    <3> QED BY <1>3, <3>2, UnderUnder
  <2> DEFINE f == [g \in G |-> g \o <<"objects", "info", "alternates">>]
  <2>2. IsFiniteSet({f[g] : g \in G})
    <3> HIDE DEF f
    <3> QED BY <1>3, FiniteRange
  <2> QED BY <2>1, <2>2
<1>7. ASSUME NEW w \in trees
      PROVE  w \in Paths /\ Under(w, h.common)
  <2>1. PICK g \in G : Parent(w) = Within(g, "worktrees")
    BY DEF WorktreesOf
  <2>2. w \in Paths
    BY <1>4 DEF WorktreesOf
  <2>3. PICK n \in Nat : n = Len(w)
    BY <2>2 DEF Paths
  <2>4. /\ Parent(w) = SubSeq(w, 1, n - 1)
        /\ Parent(w) \in Paths /\ Under(Parent(w), g) /\ Len(Parent(w)) = Len(g) + 1
    BY <1>2, <1>3, <2>1, <2>3, WithinIsPath DEF Parent, Front
  <2>5. n # 0
    <3>1. n = 0 => Len(SubSeq(w, 1, n - 1)) = 0
      BY <2>2, <2>3, SubSeqEmpty
    <3>2. Len(g) \in Nat
      BY <1>3 DEF Paths
    <3> QED BY <2>4, <3>1, <3>2
  <2>6. Under(w, Parent(w))
    <3>1. n - 1 \in 0..Len(w)
      BY <2>3, <2>5
    <3> QED BY <2>2, <2>4, <3>1, PrefixAbove
  <2>7. Under(w, g)
    BY <1>3, <2>2, <2>4, <2>6, UnderUnder
  <2> QED BY <1>3, <2>2, <2>7, UnderUnder
<1>8. IsFiniteSet(C) /\ C \subseteq Paths /\ \A p \in C : Under(p, h.common)
  <2>1. ASSUME NEW p \in C PROVE p \in Paths /\ Under(p, h.common)
    <3>1. PICK w \in trees : p = Within(w, "commondir")
      OBVIOUS
    <3>2. p \in Paths /\ Under(p, w) /\ w \in Paths
      BY <1>2, <1>7, <3>1, WithinIsPath
    <3> QED BY <1>3, <1>7, <3>2, UnderUnder
  <2> DEFINE f == [w \in trees |-> Within(w, "commondir")]
  <2>2. IsFiniteSet(trees)
    <3>1. trees \in SUBSET h.dirs
      BY DEF WorktreesOf
    <3> HIDE DEF trees
    <3> QED BY <1>4, <3>1, FS_Subset
  <2>3. IsFiniteSet({f[w] : w \in trees})
    <3> HIDE DEF f, trees
    <3> QED BY <2>2, FiniteRange
  <2> QED BY <2>1, <2>3
<1>14. IsFiniteSet(F) /\ F \subseteq Paths /\ \A p \in F : Under(p, h.common)
  <2>1. configured \subseteq G \cup trees
    BY DEF WorktreesOf
  <2>2. \A w \in configured : w \in Paths /\ Under(w, h.common)
    BY <1>3, <1>7, <2>1
  <2>3. IsFiniteSet(configured)
    <3>1. trees \in SUBSET h.dirs
      BY DEF WorktreesOf
    <3>2. IsFiniteSet(trees)
      BY <1>4, <3>1, FS_Subset
    <3>3. IsFiniteSet(G \cup trees)
      BY <1>3, <3>2, FS_Union
    <3> HIDE DEF configured, trees
    <3> QED BY <2>1, <3>3, FS_Subset
  <2> HIDE DEF configured
  <2>4. ASSUME NEW p \in F PROVE p \in Paths /\ Under(p, h.common)
    <3>1. PICK w \in configured : p = Within(w, "config.worktree")
      OBVIOUS
    <3>2. p \in Paths /\ Under(p, w)
      BY <1>2, <2>2, <3>1, WithinIsPath
    <3> QED BY <1>3, <2>2, <3>2, UnderUnder
  <2> DEFINE f == [w \in configured |-> Within(w, "config.worktree")]
  <2>5. IsFiniteSet({f[w] : w \in configured})
    <3> HIDE DEF f
    <3> QED BY <2>3, FiniteRange
  <2> QED BY <2>4, <2>5
<1>9. IsFiniteSet(D) /\ D \subseteq Paths /\ \A p \in D : Under(p, h.workspace)
  <2>1. ASSUME NEW p \in D PROVE Under(p, h.workspace)
    <3>1. PICK w \in h.worktrees : p = Within(w, ".git") /\ Under(w, h.workspace)
      OBVIOUS
    <3>2. w \in Paths /\ p \in Paths /\ Under(p, w)
      BY <1>2, <1>4, <3>1, WithinIsPath
    <3> QED BY <1>4, <3>1, <3>2, UnderUnder
  <2>2. D \in SUBSET h.files
    OBVIOUS
  <2> QED BY <1>4, <2>1, <2>2, FS_Subset
<1>10. A \cup D \subseteq h.files
  OBVIOUS
<1>15. IsFiniteSet(S) /\ S \subseteq Paths
  BY <1>0, <1>4, FS_Subset
<1> HIDE DEF A, B, C, D, F
<1>11. IsFiniteSet(A \cup B \cup C \cup F \cup D \cup S)
  <2>1. IsFiniteSet(A \cup B)
    BY <1>5, <1>6, FS_Union
  <2>2. IsFiniteSet((A \cup B) \cup C)
    BY <1>8, <2>1, FS_Union
  <2>3. IsFiniteSet(((A \cup B) \cup C) \cup F)
    BY <1>14, <2>2, FS_Union
  <2>4. IsFiniteSet((((A \cup B) \cup C) \cup F) \cup D)
    BY <1>9, <2>3, FS_Union
  <2> QED BY <1>15, <2>4, FS_Union
<1>12. ASSUME NEW p \in ProtectedFiles(h) \cap h.files PROVE Leads(h, p)
  <2>1. CASE p \in S
    <3>1. p \in GrantedNames(h) /\ p \in Paths /\ Under(p, p)
      BY <1>0, <1>15, <2>1, UnderItself
    <3> QED BY <3>1, RealWithinLeads
  <2>2. CASE p \notin S
    <3>1. Under(p, h.common) \/ Under(p, h.workspace)
      BY <1>1, <1>5, <1>6, <1>8, <1>9, <1>14, <2>2
    <3> QED BY <1>3, <1>4, <3>1, RealWithinLeads
  <2> QED BY <2>1, <2>2
<1>13. \A p \in ProtectedFiles(h) \ h.files : Under(p, h.common)
  BY <1>0, <1>1, <1>6, <1>8, <1>10, <1>14
<1> QED BY <1>1, <1>5, <1>6, <1>8, <1>9, <1>11, <1>12, <1>13, <1>14, <1>15

(* The three parts of what git adds.                                       *)
GitOwn(h) == <<Bind(h.common, h.common)>>
GitDirBinds(h) == EachOf(ProtectedDirs(h), LAMBDA p : RoBind(p, p))
FileSource(h, p) == IF p \in h.files THEN p ELSE EmptyFile
GitFileBinds(h) == EachOf(ProtectedFiles(h), LAMBDA p : RoBind(FileSource(h, p), p))

LEMMA GitParts ==
  ASSUME NEW h, GitUsable(h)
  PROVE  GitBinds(h) = GitOwn(h) \o GitDirBinds(h) \o GitFileBinds(h)
<1> DEFINE s == SetToSeq(ProtectedFiles(h))
<1>1. GitFileBinds(h) = [n \in 1..Len(s) |-> RoBind(FileSource(h, s[n]), s[n])]
  BY DEF GitFileBinds, EachOf
<1> QED BY <1>1 DEF GitBinds, GitOwn, GitDirBinds, FileSource, EachOf

LEMMA GitFileBindsIn ==
  ASSUME NEW h, Grounded(h), GitUsable(h), NEW K,
         \A p \in ProtectedFiles(h) : RoBind(FileSource(h, p), p) \in K
  PROVE  GitFileBinds(h) \in Seq(K)
<1> DEFINE s == SetToSeq(ProtectedFiles(h))
<1>1. GitFileBinds(h) = [n \in 1..Len(s) |-> RoBind(FileSource(h, s[n]), s[n])]
  BY DEF GitFileBinds, EachOf
<1>2. s \in Seq(ProtectedFiles(h))
  BY ProtectedFileFacts, SetSeq
<1> HIDE DEF s
<1>3. \A n \in 1..Len(s) : RoBind(FileSource(h, s[n]), s[n]) \in K
  BY <1>2
<1>4. Len(s) \in Nat
  BY <1>2
<1>5. [n \in 1..Len(s) |-> RoBind(FileSource(h, s[n]), s[n])] \in Seq(K)
  BY <1>3, <1>4, IsASeq
<1> QED BY <1>1, <1>5

LEMMA GitBindsIn ==
  ASSUME NEW h, Grounded(h), NEW K,
         GitUsable(h) =>
           /\ Bind(h.common, h.common) \in K
           /\ \A p \in ProtectedDirs(h) : RoBind(p, p) \in K
           /\ \A p \in ProtectedFiles(h) : RoBind(FileSource(h, p), p) \in K
  PROVE  GitBinds(h) \in Seq(K)
<1>1. CASE ~GitUsable(h)
  BY <1>1, EmptySeq DEF GitBinds
<1>2. CASE GitUsable(h)
  <2>1. GitOwn(h) \in Seq(K)
    BY <1>2 DEF GitOwn
  <2>2. GitDirBinds(h) \in Seq(K)
    BY <1>2, ProtectedDirFacts, EachBoundIn DEF GitDirBinds
  <2>3. GitFileBinds(h) \in Seq(K)
    BY <1>2, GitFileBindsIn
  <2>4. GitOwn(h) \o GitDirBinds(h) \in Seq(K)
    BY <2>1, <2>2, ConcatProperties
  <2> QED BY <1>2, <2>3, <2>4, GitParts, ConcatProperties
<1> QED BY <1>1, <1>2

LEMMA GitBindsGood ==
  ASSUME NEW h, Grounded(h)
  PROVE  GitBinds(h) \in Seq(GoodArg(h))
<1>1. ASSUME GitUsable(h)
      PROVE  /\ Bind(h.common, h.common) \in GoodArg(h)
             /\ \A p \in ProtectedDirs(h) : RoBind(p, p) \in GoodArg(h)
  BY <1>1, GitDirFacts, GrantedBound, ProtectedDirFacts, BindsAreGood
<1>2. ASSUME GitUsable(h), NEW p \in ProtectedFiles(h)
      PROVE  RoBind(FileSource(h, p), p) \in GoodArg(h)
  <2>1. p \in Paths
    BY <1>2, ProtectedFileFacts
  <2>2. CASE p \in h.files
    <3>1. Leads(h, p)
      BY <1>2, <2>2, ProtectedFileFacts
    <3> QED BY <2>1, <2>2, <3>1, BindsAreGood DEF FileSource
  <2>3. CASE p \notin h.files
    <3>1. EmptyFile \in GrantedNames(h) /\ EmptyFile \in Paths
      BY <1>2, PlacesAssumption DEF GrantedNames
    <3> QED BY <2>1, <2>3, <3>1, GrantedBound DEF FileSource
  <2> QED BY <2>2, <2>3
<1> QED BY <1>1, <1>2, GitBindsIn

LEMMA LateBindsGood ==
  ASSUME NEW h, Grounded(h)
  PROVE  SocketBind(h) \in Seq(GoodArg(h)) /\ BundleBind(h) \in Seq(GoodArg(h))
<1>1. ASSUME h.socket # NoPath PROVE <<RoBind(h.socket, h.socket)>> \in Seq(GoodArg(h))
  <2>1. h.socket \in GrantedNames(h) /\ h.socket \in Paths
    BY <1>1 DEF GrantedNames, Grounded
  <2>2. RoBind(h.socket, h.socket) \in GoodArg(h)
    BY <2>1, GrantedBound
  <2> QED BY <2>2
<1>2. ASSUME h.proxy PROVE <<RoBind(Bundle, Within(Tmp, "bundle"))>> \in Seq(GoodArg(h))
  <2>1. Bundle \in GrantedNames(h) /\ Bundle \in Paths
    BY <1>2, PlacesAssumption DEF GrantedNames
  <2>2. Within(Tmp, "bundle") \in Paths
    BY PlacesAssumption, OwnNamesAssumption, WithinIsPath
  <2>3. RoBind(Bundle, Within(Tmp, "bundle")) \in GoodArg(h)
    BY <2>1, <2>2, GrantedBound
  <2> QED BY <2>3
<1> QED BY <1>1, <1>2 DEF SocketBind, BundleBind

LEMMA ArgsGood ==
  ASSUME NEW h, Read(h), ~DeclaredRefused(h)
  PROVE  BwrapArgs(h) \in Seq(GoodArg(h))
<1> DEFINE a1 == StoreBinds(h)
           a2 == <<Tmpfs(Tmp), Tmpfs(Home)>>
           a3 == EachOf(GrantableRepoRoot(h), LAMBDA p : RoBind(p, p))
           a4 == <<Bind(h.workspace, h.workspace)>>
           a5 == DeclaredBinds(h, "rw", "dir")
           a6 == DeclaredBinds(h, "ro", "dir")
           a7 == DeclaredBinds(h, "rw", "file")
           a8 == DeclaredBinds(h, "ro", "file")
           a9 == ParentDirArgs(h)
           a10 == EachOf(StoreTargets(h, BoundPrefixes(h)), LAMBDA p : RoBind(p, p))
           a11 == EachOf(ParentSymlinks(h), LAMBDA l : Symlink(l.to, l.path))
           a12 == GitBinds(h)
           a13 == SocketBind(h)
           a14 == BundleBind(h)
<1>0. Grounded(h)
  BY DEF Read
<1>1. BwrapArgs(h) = a1 \o a2 \o a3 \o a4 \o a5 \o a6 \o a7 \o a8 \o a9 \o a10
                       \o a11 \o a12 \o a13 \o a14
  BY DEF BwrapArgs
<1>2. a2 \in Seq(GoodArg(h))
  <2>1. Tmpfs(Tmp) \in GoodArg(h) /\ Tmpfs(Home) \in GoodArg(h)
    BY PlacesAssumption, OthersAreGood
  <2> QED BY <2>1
<1>3. a4 \in Seq(GoodArg(h))
  <2>1. h.workspace \in GrantedNames(h) /\ h.workspace \in Paths
    BY <1>0 DEF GrantedNames, Grounded
  <2>2. Bind(h.workspace, h.workspace) \in GoodArg(h)
    BY <1>0, <2>1, GrantedBound
  <2> QED BY <2>2
<1>4. a10 \in Seq(GoodArg(h))
  BY StoreTargetFacts, EachBound
<1>5. /\ a1 \in Seq(GoodArg(h)) /\ a3 \in Seq(GoodArg(h))
      /\ a5 \in Seq(GoodArg(h)) /\ a6 \in Seq(GoodArg(h))
      /\ a7 \in Seq(GoodArg(h)) /\ a8 \in Seq(GoodArg(h))
      /\ a9 \in Seq(GoodArg(h)) /\ a11 \in Seq(GoodArg(h))
      /\ a12 \in Seq(GoodArg(h)) /\ a13 \in Seq(GoodArg(h)) /\ a14 \in Seq(GoodArg(h))
  BY <1>0, StoreBindsGood, RootGood, DeclaredBindsGood, ParentDirsGood, ParentSymlinksGood,
     GitBindsGood, LateBindsGood
<1> HIDE DEF a1, a2, a3, a4, a5, a6, a7, a8, a9, a10, a11, a12, a13, a14
<1>6. \A s, t \in Seq(GoodArg(h)) : s \o t \in Seq(GoodArg(h))
  BY ConcatProperties
<1>7. a1 \o a2 \o a3 \o a4 \in Seq(GoodArg(h))
  BY <1>2, <1>3, <1>5, <1>6
<1>8. a1 \o a2 \o a3 \o a4 \o a5 \o a6 \o a7 \o a8 \in Seq(GoodArg(h))
  BY <1>5, <1>6, <1>7
<1>9. a1 \o a2 \o a3 \o a4 \o a5 \o a6 \o a7 \o a8 \o a9 \o a10 \o a11 \in Seq(GoodArg(h))
  BY <1>4, <1>5, <1>6, <1>8
<1> QED BY <1>1, <1>5, <1>6, <1>9

-----------------------------------------------------------------------------
(* The inside, as bubblewrap makes it.                                     *)

FirstMount == [at |-> <<>>, src |-> NoPath, rw |-> TRUE]

GoodMount(h) ==
  {m \in [at : Paths, src : Paths \cup {NoPath}, rw : BOOLEAN] :
     m.src # NoPath => InPlace(h, m.src)}

(* Every argument still to apply binds what was granted, and every mount   *)
(* so far shows it.                                                        *)
BindsInv ==
  /\ status \in {"reading", "checking"} =>
       args = <<>> /\ mounts = <<FirstMount>> /\ made = {}
  /\ args \in Seq(GoodArg(host))
  /\ mounts \in Seq(GoodMount(host)) /\ mounts # <<>> /\ mounts[1].at = <<>>
  /\ \A e \in made : e.at \in Paths

Invariant == HostInv /\ BindsInv

LEMMA FirstMountGood ==
  ASSUME NEW h
  PROVE  <<FirstMount>> \in Seq(GoodMount(h))
<1>1. <<>> \in Paths
  BY EmptySeq DEF Paths
<1>2. FirstMount \in GoodMount(h)
  BY <1>1 DEF FirstMount, GoodMount
<1> QED BY <1>2

LEMMA ArgFacts ==
  ASSUME BindsInv, args # <<>>
  PROVE  /\ Arg \in GoodArg(host) /\ Tail(args) \in Seq(GoodArg(host))
         /\ Arg.at \in Paths /\ Along(Arg.at) \subseteq Paths /\ Parent(Arg.at) \in Paths
         /\ Along(Parent(Arg.at)) \subseteq Paths
<1>1. Arg \in GoodArg(host) /\ Tail(args) \in Seq(GoodArg(host))
  BY HeadTailProperties DEF BindsInv, Arg
<1>2. Arg.at \in Paths
  BY <1>1 DEF GoodArg, Arguments
<1>3. \A p \in Paths : Along(p) \subseteq Paths
  <2> TAKE p \in Paths
  <2>1. \A k \in 1..Len(p) : k \in 0..Len(p)
    BY DEF Paths
  <2> QED BY <2>1, PrefixAbove DEF Along
<1>4. Parent(Arg.at) \in Paths
  <2>1. PICK p \in Paths, n \in Nat : p = Arg.at /\ n = Len(p)
    BY <1>2 DEF Paths
  <2>2. SubSeq(p, 1, n - 1) \in Paths
    <3>1. \A i \in 1..(n - 1) : p[i] \in FileNames
      BY <2>1 DEF Paths
    <3> QED BY <3>1, SubSeqProperties DEF Paths
  <2> QED BY <2>1, <2>2 DEF Parent, Front
<1> QED BY <1>1, <1>2, <1>3, <1>4

LEMMA MountKeeps ==
  ASSUME Invariant, Mount
  PROVE  BindsInv'
<1>1. /\ status = "mounting" /\ args # <<>> /\ CanMount /\ args' = Tail(args)
      /\ UNCHANGED <<host, status>>
  BY DEF Mount
<1> DEFINE src == IF Arg.op = "tmpfs" THEN NoPath ELSE Landing(Arg.src, host.links)
           mount == [at |-> Arg.at, rw |-> Arg.rw, src |-> src]
<1>2. mounts' = Append(mounts, mount) /\ made' = made \cup Created(Arg.at)
  BY DEF Mount
<1>3. /\ Arg \in GoodArg(host) /\ Tail(args) \in Seq(GoodArg(host))
      /\ Arg.at \in Paths /\ Along(Arg.at) \subseteq Paths
  BY <1>1, ArgFacts DEF Invariant
<1>4. mount \in GoodMount(host)
  <2>1. Arg.at \in Paths /\ Arg.rw \in BOOLEAN
    BY <1>3 DEF GoodArg, Arguments
  <2>2. CASE Arg.op = "tmpfs"
    BY <2>1, <2>2 DEF GoodMount
  <2>3. CASE Arg.op = "bind"
    <3>1. Arg.src \in Paths /\ Leads(host, Arg.src) /\ src = Landing(Arg.src, host.links)
      BY <1>3, <2>3 DEF GoodArg, Arguments
    <3>2. src \in Paths
      BY <3>1, LandingIsPath, HostFacts DEF Invariant, Grounded
    <3>3. InPlace(host, src)
      BY <3>1 DEF Leads
    <3> HIDE DEF src
    <3> QED BY <2>1, <3>2, <3>3 DEF GoodMount
  <2> QED BY <1>1, <2>2, <2>3 DEF CanMount
<1> HIDE DEF mount
<1>5. /\ mounts' \in Seq(GoodMount(host)) /\ mounts' # <<>> /\ mounts'[1] = mounts[1]
  <2>1. mounts \in Seq(GoodMount(host)) /\ 1 \in 1..Len(mounts)
    BY EmptySeq DEF Invariant, BindsInv
  <2> QED BY <1>2, <1>4, <2>1, AppendProperties
<1>6. \A e \in Created(Arg.at) : e.at \in Paths
  BY <1>3 DEF Created, Missing
<1>7. /\ mounts[1].at = <<>> /\ \A e \in made : e.at \in Paths
  BY DEF Invariant, BindsInv
<1>8. /\ status' = "mounting" /\ host' = host
      /\ args' \in Seq(GoodArg(host))
      /\ mounts'[1].at = <<>>
      /\ \A e \in made' : e.at \in Paths
  BY <1>1, <1>2, <1>3, <1>5, <1>6, <1>7
<1> QED BY <1>5, <1>8 DEF BindsInv

LEMMA CreateKeeps ==
  ASSUME Invariant, Create
  PROVE  BindsInv'
<1>1. /\ status = "mounting" /\ args # <<>> /\ args' = Tail(args)
      /\ UNCHANGED <<host, status, mounts>>
      /\ made' = made \cup
           (IF Arg.op = "dir" THEN Created(Arg.at)
            ELSE Created(Parent(Arg.at)) \cup
                   {[mount |-> Holder(Arg.at), at |-> Arg.at, to |-> Arg.src]})
  BY DEF Create
<1>2. /\ Tail(args) \in Seq(GoodArg(host))
      /\ Arg.at \in Paths /\ Along(Arg.at) \subseteq Paths
      /\ Along(Parent(Arg.at)) \subseteq Paths
  BY <1>1, ArgFacts DEF Invariant
<1>3. /\ \A e \in Created(Arg.at) : e.at \in Paths
      /\ \A e \in Created(Parent(Arg.at)) : e.at \in Paths
  BY <1>2 DEF Created, Missing
<1>4. \A e \in made' : e.at \in Paths
  <2>1. \A e \in made : e.at \in Paths
    BY DEF Invariant, BindsInv
  <2> QED BY <1>1, <1>2, <1>3, <2>1
<1> QED BY <1>1, <1>2, <1>4 DEF Invariant, BindsInv

LEMMA InvariantHolds == Spec => []Invariant
<1>1. Init => Invariant
  <2> SUFFICES ASSUME Init PROVE Invariant
    OBVIOUS
  <2>1. args = <<>> /\ mounts = <<FirstMount>> /\ made = {} /\ status = "reading"
    BY DEF Init, FirstMount
  <2>2. mounts[1].at = <<>> /\ mounts # <<>>
    BY <2>1 DEF FirstMount
  <2>3. HostInv
    BY DEF Init, HostInv
  <2> QED BY <2>1, <2>2, <2>3, FirstMountGood DEF Invariant, BindsInv
<1>2. Invariant /\ [Next]_vars => Invariant'
  <2> SUFFICES ASSUME Invariant, [Next]_vars PROVE Invariant'
    OBVIOUS
  <2>1. CASE ReadHost
    <3>1. PICK h \in Hosts : host = h
      BY <2>1 DEF Invariant, HostInv, ReadHost
    <3>2. /\ host' = [h EXCEPT !.declared = ReadAll(h)] /\ status' = "checking"
          /\ UNCHANGED <<args, mounts, made>>
      BY <2>1, <3>1 DEF ReadHost
    <3>3. /\ args = <<>> /\ mounts = <<FirstMount>> /\ made = {}
          /\ mounts # <<>> /\ mounts[1].at = <<>>
      BY <2>1 DEF Invariant, BindsInv, ReadHost
    <3>4. BindsInv'
      BY <3>2, <3>3, FirstMountGood DEF BindsInv
    <3> QED BY <3>2, <3>4 DEF Invariant, HostInv
  <2>2. ASSUME NEW answers \in Answers, NEW filter \in BOOLEAN, Refuse(answers, filter)
        PROVE  Invariant'
    BY <2>2 DEF Invariant, HostInv, BindsInv, Refuse
  <2>3. ASSUME NEW answers \in Answers, NEW filter \in BOOLEAN, Compute(answers, filter)
        PROVE  Invariant'
    <3>1. /\ status = "checking" /\ ~DeclaredRefused(host) /\ status' = "mounting"
          /\ args' = BwrapArgs(host) /\ UNCHANGED <<host, mounts, made>>
      BY <2>3 DEF Compute, Refused, LaunchRefused
    <3>2. Read(host)
      BY <3>1, HostFacts DEF Invariant, Read
    <3>3. args' \in Seq(GoodArg(host))
      BY <3>1, <3>2, ArgsGood
    <3> QED BY <3>1, <3>3 DEF Invariant, HostInv, BindsInv
  <2>4. CASE Mount
    BY <2>4, MountKeeps DEF Invariant, HostInv, Mount
  <2>5. CASE Create
    BY <2>5, CreateKeeps DEF Invariant, HostInv, Create
  <2>6. CASE Die
    BY <2>6 DEF Invariant, HostInv, BindsInv, Die
  <2>7. CASE Start
    BY <2>7 DEF Invariant, HostInv, BindsInv, Start
  <2>8. CASE UNCHANGED vars
    BY <2>8 DEF Invariant, HostInv, BindsInv, vars
  <2> QED BY <2>1, <2>2, <2>3, <2>4, <2>5, <2>6, <2>7, <2>8 DEF Next
<1> QED BY <1>1, <1>2, PTL DEF Spec

(* Some mount holds each path: the first is at "/".                        *)
LEMMA HolderIsMount ==
  ASSUME BindsInv, NEW p \in Paths
  PROVE  /\ Holder(p) \in 1..Len(mounts) /\ Under(p, mounts[Holder(p)].at)
         /\ \A k \in 1..Len(mounts) : Under(p, mounts[k].at) => k <= Holder(p)
<1> DEFINE at == {k \in 1..Len(mounts) : Under(p, mounts[k].at)}
<1>1. PICK N \in Nat : N = Len(mounts) /\ N # 0 /\ mounts[1].at = <<>>
  BY EmptySeq DEF BindsInv
<1>2. Under(p, <<>>)
  <2>1. <<>> \in Paths /\ Len(<<>>) = 0 /\ Len(p) \in Nat
    BY EmptySeq DEF Paths
  <2> QED BY <2>1, UnderMeans
<1>3. at \in SUBSET (1..N) /\ 1 \in at
  BY <1>1, <1>2
<1>4. PICK n \in at : \A m \in at : n >= m
  <2> HIDE DEF at
  <2> QED BY <1>3, GreatestExists
<1>5. n \in at /\ \A k \in 1..Len(mounts) : Under(p, mounts[k].at) => k <= n
  <2>1. n \in 1..N
    BY <1>3, <1>4
  <2>2. \A k \in 1..N : k \in at => k <= n
    BY <1>4, <2>1
  <2> QED BY <1>1, <1>4, <2>2
<1>6. Holder(p) = CHOOSE k \in at : \A j \in 1..Len(mounts) : Under(p, mounts[j].at) => j <= k
  BY DEF Holder
<1>7. Holder(p) \in at /\ \A k \in 1..Len(mounts) : Under(p, mounts[k].at) => k <= Holder(p)
  <2> HIDE DEF at
  <2> QED BY <1>5, <1>6
<1> QED BY <1>7

(* What a path inside shows is under the source of its mount.              *)
LEMMA ShowsInPlace ==
  ASSUME BindsInv, NEW p \in Paths, Shows(p) # NoPath, Grounded(host)
  PROVE  InPlace(host, Shows(p))
<1> DEFINE m == mounts[Holder(p)]
           rest == SubSeq(p, Len(m.at) + 1, Len(p))
<1>1. m \in GoodMount(host) /\ Under(p, m.at)
  BY HolderIsMount DEF BindsInv
<1>2. m.src # NoPath /\ Shows(p) = m.src \o rest
  BY DEF Shows
<1>3. m.src \in Paths /\ m.at \in Paths /\ InPlace(host, m.src)
  BY <1>1, <1>2 DEF GoodMount
<1>4. rest \in Paths
  <2>1. PICK a \in Nat, b \in Nat : a = Len(m.at) /\ b = Len(p)
    BY <1>3 DEF Paths
  <2>2. \A i \in (a + 1)..b : p[i] \in FileNames
    BY <2>1 DEF Paths
  <2>3. SubSeq(p, a + 1, b) \in Seq(FileNames)
    BY <2>2, SubSeqProperties
  <2> QED BY <2>1, <2>3 DEF Paths
<1> HIDE DEF m, rest
<1>5. Shows(p) \in Paths /\ Under(Shows(p), m.src)
  <2>1. PICK s \in Paths, n \in Nat : s = m.src /\ n = Len(s)
    BY <1>3 DEF Paths
  <2> DEFINE t == s \o rest
  <2>2. PICK k \in Nat : k = Len(rest)
    BY <1>4 DEF Paths
  <2>3. /\ t \in Paths /\ Len(t) = n + k
        /\ \A i \in 1..(n + k) : t[i] = IF i <= n THEN s[i] ELSE rest[i - n]
    BY <1>4, <2>1, <2>2, ConcatProperties DEF Paths
  <2>4. t = Shows(p)
    BY <1>2, <2>1
  <2> HIDE DEF t
  <2>5. \A i \in 1..n : t[i] = s[i]
    BY <2>3
  <2>6. Under(t, s)
    BY <2>1, <2>3, <2>5, UnderMeans
  <2> QED BY <2>1, <2>3, <2>4, <2>6
<1>6. PICK g \in GrantedNames(host) : g \in Paths /\ Under(m.src, Landing(g, host.links))
  BY <1>3 DEF InPlace
<1>7. Landing(g, host.links) \in Paths
  BY <1>6, LandingIsPath DEF Grounded
<1> QED BY <1>3, <1>5, <1>6, <1>7, UnderUnder DEF InPlace

LEMMA NamesArePaths ==
  ASSUME BindsInv, Grounded(host)
  PROVE  Names \subseteq Paths
<1> DEFINE real == host.dirs \cup host.files \cup DOMAIN host.links
           shown(m) == IF m.src = NoPath THEN {}
                       ELSE {m.at \o SubSeq(p, Len(m.src) + 1, Len(p)) :
                               p \in {q \in real : Under(q, m.src)}}
           all == real \cup {e.at : e \in made}
                    \cup UNION {shown(mounts[n]) \cup {mounts[n].at} : n \in 1..Len(mounts)}
<1>1. Names = UNION {Along(p) : p \in all}
  BY DEF Names
<1>2. real \subseteq Paths
  BY DEF Grounded
<1>3. ASSUME NEW m \in GoodMount(host) PROVE m.at \in Paths /\ shown(m) \subseteq Paths
  <2>1. m.at \in Paths /\ (m.src # NoPath => m.src \in Paths)
    BY DEF GoodMount
  <2>2. ASSUME m.src # NoPath, NEW p \in Paths
        PROVE  m.at \o SubSeq(p, Len(m.src) + 1, Len(p)) \in Paths
    <3>1. PICK a \in Nat, b \in Nat : a = Len(m.src) /\ b = Len(p)
      BY <2>1, <2>2 DEF Paths
    <3>2. \A i \in (a + 1)..b : p[i] \in FileNames
      BY <3>1 DEF Paths
    <3>3. SubSeq(p, a + 1, b) \in Seq(FileNames)
      BY <3>2, SubSeqProperties
    <3>4. m.at \o SubSeq(p, a + 1, b) \in Seq(FileNames)
      BY <2>1, <3>3, ConcatProperties DEF Paths
    <3> QED BY <3>1, <3>4 DEF Paths
  <2> QED BY <1>2, <2>1, <2>2
<1>4. \A n \in 1..Len(mounts) : mounts[n] \in GoodMount(host)
  BY DEF BindsInv
<1>5. all \subseteq Paths
  <2> HIDE DEF shown, real
  <2>1. \A e \in made : e.at \in Paths
    BY DEF BindsInv
  <2>2. \A n \in 1..Len(mounts) : shown(mounts[n]) \cup {mounts[n].at} \subseteq Paths
    BY <1>3, <1>4
  <2>3. UNION {shown(mounts[n]) \cup {mounts[n].at} : n \in 1..Len(mounts)} \subseteq Paths
    BY <2>2
  <2>4. {e.at : e \in made} \subseteq Paths
    BY <2>1
  <2> DEFINE inside == UNION {shown(mounts[n]) \cup {mounts[n].at} : n \in 1..Len(mounts)}
  <2> QED BY <1>2, <2>3, <2>4
<1>6. \A p \in Paths : Along(p) \subseteq Paths
  <2> TAKE p \in Paths
  <2>1. \A k \in 1..Len(p) : k \in 0..Len(p)
    BY DEF Paths
  <2> QED BY <2>1, PrefixAbove DEF Along
<1> HIDE DEF all
<1> QED BY <1>1, <1>5, <1>6

(* Whatever a program inside comes upon, what it shows of the host lies    *)
(* where something that was granted leads: a link followed while binding   *)
(* exposes no more than its own landing (BwrapArgs, Mount).  Granted with  *)
(* a repository are the .git files its core.worktree settings lead to, in  *)
(* or out of everything else (SubmoduleDotGit).                            *)
THEOREM AlwaysOnlyGranted == Spec => []OnlyGranted
<1>1. ASSUME Invariant PROVE OnlyGranted
  <2> SUFFICES ASSUME NEW p \in Shown
               PROVE  \E place \in {Landing(g, host.links) : g \in GrantedNames(host)} :
                        Under(Shows(p), place)
    BY DEF OnlyGranted
  <2>1. p \in Names /\ Shows(p) # NoPath
    BY DEF Shown
  <2>2. p \in Paths /\ Grounded(host) /\ BindsInv
    BY <1>1, <2>1, HostFacts, NamesArePaths DEF Invariant
  <2>3. InPlace(host, Shows(p))
    BY <2>1, <2>2, ShowsInPlace
  <2> QED BY <2>3 DEF InPlace
<1>2. Invariant => OnlyGranted
  BY <1>1
<1> QED BY <1>2, InvariantHolds, PTL

-----------------------------------------------------------------------------
(* The argument that has the last word on a path: the last of those that   *)
(* mount at or above it.                                                   *)

IsMount(a) == a.op \in {"bind", "tmpfs"}
Covers(a, p) == IsMount(a) /\ Under(p, a.at)
Over(s, p) == {n \in 1..Len(s) : Covers(s[n], p)}
LastOver(s, p, n) == n \in Over(s, p) /\ \A m \in Over(s, p) : m <= n

(* It is one of G; and the arguments that cannot make it another.          *)
Ends(s, p, G) == \E n \in Over(s, p) : LastOver(s, p, n) /\ s[n] \in G
Keeping(p, G) == {a \in Arguments : Covers(a, p) => a \in G}

LEMMA EndsKeeping ==
  ASSUME NEW p, NEW G, NEW s \in Seq(Keeping(p, G)), NEW a \in In(s), Covers(a, p)
  PROVE  Ends(s, p, G)
<1>1. PICK N \in Nat : N = Len(s)
  OBVIOUS
<1>2. PICK k \in 1..N : s[k] = a
  BY <1>1 DEF In
<1>3. Over(s, p) \in SUBSET (1..N) /\ Over(s, p) # {}
  BY <1>1, <1>2 DEF Over
<1>4. PICK n \in Over(s, p) : \A m \in Over(s, p) : n >= m
  BY <1>3, GreatestExists
<1>5. n \in 1..N /\ Covers(s[n], p) /\ \A m \in Over(s, p) : m \in 1..N /\ m <= n
  BY <1>1, <1>4 DEF Over
<1>6. s[n] \in Keeping(p, G)
  BY <1>1, <1>5
<1> QED BY <1>4, <1>5, <1>6 DEF Ends, LastOver, Keeping

LEMMA EndsLater ==
  ASSUME NEW X, NEW s \in Seq(X), NEW t \in Seq(X), NEW p, NEW G, Ends(t, p, G)
  PROVE  Ends(s \o t, p, G)
<1> DEFINE u == s \o t
<1>1. PICK m \in Nat, k \in Nat : m = Len(s) /\ k = Len(t)
  OBVIOUS
<1>2. /\ u \in Seq(X) /\ Len(u) = m + k
      /\ \A i \in 1..(m + k) : u[i] = IF i <= m THEN s[i] ELSE t[i - m]
  BY <1>1, ConcatProperties
<1> HIDE DEF u
<1>3. PICK n \in 1..k : Covers(t[n], p) /\ t[n] \in G /\ \A i \in Over(t, p) : i <= n
  BY <1>1 DEF Ends, LastOver, Over
<1>4. m + n \in 1..(m + k) /\ u[m + n] = t[n]
  <2>1. m + n \in 1..(m + k) /\ ~(m + n <= m) /\ (m + n) - m = n
    OBVIOUS
  <2> QED BY <1>2, <2>1
<1>5. ASSUME NEW i \in 1..(m + k), Covers(u[i], p)
      PROVE  i <= m + n
  <2>1. CASE i <= m
    BY <2>1
  <2>2. CASE ~(i <= m)
    <3>1. i - m \in 1..k /\ u[i] = t[i - m]
      BY <1>2, <2>2
    <3>2. i - m \in Over(t, p)
      BY <1>1, <1>5, <3>1 DEF Over
    <3>3. i - m <= n
      BY <1>3, <3>2
    <3> QED BY <3>1, <3>3
  <2> QED BY <2>1, <2>2
<1>6. m + n \in Over(u, p) /\ \A i \in Over(u, p) : i <= m + n
  BY <1>2, <1>3, <1>4, <1>5 DEF Over
<1> QED BY <1>3, <1>4, <1>6 DEF Ends, LastOver, u

LEMMA EndsKept ==
  ASSUME NEW p, NEW G, NEW s \in Seq(Arguments), NEW t \in Seq(Keeping(p, G)), Ends(s, p, G)
  PROVE  Ends(s \o t, p, G)
<1>0. t \in Seq(Arguments)
  <2>1. Keeping(p, G) \subseteq Arguments
    BY DEF Keeping
  <2> QED BY <2>1, SeqMonotonic
<1>1. CASE Over(t, p) # {}
  <2>1. PICK a \in In(t) : Covers(a, p)
    BY <1>1 DEF Over, In
  <2>2. Ends(t, p, G)
    BY <2>1, EndsKeeping
  <2> QED BY <1>0, <2>2, EndsLater
<1>2. CASE Over(t, p) = {}
  <2> DEFINE u == s \o t
  <2>1. PICK m \in Nat, k \in Nat : m = Len(s) /\ k = Len(t)
    OBVIOUS
  <2>2. /\ u \in Seq(Arguments) /\ Len(u) = m + k
        /\ \A i \in 1..(m + k) : u[i] = IF i <= m THEN s[i] ELSE t[i - m]
    BY <1>0, <2>1, ConcatProperties
  <2> HIDE DEF u
  <2>3. PICK n \in 1..m : Covers(s[n], p) /\ s[n] \in G /\ \A i \in Over(s, p) : i <= n
    BY <2>1 DEF Ends, LastOver, Over
  <2>4. ASSUME NEW i \in 1..(m + k), Covers(u[i], p)
        PROVE  i <= n
    <3>1. CASE i <= m
      <4>1. i \in 1..m /\ u[i] = s[i]
        BY <2>2, <3>1
      <4>2. i \in Over(s, p)
        BY <2>1, <2>4, <4>1 DEF Over
      <4> QED BY <2>3, <4>2
    <3>2. CASE ~(i <= m)
      <4>1. i - m \in 1..k /\ u[i] = t[i - m]
        BY <2>2, <3>2
      <4>2. i - m \in Over(t, p)
        BY <2>1, <2>4, <4>1 DEF Over
      <4> QED BY <1>2, <4>2
    <3> QED BY <3>1, <3>2
  <2>5. n \in 1..(m + k) /\ u[n] = s[n]
    BY <2>2, <2>3
  <2>6. n \in Over(u, p) /\ \A i \in Over(u, p) : i <= n
    BY <2>2, <2>3, <2>4, <2>5 DEF Over
  <2> QED BY <2>3, <2>5, <2>6 DEF Ends, LastOver, u
<1> QED BY <1>1, <1>2

-----------------------------------------------------------------------------
(* The mount that holds a path is that of the argument with the last word. *)

MountOf(h, a) ==
  [at |-> a.at, rw |-> a.rw,
   src |-> IF a.op = "tmpfs" THEN NoPath ELSE Landing(a.src, h.links)]

HolderIn(ms, p) ==
  CHOOSE n \in {k \in 1..Len(ms) : Under(p, ms[k].at)} :
    \A k \in 1..Len(ms) : Under(p, ms[k].at) => k <= n

Applied(h, ms, done) ==
  \A p \in Paths : \A n \in 1..Len(done) :
    LastOver(done, p, n) =>
      /\ ms[HolderIn(ms, p)] = MountOf(h, done[n])
      /\ done[n].op = "bind" => Exists(h, done[n].src)

HeldInv ==
  status \in {"mounting", "running"} =>
    /\ ~DeclaredRefused(host) /\ IsDir(host, host.workspace)
    /\ status = "running" => args = <<>>
    /\ \E done \in Seq(Arguments) :
         BwrapArgs(host) = done \o args /\ Applied(host, mounts, done)

LEMMA HolderUnique ==
  ASSUME NEW ms, NEW p, NEW n \in 1..Len(ms), Under(p, ms[n].at), Len(ms) \in Nat,
         \A k \in 1..Len(ms) : Under(p, ms[k].at) => k <= n
  PROVE  HolderIn(ms, p) = n
<1> DEFINE at == {k \in 1..Len(ms) : Under(p, ms[k].at)}
           Latest(k) == \A j \in 1..Len(ms) : Under(p, ms[j].at) => j <= k
<1>1. n \in at /\ Latest(n)
  OBVIOUS
<1>2. \A k \in at : Latest(k) => k = n
  <2> TAKE k \in at
  <2>1. k \in 1..Len(ms) /\ k <= n
    OBVIOUS
  <2>2. Latest(k) => n <= k
    OBVIOUS
  <2> QED BY <2>1, <2>2
<1>3. HolderIn(ms, p) = CHOOSE k \in at : Latest(k)
  BY DEF HolderIn
<1> HIDE DEF at, Latest
<1> QED BY <1>1, <1>2, <1>3

(* One more mount, and one more argument applied.                          *)
LEMMA OneMore ==
  ASSUME NEW h, NEW M, NEW ms \in Seq(M), NEW done \in Seq(Arguments), NEW a \in Arguments,
         \A p \in Paths : HolderIn(ms, p) \in 1..Len(ms) /\ Under(p, ms[HolderIn(ms, p)].at)
                            /\ \A k \in 1..Len(ms) : Under(p, ms[k].at) => k <= HolderIn(ms, p),
         MountOf(h, a) \in M, IsMount(a), a.op = "bind" => Exists(h, a.src),
         Applied(h, ms, done)
  PROVE  Applied(h, Append(ms, MountOf(h, a)), Append(done, a))
<1> DEFINE m == MountOf(h, a)
           more == Append(ms, m)
           now == Append(done, a)
<1>1. PICK K \in Nat, L \in Nat : K = Len(ms) /\ L = Len(done)
  OBVIOUS
<1>2. /\ more \in Seq(M) /\ Len(more) = K + 1 /\ more[K + 1] = m
      /\ \A k \in 1..K : more[k] = ms[k]
  BY <1>1, AppendProperties
<1>3. /\ now \in Seq(Arguments) /\ Len(now) = L + 1 /\ now[L + 1] = a
      /\ \A k \in 1..L : now[k] = done[k]
  BY <1>1, AppendProperties
<1>4. m.at = a.at
  BY DEF MountOf
<1> HIDE DEF m, more, now
<1> SUFFICES ASSUME NEW p \in Paths, NEW n \in 1..(L + 1), LastOver(now, p, n)
             PROVE  /\ more[HolderIn(more, p)] = MountOf(h, now[n])
                    /\ now[n].op = "bind" => Exists(h, now[n].src)
  BY <1>3 DEF Applied, more, now, m
<1>5. Covers(now[n], p) /\ \A k \in 1..(L + 1) : Covers(now[k], p) => k <= n
  BY <1>3 DEF LastOver, Over
<1>6. CASE Under(p, a.at)
  <2>1. n = L + 1
    <3>1. Covers(now[L + 1], p) /\ L + 1 \in 1..(L + 1)
      BY <1>3, <1>6 DEF Covers
    <3>2. L + 1 <= n
      BY <1>5, <3>1
    <3> QED BY <3>2
  <2>2. HolderIn(more, p) = K + 1
    <3>1. K + 1 \in 1..Len(more) /\ Under(p, more[K + 1].at) /\ Len(more) \in Nat
      BY <1>2, <1>4, <1>6
    <3>2. \A k \in 1..Len(more) : k <= K + 1
      BY <1>2
    <3> QED BY <3>1, <3>2, HolderUnique
  <2> QED BY <1>2, <1>3, <2>1, <2>2 DEF m
<1>7. CASE ~Under(p, a.at)
  <2>1. n \in 1..L /\ now[n] = done[n]
    <3>1. n # L + 1
      BY <1>3, <1>5, <1>7 DEF Covers
    <3> QED BY <1>3, <3>1
  <2>2. LastOver(done, p, n)
    <3>1. n \in Over(done, p)
      BY <1>1, <1>5, <2>1 DEF Over
    <3>2. ASSUME NEW k \in Over(done, p) PROVE k <= n
      <4>1. k \in 1..L /\ Covers(done[k], p)
        BY <1>1, <3>2 DEF Over
      <4>2. k \in 1..(L + 1) /\ now[k] = done[k]
        BY <1>3, <4>1
      <4> QED BY <1>5, <4>1, <4>2
    <3> QED BY <3>1, <3>2 DEF LastOver
  <2>3. /\ ms[HolderIn(ms, p)] = MountOf(h, done[n])
        /\ done[n].op = "bind" => Exists(h, done[n].src)
    BY <1>1, <2>1, <2>2 DEF Applied
  <2>4. PICK j \in 1..K : j = HolderIn(ms, p) /\ Under(p, ms[j].at)
                            /\ \A k \in 1..K : Under(p, ms[k].at) => k <= j
    BY <1>1
  <2>5. HolderIn(more, p) = j
    <3>1. j \in 1..Len(more) /\ Under(p, more[j].at) /\ Len(more) \in Nat
      BY <1>2, <2>4
    <3>2. ASSUME NEW k \in 1..Len(more), Under(p, more[k].at) PROVE k <= j
      <4>1. k # K + 1
        BY <1>2, <1>4, <1>7, <3>2
      <4>2. k \in 1..K /\ more[k] = ms[k]
        BY <1>2, <4>1
      <4> QED BY <2>4, <3>2, <4>2
    <3> QED BY <3>1, <3>2, HolderUnique
  <2> QED BY <1>2, <2>1, <2>3, <2>4, <2>5
<1> QED BY <1>6, <1>7

HeldInvariant == Invariant /\ HeldInv

LEMMA HeldCompute ==
  ASSUME Invariant, NEW answers, NEW filter, Compute(answers, filter)
  PROVE  HeldInv'
<1>1. /\ status = "checking" /\ status' = "mounting" /\ ~LaunchRefused(host, answers)
      /\ args' = BwrapArgs(host) /\ host' = host
  BY DEF Compute, Refused
<1>2. ~DeclaredRefused(host) /\ IsDir(host, host.workspace)
  BY <1>1 DEF LaunchRefused, WorkspaceRefused
<1>3. BwrapArgs(host) \in Seq(GoodArg(host))
  BY <1>1, <1>2, HostFacts, ArgsGood DEF Invariant, Read
<1>4. /\ <<>> \in Seq(Arguments) /\ BwrapArgs(host) = <<>> \o args'
      /\ Applied(host, mounts', <<>>)
  BY <1>1, <1>3, EmptySeq, ConcatEmptySeq DEF Applied
<1> QED BY <1>1, <1>2, <1>4 DEF HeldInv

(* One more argument is applied.                                           *)
LEMMA OneApplied ==
  ASSUME BindsInv, args # <<>>, NEW done \in Seq(Arguments), BwrapArgs(host) = done \o args
  PROVE  /\ Arg \in Arguments /\ Append(done, Arg) \in Seq(Arguments)
         /\ BwrapArgs(host) = Append(done, Arg) \o Tail(args)
         /\ Len(BwrapArgs(host)) \in Nat /\ Len(done) + 1 \in 1..Len(BwrapArgs(host))
         /\ BwrapArgs(host)[Len(done) + 1] = Arg
         /\ \A i \in 1..Len(done) : BwrapArgs(host)[i] = done[i]
<1>1. PICK a \in Arguments, rest \in Seq(Arguments) :
        a = Arg /\ rest = Tail(args) /\ args = <<a>> \o rest
  <2>1. args \in Seq(Arguments)
    <3>1. args \in Seq(GoodArg(host)) /\ GoodArg(host) \subseteq Arguments
      BY DEF BindsInv, GoodArg
    <3> QED BY <3>1, SeqMonotonic
  <2>2. PICK s \in Seq(Arguments) : s = args
    BY <2>1
  <2>3. Head(s) \in Arguments /\ Tail(s) \in Seq(Arguments)
    BY <2>2, HeadTailProperties
  <2>4. s = <<Head(s)>> \o Tail(s)
    BY <2>2
  <2> QED BY <2>2, <2>3, <2>4 DEF Arg
<1> DEFINE now == Append(done, a)
<1>2. now \in Seq(Arguments) /\ BwrapArgs(host) = now \o rest
  <2>1. now = done \o <<a>> /\ <<a>> \in Seq(Arguments)
    BY <1>1
  <2>2. (done \o <<a>>) \o rest = done \o (<<a>> \o rest)
    BY <2>1, ConcatAssociative
  <2> QED BY <1>1, <2>1, <2>2, ConcatProperties
<1>3. PICK n \in Nat, m \in Nat : n = Len(done) /\ m = Len(rest)
  <2>1. Len(done) \in Nat /\ Len(rest) \in Nat
    OBVIOUS
  <2> QED BY <2>1
<1>4. Len(now) = n + 1 /\ now[n + 1] = a /\ \A i \in 1..n : now[i] = done[i]
  BY <1>3, AppendProperties
<1> HIDE DEF now
<1>5. /\ Len(now \o rest) = n + 1 + m
      /\ \A i \in 1..(n + 1 + m) : (now \o rest)[i] = IF i <= n + 1 THEN now[i] ELSE rest[i - (n + 1)]
  <2>1. now \in Seq(Arguments) /\ rest \in Seq(Arguments)
    BY <1>1, <1>2
  <2>2. /\ Len(now \o rest) = Len(now) + Len(rest)
        /\ \A i \in 1..(Len(now) + Len(rest)) :
             (now \o rest)[i] = IF i <= Len(now) THEN now[i] ELSE rest[i - Len(now)]
    BY <2>1, ConcatProperties
  <2> QED BY <1>3, <1>4, <2>2
<1>6. n + 1 \in 1..(n + 1 + m) /\ (now \o rest)[n + 1] = a
  BY <1>4, <1>5
<1>7. \A i \in 1..n : (now \o rest)[i] = done[i]
  BY <1>4, <1>5
<1> QED BY <1>1, <1>2, <1>3, <1>5, <1>6, <1>7 DEF now

LEMMA HeldApply ==
  ASSUME HeldInvariant, status = "mounting", args # <<>>, args' = Tail(args),
         UNCHANGED <<host, status>>,
         \A done \in Seq(Arguments) :
           Applied(host, mounts, done) => Applied(host, mounts', Append(done, Arg))
  PROVE  HeldInv'
<1>1. PICK done \in Seq(Arguments) :
        BwrapArgs(host) = done \o args /\ Applied(host, mounts, done)
  BY DEF HeldInvariant, HeldInv
<1> DEFINE now == Append(done, Arg)
<1>2. now \in Seq(Arguments) /\ BwrapArgs(host) = now \o args'
  BY <1>1, OneApplied DEF HeldInvariant, Invariant
<1>3. Applied(host, mounts', now)
  BY <1>1
<1> HIDE DEF now
<1>4. ~DeclaredRefused(host) /\ IsDir(host, host.workspace)
  BY DEF HeldInvariant, HeldInv
<1> QED BY <1>2, <1>3, <1>4 DEF HeldInv

LEMMA HeldMount ==
  ASSUME HeldInvariant, Mount
  PROVE  HeldInv'
<1>1. /\ status = "mounting" /\ args # <<>> /\ CanMount /\ args' = Tail(args)
      /\ UNCHANGED <<host, status>> /\ mounts' = Append(mounts, MountOf(host, Arg))
  BY DEF Mount, MountOf
<1>2. Arg \in GoodArg(host) /\ Arg \in Arguments
  BY <1>1, ArgFacts DEF HeldInvariant, Invariant, GoodArg
<1>3. IsMount(Arg) /\ (Arg.op = "bind" => Exists(host, Arg.src))
  BY <1>1 DEF CanMount, IsMount
<1>4. \A p \in Paths :
        /\ HolderIn(mounts, p) \in 1..Len(mounts)
        /\ Under(p, mounts[HolderIn(mounts, p)].at)
        /\ \A k \in 1..Len(mounts) : Under(p, mounts[k].at) => k <= HolderIn(mounts, p)
  <2>1. \A p : HolderIn(mounts, p) = Holder(p)
    BY DEF HolderIn, Holder
  <2> QED BY <2>1, HolderIsMount DEF HeldInvariant, Invariant
<1> DEFINE M == GoodMount(host) \cup {MountOf(host, Arg)}
<1>5. mounts \in Seq(M) /\ MountOf(host, Arg) \in M
  <2>1. mounts \in Seq(GoodMount(host)) /\ GoodMount(host) \subseteq M
    BY DEF HeldInvariant, Invariant, BindsInv
  <2> HIDE DEF M
  <2>2. mounts \in Seq(M)
    BY <2>1, SeqMonotonic
  <2> QED BY <2>2 DEF M
<1> HIDE DEF M
<1>6. ASSUME NEW done \in Seq(Arguments), Applied(host, mounts, done)
      PROVE  Applied(host, mounts', Append(done, Arg))
  <2>1. Applied(host, Append(mounts, MountOf(host, Arg)), Append(done, Arg))
    BY <1>2, <1>3, <1>4, <1>5, <1>6, OneMore
  <2> QED BY <1>1, <2>1
<1> QED BY <1>1, <1>6, HeldApply

LEMMA HeldCreate ==
  ASSUME HeldInvariant, Create
  PROVE  HeldInv'
<1>1. /\ status = "mounting" /\ args # <<>> /\ args' = Tail(args)
      /\ UNCHANGED <<host, status, mounts>> /\ Arg.op \in {"dir", "symlink"}
  BY DEF Create, CanCreate
<1>2. Arg \in Arguments
  BY <1>1, ArgFacts DEF HeldInvariant, Invariant, GoodArg
<1>3. ASSUME NEW done \in Seq(Arguments), Applied(host, mounts, done)
      PROVE  Applied(host, mounts', Append(done, Arg))
  <2> DEFINE now == Append(done, Arg)
  <2>1. PICK L \in Nat : L = Len(done)
    OBVIOUS
  <2>2. /\ Len(now) = L + 1 /\ now[L + 1] = Arg
        /\ \A k \in 1..L : now[k] = done[k]
    BY <1>2, <2>1, AppendProperties
  <2> HIDE DEF now
  <2>3. ASSUME NEW p \in Paths, NEW n \in 1..Len(now), LastOver(now, p, n)
        PROVE  n \in 1..L /\ LastOver(done, p, n) /\ now[n] = done[n]
    <3>1. Covers(now[n], p) /\ \A k \in 1..(L + 1) : Covers(now[k], p) => k <= n
      BY <2>2, <2>3 DEF LastOver, Over
    <3>2. n # L + 1
      BY <1>1, <2>2, <3>1 DEF Covers, IsMount
    <3>3. n \in 1..L /\ now[n] = done[n]
      BY <2>2, <3>2
    <3>4. n \in Over(done, p)
      BY <2>1, <3>1, <3>3 DEF Over
    <3>5. ASSUME NEW k \in Over(done, p) PROVE k <= n
      <4>1. k \in 1..L /\ Covers(done[k], p)
        BY <2>1, <3>5 DEF Over
      <4>2. k \in 1..(L + 1) /\ now[k] = done[k]
        BY <2>2, <4>1
      <4> QED BY <3>1, <4>1, <4>2
    <3> QED BY <3>3, <3>4, <3>5 DEF LastOver
  <2>4. ASSUME NEW p \in Paths, NEW n \in 1..Len(now), LastOver(now, p, n)
        PROVE  /\ mounts[HolderIn(mounts, p)] = MountOf(host, now[n])
               /\ now[n].op = "bind" => Exists(host, now[n].src)
    BY <1>3, <2>1, <2>3, <2>4 DEF Applied
  <2>5. Applied(host, mounts, now)
    BY <2>4 DEF Applied
  <2> QED BY <1>1, <2>5 DEF now
<1> QED BY <1>1, <1>3, HeldApply

LEMMA HeldHolds == Spec => []HeldInvariant
<1>1. Init => HeldInv
  BY DEF Init, HeldInv
<1>2. Invariant /\ HeldInv /\ [Next]_vars => HeldInv'
  <2> SUFFICES ASSUME HeldInvariant, [Next]_vars PROVE HeldInv'
    BY DEF HeldInvariant
  <2>1. CASE ReadHost
    BY <2>1 DEF ReadHost, HeldInv
  <2>2. ASSUME NEW answers \in Answers, NEW filter \in BOOLEAN, Refuse(answers, filter)
        PROVE  HeldInv'
    BY <2>2 DEF Refuse, HeldInv
  <2>3. ASSUME NEW answers \in Answers, NEW filter \in BOOLEAN, Compute(answers, filter)
        PROVE  HeldInv'
    BY <2>3, HeldCompute DEF HeldInvariant
  <2>4. CASE Mount
    BY <2>4, HeldMount
  <2>5. CASE Create
    BY <2>5, HeldCreate
  <2>6. CASE Die
    BY <2>6 DEF Die, HeldInv
  <2>7. CASE Start
    BY <2>7 DEF Start, HeldInv, HeldInvariant
  <2>8. CASE UNCHANGED vars
    BY <2>8 DEF vars, HeldInv, HeldInvariant
  <2> QED BY <2>1, <2>2, <2>3, <2>4, <2>5, <2>6, <2>7, <2>8 DEF Next
<1> QED BY <1>1, <1>2, InvariantHolds, PTL DEF Spec, HeldInvariant

HeldIn(p, G) ==
  \E a \in G : /\ a \in Arguments /\ Covers(a, p)
               /\ mounts[Holder(p)] = MountOf(host, a)
               /\ a.op = "bind" => Exists(host, a.src)

(* In a session that runs, a name whose last argument is one of G is held  *)
(* by that argument's mount.                                               *)
LEMMA LastWord ==
  ASSUME HeldInvariant, status = "running", NEW p \in Paths, NEW G,
         Ends(BwrapArgs(host), p, G)
  PROVE  HeldIn(p, G)
<1>1. PICK done \in Seq(Arguments) :
        BwrapArgs(host) = done \o <<>> /\ Applied(host, mounts, done)
  BY DEF HeldInvariant, HeldInv
<1>2. BwrapArgs(host) = done
  BY <1>1, ConcatEmptySeq
<1>3. PICK n \in Over(done, p) : LastOver(done, p, n) /\ done[n] \in G
  BY <1>2 DEF Ends
<1>4. n \in 1..Len(done) /\ Covers(done[n], p) /\ done[n] \in Arguments
  BY <1>3 DEF Over
<1>5. HolderIn(mounts, p) = Holder(p)
  BY DEF HolderIn, Holder
<1> QED BY <1>1, <1>3, <1>4, <1>5 DEF Applied, HeldIn
-----------------------------------------------------------------------------
(* The arguments in their parts.                                           *)

Parts(h) ==
  <<StoreBinds(h),
    <<Tmpfs(Tmp), Tmpfs(Home)>>,
    EachOf(GrantableRepoRoot(h), LAMBDA p : RoBind(p, p)),
    <<Bind(h.workspace, h.workspace)>>,
    DeclaredBinds(h, "rw", "dir"),
    DeclaredBinds(h, "ro", "dir"),
    DeclaredBinds(h, "rw", "file"),
    DeclaredBinds(h, "ro", "file"),
    ParentDirArgs(h),
    EachOf(StoreTargets(h, BoundPrefixes(h)), LAMBDA p : RoBind(p, p)),
    EachOf(ParentSymlinks(h), LAMBDA l : Symlink(l.to, l.path)),
    GitBinds(h),
    SocketBind(h),
    BundleBind(h)>>

LEMMA PartsAre ==
  ASSUME NEW h
  PROVE  /\ Parts(h)[1] = StoreBinds(h)
         /\ Parts(h)[2] = <<Tmpfs(Tmp), Tmpfs(Home)>>
         /\ Parts(h)[3] = EachOf(GrantableRepoRoot(h), LAMBDA p : RoBind(p, p))
         /\ Parts(h)[4] = <<Bind(h.workspace, h.workspace)>>
         /\ Parts(h)[5] = DeclaredBinds(h, "rw", "dir")
         /\ Parts(h)[6] = DeclaredBinds(h, "ro", "dir")
         /\ Parts(h)[7] = DeclaredBinds(h, "rw", "file")
         /\ Parts(h)[8] = DeclaredBinds(h, "ro", "file")
         /\ Parts(h)[9] = ParentDirArgs(h)
         /\ Parts(h)[10] = EachOf(StoreTargets(h, BoundPrefixes(h)), LAMBDA p : RoBind(p, p))
         /\ Parts(h)[11] = EachOf(ParentSymlinks(h), LAMBDA l : Symlink(l.to, l.path))
         /\ Parts(h)[12] = GitBinds(h)
         /\ Parts(h)[13] = SocketBind(h)
         /\ Parts(h)[14] = BundleBind(h)
<1> DEFINE a3 == EachOf(GrantableRepoRoot(h), LAMBDA p : RoBind(p, p))
           a10 == EachOf(StoreTargets(h, BoundPrefixes(h)), LAMBDA p : RoBind(p, p))
           a11 == EachOf(ParentSymlinks(h), LAMBDA l : Symlink(l.to, l.path))
<1>1. Parts(h) =
        <<StoreBinds(h), <<Tmpfs(Tmp), Tmpfs(Home)>>, a3, <<Bind(h.workspace, h.workspace)>>,
          DeclaredBinds(h, "rw", "dir"), DeclaredBinds(h, "ro", "dir"),
          DeclaredBinds(h, "rw", "file"), DeclaredBinds(h, "ro", "file"),
          ParentDirArgs(h), a10, a11, GitBinds(h), SocketBind(h), BundleBind(h)>>
  BY DEF Parts
<1> HIDE DEF a3, a10, a11
<1> QED BY <1>1 DEF a3, a10, a11

RoBinds(S) == {RoBind(p, p) : p \in S}

(* A declared path adds a bind at its name, of it or of a landing.         *)
OfDeclared(d) ==
  {a \in Arguments :
     /\ a.op = "bind" /\ a.at = d.path /\ a.rw = (d.mode = "rw")
     /\ \/ a.src = d.path
        \/ d.hops # <<>> /\ a.src = Last(d.hops)}

AllDeclared(h, mode, kind) ==
  UNION {OfDeclared(d) : d \in {e \in DeclaredSet(h) : e.mode = mode /\ e.kind = kind}}

LEMMA BindsAreArguments ==
  ASSUME NEW src \in Paths, NEW at \in Paths
  PROVE  {Bind(src, at), RoBind(src, at), Tmpfs(at), MakeDir(at), Symlink(src, at)}
           \subseteq Arguments
BY DEF Bind, RoBind, Tmpfs, MakeDir, Symlink, Arguments

LEMMA DeclaredBindOf ==
  ASSUME NEW h, Read(h), NEW d \in DeclaredSet(h)
  PROVE  DeclaredBind(h, d) \in Seq(OfDeclared(d))
<1>1. Known(h, d)
  BY DeclaredFacts
<1>2. d.path \in Paths /\ d.mode \in {"rw", "ro"} /\ (d.hops # <<>> => Last(d.hops) \in Paths)
  BY <1>1, LastHopIsLanding DEF Known
<1> DEFINE bind(src) == IF d.mode = "rw" THEN Bind(src, d.path) ELSE RoBind(src, d.path)
<1>3. bind(d.path) \in OfDeclared(d)
  BY <1>2 DEF OfDeclared, Bind, RoBind, Arguments
<1>4. d.hops # <<>> => bind(Last(d.hops)) \in OfDeclared(d)
  BY <1>2 DEF OfDeclared, Bind, RoBind, Arguments
<1>5. DeclaredBind(h, d) =
        CASE d.hops = <<>> -> <<bind(d.path)>>
          [] d.hops # <<>> /\ AlreadyBound(Parent(d.path), BoundPrefixes(h)) -> <<>>
          [] d.hops # <<>> /\ d.kind = "dir"
               /\ ~AlreadyBound(Parent(d.path), BoundPrefixes(h)) -> <<bind(d.path)>>
          [] OTHER -> IF StrictlyUnder(Last(d.hops), Store)
                      THEN <<bind(Last(d.hops))>> ELSE <<>>
  BY DEF DeclaredBind
<1> HIDE DEF bind
<1>6. /\ <<>> \in Seq(OfDeclared(d)) /\ <<bind(d.path)>> \in Seq(OfDeclared(d))
      /\ d.hops # <<>> => <<bind(Last(d.hops))>> \in Seq(OfDeclared(d))
  BY <1>3, <1>4
<1>7. CASE d.hops = <<>>
  BY <1>5, <1>6, <1>7
<1>8. CASE d.hops # <<>>
  BY <1>5, <1>6, <1>8
<1> QED BY <1>7, <1>8

LEMMA AllDeclaredIn ==
  ASSUME NEW h, Read(h), NEW mode, NEW kind
  PROVE  DeclaredBinds(h, mode, kind) \in Seq(AllDeclared(h, mode, kind))
<1> DEFINE K == AllDeclared(h, mode, kind)
<1>1. ASSUME NEW d \in DeclaredSet(h), d.mode = mode, d.kind = kind
      PROVE  DeclaredBind(h, d) \in Seq(K)
  <2>1. OfDeclared(d) \subseteq K
    BY <1>1 DEF AllDeclared
  <2> HIDE DEF K
  <2> QED BY <2>1, DeclaredBindOf, SeqMonotonic
<1> HIDE DEF K
<1>2. DeclaredBinds(h, mode, kind) \in Seq(K)
  BY <1>1, DeclaredBindsIn
<1> QED BY <1>2 DEF K

OfGitFiles(h) == {RoBind(FileSource(h, p), p) : p \in ProtectedFiles(h)}

(* What the parts hold.                                                    *)
LEMMA PartsHold ==
  ASSUME NEW h, Read(h)
  PROVE  /\ StoreBinds(h) \in Seq(Arguments)
         /\ <<Tmpfs(Tmp), Tmpfs(Home)>> \in Seq({Tmpfs(Tmp), Tmpfs(Home)})
         /\ EachOf(GrantableRepoRoot(h), LAMBDA p : RoBind(p, p))
              \in Seq(RoBinds(GrantableRepoRoot(h)))
         /\ <<Bind(h.workspace, h.workspace)>> \in Seq({Bind(h.workspace, h.workspace)})
         /\ ParentDirArgs(h) \in Seq({a \in Arguments : ~IsMount(a)})
         /\ EachOf(StoreTargets(h, BoundPrefixes(h)), LAMBDA p : RoBind(p, p))
              \in Seq(RoBinds(StoreTargets(h, BoundPrefixes(h))))
         /\ EachOf(ParentSymlinks(h), LAMBDA l : Symlink(l.to, l.path))
              \in Seq({a \in Arguments : ~IsMount(a)})
<1>1. StoreBinds(h) \in Seq(Arguments)
  <2>1. StoreBinds(h) \in Seq(GoodArg(h)) /\ GoodArg(h) \subseteq Arguments
    BY StoreBindsGood DEF Read, GoodArg
  <2> QED BY <2>1, SeqMonotonic
<1>2. ASSUME NEW S, IsFiniteSet(S)
      PROVE  EachOf(S, LAMBDA p : RoBind(p, p)) \in Seq(RoBinds(S))
  <2>1. \A p \in S : RoBind(p, p) \in RoBinds(S)
    BY DEF RoBinds
  <2> QED BY <1>2, <2>1, EachBoundIn
<1>3. EachOf(GrantableRepoRoot(h), LAMBDA p : RoBind(p, p)) \in Seq(RoBinds(GrantableRepoRoot(h)))
  BY <1>2, RootFacts DEF Read
<1>4. EachOf(StoreTargets(h, BoundPrefixes(h)), LAMBDA p : RoBind(p, p))
        \in Seq(RoBinds(StoreTargets(h, BoundPrefixes(h))))
  BY <1>2, StoreTargetFacts
<1> DEFINE K == {a \in Arguments : ~IsMount(a)}
<1>5. \A p, to \in Paths : MakeDir(p) \in K /\ Symlink(to, p) \in K
  BY BindsAreArguments DEF IsMount, MakeDir, Symlink
<1> HIDE DEF K
<1>6. ParentDirArgs(h) \in Seq(K)
  BY <1>5, ParentDirsIn
<1>7. EachOf(ParentSymlinks(h), LAMBDA l : Symlink(l.to, l.path)) \in Seq(K)
  <2>1. \A l \in PathPairs : Symlink(l.to, l.path) \in K
    BY <1>5 DEF PathPairs
  <2> QED BY <2>1, ParentSymlinksIn
<1> DEFINE x == Tmpfs(Tmp)
           y == Tmpfs(Home)
           z == Bind(h.workspace, h.workspace)
<1>8. <<x, y>> \in Seq({x, y}) /\ <<z>> \in Seq({z})
  <2> HIDE DEF x, y, z
  <2> QED OBVIOUS
<1> QED BY <1>1, <1>3, <1>4, <1>6, <1>7, <1>8 DEF K

Keeps(a, p, G) == Covers(a, p) => a \in G

LEMMA AllKeeping ==
  ASSUME NEW X, X \subseteq Arguments, NEW s \in Seq(X), NEW p, NEW G
  PROVE  /\ s \in Seq(Arguments)
         /\ (\A a \in X : Keeps(a, p, G)) => s \in Seq(Keeping(p, G))
<1>1. s \in Seq(Arguments)
  BY SeqMonotonic
<1>2. ASSUME \A a \in X : Keeps(a, p, G) PROVE s \in Seq(Keeping(p, G))
  <2>1. X \subseteq Keeping(p, G)
    BY <1>2 DEF Keeps, Keeping
  <2> QED BY <2>1, SeqMonotonic
<1> QED BY <1>1, <1>2

OfGit(h) ==
  {a \in {Bind(h.common, h.common)} \cup RoBinds(ProtectedDirs(h)) \cup OfGitFiles(h) :
     GitUsable(h)}

LEMMA GitPartsHold ==
  ASSUME NEW h, Grounded(h)
  PROVE  GitBinds(h) \in Seq(OfGit(h)) /\ OfGit(h) \subseteq Arguments
<1>1. GitUsable(h) =>
        /\ Bind(h.common, h.common) \in OfGit(h)
        /\ \A p \in ProtectedDirs(h) : RoBind(p, p) \in OfGit(h)
        /\ \A p \in ProtectedFiles(h) : RoBind(FileSource(h, p), p) \in OfGit(h)
  BY DEF OfGit, RoBinds, OfGitFiles
<1>2. GitBinds(h) \in Seq(OfGit(h))
  BY <1>1, GitBindsIn
<1>3. ASSUME GitUsable(h)
      PROVE  {Bind(h.common, h.common)} \cup RoBinds(ProtectedDirs(h)) \cup OfGitFiles(h)
               \subseteq Arguments
  <2>1. /\ h.common \in Paths /\ ProtectedDirs(h) \subseteq Paths
        /\ ProtectedFiles(h) \subseteq Paths /\ EmptyFile \in Paths
    BY <1>3, GitDirFacts, ProtectedDirFacts, ProtectedFileFacts, PlacesAssumption
  <2>2. Bind(h.common, h.common) \in Arguments /\ RoBinds(ProtectedDirs(h)) \subseteq Arguments
    BY <2>1, BindsAreArguments DEF RoBinds
  <2>3. \A p \in ProtectedFiles(h) : FileSource(h, p) \in Paths
    BY <2>1 DEF FileSource
  <2>4. OfGitFiles(h) \subseteq Arguments
    BY <2>1, <2>3, BindsAreArguments DEF OfGitFiles
  <2> QED BY <2>2, <2>4
<1> QED BY <1>2, <1>3 DEF OfGit

LEMMA LatePartsHold ==
  ASSUME NEW h, Grounded(h)
  PROVE  /\ SocketBind(h) \in Seq({a \in {RoBind(h.socket, h.socket)} :
                                   h.socket # NoPath /\ ~Under(h.socket, NixVar)})
         /\ BundleBind(h) \in Seq({a \in {RoBind(Bundle, Within(Tmp, "bundle"))} : h.proxy})
         /\ h.socket # NoPath => RoBind(h.socket, h.socket) \in Arguments
         /\ RoBind(Bundle, Within(Tmp, "bundle")) \in Arguments
<1> DEFINE s == RoBind(h.socket, h.socket)
           b == RoBind(Bundle, Within(Tmp, "bundle"))
           late == h.socket # NoPath /\ ~Under(h.socket, NixVar)
<1>1. h.socket # NoPath => h.socket \in Paths
  BY DEF Grounded
<1>2. Within(Tmp, "bundle") \in Paths /\ Bundle \in Paths
  BY PlacesAssumption, OwnNamesAssumption, WithinIsPath
<1>3. SocketBind(h) = IF late THEN <<s>> ELSE <<>>
  BY DEF SocketBind
<1>4. BundleBind(h) = IF h.proxy THEN <<b>> ELSE <<>>
  BY DEF BundleBind
<1>5. (h.socket # NoPath => s \in Arguments) /\ b \in Arguments
  BY <1>1, <1>2, BindsAreArguments
<1> HIDE DEF s, b, late
<1>6. (IF late THEN <<s>> ELSE <<>>) \in Seq({a \in {s} : late})
  <2>1. CASE late
    <3>1. s \in {a \in {s} : late}
      BY <2>1
    <3> QED BY <2>1, <3>1
  <2>2. CASE ~late
    BY <2>2, EmptySeq
  <2> QED BY <2>1, <2>2
<1>7. (IF h.proxy THEN <<b>> ELSE <<>>) \in Seq({a \in {b} : h.proxy})
  <2>1. CASE h.proxy
    <3>1. b \in {a \in {b} : h.proxy}
      BY <2>1
    <3> QED BY <2>1, <3>1
  <2>2. CASE ~h.proxy
    BY <2>2, EmptySeq
  <2> QED BY <2>1, <2>2
<1> QED BY <1>3, <1>4, <1>5, <1>6, <1>7 DEF s, b, late

Each(b, X, k) == \A j \in 1..14 : j >= k => b[j] \in Seq(X)

(* A part is of arguments, and of such as keep the last word in G if each  *)
(* of them does.                                                           *)
LEMMA PartsKeeping ==
  ASSUME NEW h, Read(h), NEW p, NEW G, NEW k \in Nat,
         k <= 1 => \A a \in In(StoreBinds(h)) : Keeps(a, p, G),
         k <= 2 => Keeps(Tmpfs(Tmp), p, G) /\ Keeps(Tmpfs(Home), p, G),
         k <= 3 => \A a \in RoBinds(GrantableRepoRoot(h)) : Keeps(a, p, G),
         k <= 4 => Keeps(Bind(h.workspace, h.workspace), p, G),
         k <= 5 => \A a \in AllDeclared(h, "rw", "dir") : Keeps(a, p, G),
         k <= 6 => \A a \in AllDeclared(h, "ro", "dir") : Keeps(a, p, G),
         k <= 7 => \A a \in AllDeclared(h, "rw", "file") : Keeps(a, p, G),
         k <= 8 => \A a \in AllDeclared(h, "ro", "file") : Keeps(a, p, G),
         k <= 10 => \A a \in RoBinds(StoreTargets(h, BoundPrefixes(h))) : Keeps(a, p, G),
         k <= 12 => \A a \in OfGit(h) : Keeps(a, p, G),
         k <= 13 /\ h.socket # NoPath /\ ~Under(h.socket, NixVar) =>
           Keeps(RoBind(h.socket, h.socket), p, G),
         k <= 14 /\ h.proxy => Keeps(RoBind(Bundle, Within(Tmp, "bundle")), p, G)
  PROVE  Each(Parts(h), Arguments, 1) /\ Each(Parts(h), Keeping(p, G), k)
<1> DEFINE Ok(j) == /\ Parts(h)[j] \in Seq(Arguments)
                    /\ j >= k => Parts(h)[j] \in Seq(Keeping(p, G))
<1>0. Grounded(h)
  BY DEF Read
<1>1. ASSUME NEW j \in 1..14, NEW X, X \subseteq Arguments, Parts(h)[j] \in Seq(X),
             j >= k => \A a \in X : Keeps(a, p, G)
      PROVE  Ok(j)
  BY <1>1, AllKeeping
<1>2. Ok(1)
  <2> DEFINE s == StoreBinds(h)
  <2>1. s \in Seq(Arguments) /\ Parts(h)[1] = s
    BY PartsHold, PartsAre
  <2>2. (\A a \in In(s) : Keeps(a, p, G)) => s \in Seq(Keeping(p, G))
    <3> HIDE DEF s
    <3> SUFFICES ASSUME \A a \in In(s) : Keeps(a, p, G) PROVE s \in Seq(Keeping(p, G))
      OBVIOUS
    <3>1. \A n \in 1..Len(s) : s[n] \in Keeping(p, G)
      BY <2>1 DEF In, Keeps, Keeping
    <3> QED BY <2>1, <3>1
  <2> QED BY <2>1, <2>2
<1>3. Ok(2)
  <2>1. {Tmpfs(Tmp), Tmpfs(Home)} \subseteq Arguments
    BY PlacesAssumption, BindsAreArguments
  <2> DEFINE x == Tmpfs(Tmp)
             y == Tmpfs(Home)
  <2>2. Parts(h)[2] \in Seq({x, y})
    BY PartsHold, PartsAre
  <2>3. k <= 2 => \A a \in {x, y} : Keeps(a, p, G)
    OBVIOUS
  <2> HIDE DEF Ok
  <2> QED BY <1>1, <2>1, <2>2, <2>3
<1>4. Ok(3) /\ Ok(10)
  <2>1. RoBinds(GrantableRepoRoot(h)) \cup RoBinds(StoreTargets(h, BoundPrefixes(h)))
          \subseteq Arguments
    BY <1>0, RootFacts, StoreTargetFacts, BindsAreArguments DEF RoBinds
  <2> DEFINE x == EachOf(GrantableRepoRoot(h), LAMBDA q : RoBind(q, q))
             y == EachOf(StoreTargets(h, BoundPrefixes(h)), LAMBDA q : RoBind(q, q))
             X == RoBinds(GrantableRepoRoot(h))
             Y == RoBinds(StoreTargets(h, BoundPrefixes(h)))
  <2>2. /\ Parts(h)[3] = x /\ x \in Seq(X) /\ X \subseteq Arguments
        /\ Parts(h)[10] = y /\ y \in Seq(Y) /\ Y \subseteq Arguments
        /\ k <= 3 => \A a \in X : Keeps(a, p, G)
        /\ k <= 10 => \A a \in Y : Keeps(a, p, G)
    BY <2>1, PartsHold, PartsAre
  <2> HIDE DEF x, y, X, Y, Ok
  <2>3. Ok(3)
    BY <1>1, <2>2
  <2>4. Ok(10)
    BY <1>1, <2>2
  <2> QED BY <2>3, <2>4
<1>5. Ok(4)
  <2>1. {Bind(h.workspace, h.workspace)} \subseteq Arguments
    BY <1>0, BindsAreArguments DEF Grounded
  <2>2. Parts(h)[4] \in Seq({Bind(h.workspace, h.workspace)})
    BY PartsHold, PartsAre
  <2> HIDE DEF Ok
  <2> QED BY <1>1, <2>1, <2>2
<1>6. Ok(5) /\ Ok(6) /\ Ok(7) /\ Ok(8)
  <2>1. \A mode, kind : AllDeclared(h, mode, kind) \subseteq Arguments
    BY DEF AllDeclared, OfDeclared
  <2>2. \A mode, kind : DeclaredBinds(h, mode, kind) \in Seq(AllDeclared(h, mode, kind))
    BY AllDeclaredIn
  <2> HIDE DEF Ok
  <2>3. /\ Parts(h)[5] \in Seq(AllDeclared(h, "rw", "dir"))
        /\ Parts(h)[6] \in Seq(AllDeclared(h, "ro", "dir"))
        /\ Parts(h)[7] \in Seq(AllDeclared(h, "rw", "file"))
        /\ Parts(h)[8] \in Seq(AllDeclared(h, "ro", "file"))
    BY <2>2, PartsAre
  <2>4. Ok(5)
    BY <1>1, <2>1, <2>3
  <2>5. Ok(6)
    BY <1>1, <2>1, <2>3
  <2>6. Ok(7)
    BY <1>1, <2>1, <2>3
  <2>7. Ok(8)
    BY <1>1, <2>1, <2>3
  <2> QED BY <2>4, <2>5, <2>6, <2>7
<1>7. Ok(9) /\ Ok(11)
  <2> DEFINE X == {a \in Arguments : ~IsMount(a)}
  <2>1. X \subseteq Arguments /\ \A a \in X : Keeps(a, p, G)
    BY DEF Keeps, Covers
  <2>2. Parts(h)[9] \in Seq(X) /\ Parts(h)[11] \in Seq(X)
    BY PartsHold, PartsAre
  <2> HIDE DEF X, Ok
  <2>3. Ok(9)
    BY <1>1, <2>1, <2>2
  <2>4. Ok(11)
    BY <1>1, <2>1, <2>2
  <2> QED BY <2>3, <2>4
<1>8. Ok(12)
  <2>1. OfGit(h) \subseteq Arguments /\ Parts(h)[12] \in Seq(OfGit(h))
    BY <1>0, GitPartsHold, PartsAre
  <2> HIDE DEF Ok
  <2> QED BY <1>1, <2>1
<1>9. Ok(13) /\ Ok(14)
  <2> DEFINE X == {a \in {RoBind(h.socket, h.socket)} :
                     h.socket # NoPath /\ ~Under(h.socket, NixVar)}
             Y == {a \in {RoBind(Bundle, Within(Tmp, "bundle"))} : h.proxy}
  <2>1. X \subseteq Arguments /\ Y \subseteq Arguments
    BY <1>0, LatePartsHold
  <2>2. Parts(h)[13] \in Seq(X) /\ Parts(h)[14] \in Seq(Y)
    BY <1>0, LatePartsHold, PartsAre
  <2>3. /\ k <= 13 => \A a \in X : Keeps(a, p, G)
        /\ k <= 14 => \A a \in Y : Keeps(a, p, G)
    OBVIOUS
  <2> HIDE DEF X, Y, Ok
  <2>4. Ok(13)
    BY <1>1, <2>1, <2>2, <2>3
  <2>5. Ok(14)
    BY <1>1, <2>1, <2>2, <2>3
  <2> QED BY <2>4, <2>5
<1> HIDE DEF Ok
<1>10. \A j \in 1..14 : Ok(j)
  BY <1>2, <1>3, <1>4, <1>5, <1>6, <1>7, <1>8, <1>9
<1>11. \A j \in 1..14 : Parts(h)[j] \in Seq(Arguments)
  BY <1>10 DEF Ok
<1>12. \A j \in 1..14 : j >= k => Parts(h)[j] \in Seq(Keeping(p, G))
  BY <1>10 DEF Ok
<1> QED BY <1>11, <1>12 DEF Each

LEMMA EachAt ==
  ASSUME NEW b, NEW X, NEW k, Each(b, X, k), NEW j \in 1..14, j >= k
  PROVE  b[j] \in Seq(X)
BY DEF Each

(* An argument of G with the last word in one of the parts, and no later   *)
(* part that takes it from G.                                              *)
LEMMA EndsFrom ==
  ASSUME NEW h, NEW p, NEW G, NEW k \in 1..14, Ends(Parts(h)[k], p, G),
         Each(Parts(h), Arguments, 1), Each(Parts(h), Keeping(p, G), k + 1)
  PROVE  Ends(BwrapArgs(h), p, G)
<1>1. PICK b : b = Parts(h)
  OBVIOUS
<1> DEFINE Ok(j, u) == u \in Seq(Arguments) /\ (j >= k => Ends(u, p, G))
<1>2. ASSUME NEW j \in 2..14, NEW u, Ok(j - 1, u) PROVE Ok(j, u \o b[j])
  <2>1. j \in 1..14 /\ j >= 1
    OBVIOUS
  <2>2. b[j] \in Seq(Arguments)
    BY <1>1, <2>1, EachAt
  <2>3. u \o b[j] \in Seq(Arguments)
    BY <1>2, <2>2, ConcatProperties
  <2>4. CASE j - 1 >= k
    <3>1. j >= k + 1
      BY <2>4
    <3>2. b[j] \in Seq(Keeping(p, G))
      BY <1>1, <2>1, <3>1, EachAt
    <3>3. Ends(u \o b[j], p, G)
      BY <1>2, <2>4, <3>2, EndsKept
    <3> QED BY <2>3, <3>3
  <2>5. CASE j = k
    <3>1. Ends(u \o b[j], p, G)
      BY <1>1, <1>2, <2>2, <2>5, EndsLater
    <3> QED BY <2>3, <3>1
  <2>6. CASE j < k
    BY <2>3, <2>6
  <2> QED BY <2>4, <2>5, <2>6
<1>3. Ok(1, b[1])
  <2>1. b[1] \in Seq(Arguments)
    BY <1>1, EachAt
  <2>2. 1 >= k => k = 1
    OBVIOUS
  <2> QED BY <1>1, <2>1, <2>2
<1> DEFINE u2 == b[1] \o b[2]
           u3 == u2 \o b[3]
           u4 == u3 \o b[4]
           u5 == u4 \o b[5]
           u6 == u5 \o b[6]
           u7 == u6 \o b[7]
           u8 == u7 \o b[8]
           u9 == u8 \o b[9]
           u10 == u9 \o b[10]
           u11 == u10 \o b[11]
           u12 == u11 \o b[12]
           u13 == u12 \o b[13]
           u14 == u13 \o b[14]
<1> HIDE DEF Ok
<1>4. Ok(2, u2)
  BY <1>2, <1>3
<1>5. Ok(3, u3)
  BY <1>2, <1>4
<1>6. Ok(4, u4)
  BY <1>2, <1>5
<1>7. Ok(5, u5)
  BY <1>2, <1>6
<1>8. Ok(6, u6)
  BY <1>2, <1>7
<1>9. Ok(7, u7)
  BY <1>2, <1>8
<1>10. Ok(8, u8)
  BY <1>2, <1>9
<1>11. Ok(9, u9)
  BY <1>2, <1>10
<1>12. Ok(10, u10)
  BY <1>2, <1>11
<1>13. Ok(11, u11)
  BY <1>2, <1>12
<1>14. Ok(12, u12)
  BY <1>2, <1>13
<1>15. Ok(13, u13)
  BY <1>2, <1>14
<1>16. Ok(14, u14)
  BY <1>2, <1>15
<1>17. BwrapArgs(h) = u14
  BY <1>1, PartsAre DEF BwrapArgs
<1>18. Ends(u14, p, G)
  <2> HIDE DEF u14
  <2> QED BY <1>16 DEF Ok
<1> QED BY <1>17, <1>18
-----------------------------------------------------------------------------
(* Names of the host inside.                                               *)

(* What is above a name of the host is a directory.                        *)
LEMMA DirAbove ==
  ASSUME NEW h, Grounded(h), Furnished(h), NEW p \in RealNames(h), NEW q \in Paths,
         Under(p, q), p # q, q # <<>>
  PROVE  q \in h.dirs
<1>1. p \in Paths
  BY DEF Grounded, RealNames
<1>2. PICK m \in Nat, n \in Nat : m = Len(p) /\ n = Len(q)
  BY <1>1 DEF Paths
<1>3. n <= m /\ n # 0
  BY <1>1, <1>2, UnderMeans, EmptySeq DEF Paths
<1>4. ~(m <= n)
  BY <1>1, <1>2, SameLength
<1>5. SubSeq(p, 1, n) = SubSeq(q, 1, n)
  BY <1>1, <1>2, AboveIsPrefix
<1>6. SubSeq(q, 1, n) = q
  BY <1>2, SubSeqFull DEF Paths
<1>7. q \in Ancestors(p)
  <2>1. n \in 1..(m - 1)
    BY <1>3, <1>4
  <2> QED BY <1>2, <1>5, <1>6, <2>1 DEF Ancestors
<1> QED BY <1>7 DEF Furnished, RealNames

(* No file is above another name of the host, and what protects a git      *)
(* directory has a name.                                                   *)
LEMMA NoFileAbove ==
  ASSUME NEW h, Grounded(h), Furnished(h), NEW p \in RealNames(h), NEW q \in h.files,
         Under(p, q)
  PROVE  p = q
<1>1. q \in Paths /\ q \notin h.dirs /\ q # <<>>
  BY DEF Grounded, Furnished
<1> QED BY <1>1, DirAbove

LEMMA ProtectedNames ==
  ASSUME NEW h, Grounded(h), Furnished(h), GitUsable(h), NEW p \in ProtectedFiles(h)
  PROVE  p # <<>>
<1>1. {"config", "objects", "info", "alternates", "worktrees", "commondir", ".git",
       "config.worktree"} \subseteq FileNames
  BY OwnNamesAssumption
<1>2. \A g \in GitDirs(h) : g \in Paths
  BY GitDirFacts
<1>3. h.dirs \cup h.worktrees \subseteq Paths
  BY DEF Grounded
<1>4. ASSUME NEW g \in Paths, NEW n \in FileNames PROVE Within(g, n) # <<>>
  BY AppendProperties DEF Within, Paths
<1>5. ASSUME NEW g \in Paths PROVE g \o <<"objects", "info", "alternates">> # <<>>
  <2> DEFINE t == <<"objects", "info", "alternates">>
  <2>1. t \in Seq(FileNames) /\ t # <<>>
    BY <1>1
  <2> HIDE DEF t
  <2> QED BY <2>1, ConcatEqualIffEmpty DEF Paths
<1>6. \A x \in SubmoduleDotGit(h) : x # <<>>
  BY DEF SubmoduleDotGit, Furnished
<1> QED BY <1>1, <1>2, <1>3, <1>4, <1>5, <1>6 DEF ProtectedFiles, WorktreesOf

LEMMA NoProtectedAbove ==
  ASSUME NEW h, Grounded(h), Furnished(h), GitUsable(h), NEW p \in RealNames(h),
         NEW q \in ProtectedFiles(h), Under(p, q)
  PROVE  p = q
<1>1. q \in Paths /\ q # <<>>
  BY ProtectedFileFacts, ProtectedNames
<1>2. q \notin h.dirs
  BY DEF Furnished
<1> QED BY <1>1, <1>2, DirAbove

(* A path is what is above it and the rest.                                *)
LEMMA SplitPath ==
  ASSUME NEW p \in Paths, NEW q \in Paths, Under(p, q)
  PROVE  q \o SubSeq(p, Len(q) + 1, Len(p)) = p
<1>1. PICK m \in Nat, n \in Nat : m = Len(p) /\ n = Len(q) /\ n <= m
  BY UnderMeans DEF Paths
<1> DEFINE r == SubSeq(p, n + 1, m)
           t == q \o r
<1>2. /\ r \in Seq(FileNames) /\ Len(r) = m - n
      /\ \A i \in 1..(m - n) : r[i] = p[n + i]
  <2>1. \A i \in (n + 1)..m : p[i] \in FileNames
    BY <1>1 DEF Paths
  <2>2. /\ r \in Seq(FileNames)
        /\ Len(r) = IF n + 1 <= m THEN m - (n + 1) + 1 ELSE 0
        /\ \A i \in 1..(m - (n + 1) + 1) : r[i] = p[(n + 1) + i - 1]
    BY <2>1, SubSeqProperties
  <2> HIDE DEF r
  <2>3. \A i \in 1..(m - n) : i \in 1..(m - (n + 1) + 1) /\ (n + 1) + i - 1 = n + i
    BY <1>1
  <2> QED BY <1>1, <2>2, <2>3
<1> HIDE DEF r
<1>3. /\ t \in Seq(FileNames) /\ Len(t) = m
      /\ \A i \in 1..m : t[i] = IF i <= n THEN q[i] ELSE r[i - n]
  <2>1. q \in Seq(FileNames)
    BY DEF Paths
  <2>2. /\ t \in Seq(FileNames) /\ Len(t) = Len(q) + Len(r)
        /\ \A i \in 1..(Len(q) + Len(r)) : t[i] = IF i <= Len(q) THEN q[i] ELSE r[i - Len(q)]
    BY <1>2, <2>1, ConcatProperties
  <2> HIDE DEF t
  <2> QED BY <1>1, <1>2, <2>2
<1> HIDE DEF t
<1>4. ASSUME NEW i \in 1..m PROVE t[i] = p[i]
  <2>1. CASE i <= n
    BY <1>1, <1>3, <2>1, UnderMeans
  <2>2. CASE ~(i <= n)
    <3>1. i - n \in 1..(m - n) /\ n + (i - n) = i
      BY <1>1, <2>2
    <3> QED BY <1>2, <1>3, <2>2, <3>1
  <2> QED BY <2>1, <2>2
<1>5. t = p
  BY <1>1, <1>3, <1>4, SeqEqual DEF Paths
<1> QED BY <1>1, <1>5 DEF t, r

(* What the argument with the last word makes a path show.                 *)
LEMMA ShowsBound ==
  ASSUME NEW p \in Paths, NEW a \in Arguments, mounts[Holder(p)] = MountOf(host, a),
         a.op = "bind", Under(p, a.at), Landing(a.src, host.links) \in Paths
  PROVE  /\ Shows(p) = Landing(a.src, host.links) \o SubSeq(p, Len(a.at) + 1, Len(p))
         /\ Landing(a.src, host.links) = a.at => Shows(p) = p
         /\ p = a.at => Shows(p) = Landing(a.src, host.links)
         /\ Writable(p) = a.rw
<1> DEFINE s == Landing(a.src, host.links)
<1>1. mounts[Holder(p)] = [at |-> a.at, rw |-> a.rw, src |-> s]
  BY DEF MountOf
<1>2. s # NoPath
  BY NoPathIsNone
<1> HIDE DEF s
<1>3. Shows(p) = s \o SubSeq(p, Len(a.at) + 1, Len(p)) /\ Writable(p) = a.rw
  <2> DEFINE m == mounts[Holder(p)]
  <2>1. m.at = a.at /\ m.src = s
    BY <1>1
  <2>2. m.rw = a.rw
    BY <1>1
  <2> HIDE DEF m
  <2>3. Shows(p) = s \o SubSeq(p, Len(a.at) + 1, Len(p))
    BY <1>2, <2>1 DEF Shows, m
  <2>4. Writable(p) = a.rw
    BY <2>2, Zenon DEF Writable, m
  <2> QED BY <2>3, <2>4
<1>4. s = a.at => Shows(p) = p
  <2>1. a.at \in Paths
    BY DEF Arguments
  <2> QED BY <1>3, <2>1, SplitPath
<1>5. p = a.at => Shows(p) = s
  <2>1. SubSeq(p, Len(p) + 1, Len(p)) = <<>>
    <3>1. PICK n \in Nat : n = Len(p)
      BY DEF Paths
    <3>2. n + 1 \in Int /\ n \in Int /\ n < n + 1
      OBVIOUS
    <3> QED BY <3>1, <3>2, SubSeqEmpty
  <2>2. s \o <<>> = s
    BY ConcatEmptySeq DEF s, Paths
  <2> QED BY <1>3, <2>1, <2>2
<1> QED BY <1>3, <1>4, <1>5 DEF s

(* The binds of a set are among the arguments made of it.                  *)
LEMMA EachHolds ==
  ASSUME NEW S, IsFiniteSet(S), NEW x \in S
  PROVE  RoBind(x, x) \in In(EachOf(S, LAMBDA p : RoBind(p, p)))
<1> DEFINE seq == SetToSeq(S)
           each == [n \in 1..Len(seq) |-> RoBind(seq[n], seq[n])]
<1>1. EachOf(S, LAMBDA p : RoBind(p, p)) = each
  BY DEF EachOf
<1>2. PICK N \in Nat : N = Len(seq)
  BY SetSeq
<1>3. PICK n \in 1..N : seq[n] = x
  BY <1>2, SetSeq
<1> HIDE DEF seq
<1>4. Len(each) = N /\ each[n] = RoBind(x, x)
  BY <1>2, <1>3
<1> HIDE DEF each
<1> QED BY <1>1, <1>3, <1>4 DEF In

LEMMA GitFileBindHolds ==
  ASSUME NEW h, Grounded(h), GitUsable(h), NEW x \in ProtectedFiles(h)
  PROVE  RoBind(FileSource(h, x), x) \in In(GitFileBinds(h))
<1> DEFINE S == ProtectedFiles(h)
           seq == SetToSeq(S)
           each == [n \in 1..Len(seq) |-> RoBind(FileSource(h, seq[n]), seq[n])]
<1>1. GitFileBinds(h) = each
  BY DEF GitFileBinds, EachOf
<1>2. IsFiniteSet(S)
  BY ProtectedFileFacts
<1>3. x \in S
  OBVIOUS
<1> HIDE DEF S
<1>4. PICK N \in Nat : N = Len(seq)
  BY <1>2, SetSeq
<1>5. PICK n \in 1..N : seq[n] = x
  BY <1>2, <1>3, <1>4, SetSeq
<1> HIDE DEF seq
<1>6. Len(each) = N /\ each[n] = RoBind(FileSource(h, x), x)
  BY <1>4, <1>5
<1> HIDE DEF each
<1> QED BY <1>1, <1>5, <1>6 DEF In

(* A declared path that is no link is bound at its name, in its mode.      *)
LEMMA BoundIn ==
  ASSUME NEW h, Read(h), NEW d \in DeclaredSet(h), DeclaredBind(h, d) # <<>>
  PROVE  \E b \in In(DeclaredBinds(h, d.mode, d.kind)) : b \in OfDeclared(d)
<1> DEFINE own(e) == IF e.mode = d.mode /\ e.kind = d.kind THEN DeclaredBind(h, e) ELSE <<>>
           seqs == [n \in 1..Len(h.declared) |-> own(h.declared[n])]
<1>1. PICK N \in Nat : N = Len(h.declared)
  BY DEF Read
<1>2. PICK n \in 1..N : h.declared[n] = d
  BY <1>1 DEF DeclaredSet
<1>3. DeclaredBinds(h, d.mode, d.kind) = FlattenSeq(seqs)
  BY DEF DeclaredBinds
<1>4. \A k \in 1..N : own(h.declared[k]) \in Seq(Arguments)
  <2> TAKE k \in 1..N
  <2>1. h.declared[k] \in DeclaredSet(h)
    BY <1>1 DEF DeclaredSet
  <2>2. DeclaredBind(h, h.declared[k]) \in Seq(OfDeclared(h.declared[k]))
    BY <2>1, DeclaredBindOf
  <2>3. OfDeclared(h.declared[k]) \subseteq Arguments
    BY DEF OfDeclared
  <2>4. DeclaredBind(h, h.declared[k]) \in Seq(Arguments)
    BY <2>2, <2>3, SeqMonotonic
  <2> QED BY <2>4, EmptySeq
<1>5. seqs \in Seq(Seq(Arguments)) /\ Len(seqs) = N /\ seqs[n] = DeclaredBind(h, d)
  <2>1. seqs[n] = own(d)
    BY <1>1, <1>2
  <2>2. own(d) = DeclaredBind(h, d)
    OBVIOUS
  <2> HIDE DEF own
  <2> QED BY <1>1, <1>4, <2>1, <2>2
<1> HIDE DEF seqs, own
<1>6. In(DeclaredBind(h, d)) \subseteq In(DeclaredBinds(h, d.mode, d.kind))
  BY <1>3, <1>5, FlattenedFrom
<1>7. DeclaredBind(h, d) \in Seq(OfDeclared(d))
  BY DeclaredBindOf
<1>8. DeclaredBind(h, d)[1] \in OfDeclared(d) /\ 1 \in 1..Len(DeclaredBind(h, d))
  BY <1>7, EmptySeq
<1> QED BY <1>6, <1>8 DEF In
-----------------------------------------------------------------------------
(* What holds a name in a session that runs.                               *)

LEMMA RunningFacts ==
  ASSUME HeldInvariant, status = "running"
  PROVE  /\ Read(host) /\ Grounded(host) /\ Furnished(host)
         /\ ~DeclaredRefused(host) /\ IsDir(host, host.workspace)
<1>1. Grounded(host) /\ Furnished(host) /\ host.declared \in Seq(Entries(host))
  BY HostFacts DEF HeldInvariant, Invariant
<1>2. ~DeclaredRefused(host) /\ IsDir(host, host.workspace)
  BY DEF HeldInvariant, HeldInv
<1> QED BY <1>1, <1>2 DEF Read

(* From the k-th part on, what covers the name is one of G.                *)
KeepsFrom(h, p, G, k) ==
  /\ k <= 1 => \A a \in In(StoreBinds(h)) : Keeps(a, p, G)
  /\ k <= 2 => Keeps(Tmpfs(Tmp), p, G) /\ Keeps(Tmpfs(Home), p, G)
  /\ k <= 3 => \A a \in RoBinds(GrantableRepoRoot(h)) : Keeps(a, p, G)
  /\ k <= 4 => Keeps(Bind(h.workspace, h.workspace), p, G)
  /\ k <= 5 => \A a \in AllDeclared(h, "rw", "dir") : Keeps(a, p, G)
  /\ k <= 6 => \A a \in AllDeclared(h, "ro", "dir") : Keeps(a, p, G)
  /\ k <= 7 => \A a \in AllDeclared(h, "rw", "file") : Keeps(a, p, G)
  /\ k <= 8 => \A a \in AllDeclared(h, "ro", "file") : Keeps(a, p, G)
  /\ k <= 10 => \A a \in RoBinds(StoreTargets(h, BoundPrefixes(h))) : Keeps(a, p, G)
  /\ k <= 12 => \A a \in OfGit(h) : Keeps(a, p, G)
  /\ k <= 13 /\ h.socket # NoPath /\ ~Under(h.socket, NixVar) =>
       Keeps(RoBind(h.socket, h.socket), p, G)
  /\ k <= 14 /\ h.proxy => Keeps(RoBind(Bundle, Within(Tmp, "bundle")), p, G)

LEMMA KeepsEach ==
  ASSUME NEW h, Read(h), NEW p, NEW G, NEW k \in Nat, KeepsFrom(h, p, G, k)
  PROVE  Each(Parts(h), Arguments, 1) /\ Each(Parts(h), Keeping(p, G), k)
<1>1. /\ k <= 1 => \A a \in In(StoreBinds(h)) : Keeps(a, p, G)
      /\ k <= 2 => Keeps(Tmpfs(Tmp), p, G) /\ Keeps(Tmpfs(Home), p, G)
      /\ k <= 3 => \A a \in RoBinds(GrantableRepoRoot(h)) : Keeps(a, p, G)
      /\ k <= 4 => Keeps(Bind(h.workspace, h.workspace), p, G)
      /\ k <= 5 => \A a \in AllDeclared(h, "rw", "dir") : Keeps(a, p, G)
      /\ k <= 6 => \A a \in AllDeclared(h, "ro", "dir") : Keeps(a, p, G)
      /\ k <= 7 => \A a \in AllDeclared(h, "rw", "file") : Keeps(a, p, G)
      /\ k <= 8 => \A a \in AllDeclared(h, "ro", "file") : Keeps(a, p, G)
      /\ k <= 10 => \A a \in RoBinds(StoreTargets(h, BoundPrefixes(h))) : Keeps(a, p, G)
      /\ k <= 12 => \A a \in OfGit(h) : Keeps(a, p, G)
      /\ k <= 13 /\ h.socket # NoPath /\ ~Under(h.socket, NixVar) =>
           Keeps(RoBind(h.socket, h.socket), p, G)
      /\ k <= 14 /\ h.proxy => Keeps(RoBind(Bundle, Within(Tmp, "bundle")), p, G)
  BY Zenon DEF KeepsFrom
<1> QED BY <1>1, PartsKeeping

(* A bind of one of these parts covers it: then one of G holds it.         *)
LEMMA HeldByPart ==
  ASSUME HeldInvariant, status = "running", NEW p \in Paths, NEW G, NEW k \in 1..14,
         NEW a \in In(Parts(host)[k]), Covers(a, p), KeepsFrom(host, p, G, k)
  PROVE  HeldIn(p, G)
<1>1. Each(Parts(host), Arguments, 1) /\ Each(Parts(host), Keeping(p, G), k)
  BY RunningFacts, KeepsEach
<1>2. Parts(host)[k] \in Seq(Keeping(p, G))
  BY <1>1, EachAt
<1>3. Ends(Parts(host)[k], p, G)
  BY <1>2, EndsKeeping
<1>4. Each(Parts(host), Keeping(p, G), k + 1)
  <2>1. \A j \in 1..14 : j >= k + 1 => j >= k
    OBVIOUS
  <2> QED BY <1>1, <2>1 DEF Each
<1>5. Ends(BwrapArgs(host), p, G)
  BY <1>1, <1>3, <1>4, EndsFrom
<1> QED BY <1>5, LastWord

(* What a path of the host that no link leads to is declared by is bound   *)
(* from its own name.                                                      *)
LEMMA DeclaredAbove ==
  ASSUME NEW h, Read(h), NEW p \in h.dirs \cup h.files, NEW d \in DeclaredSet(h),
         NEW a \in OfDeclared(d), Covers(a, p)
  PROVE  a.src = a.at
<1>1. Known(h, d)
  BY DeclaredFacts
<1>2. a.at = d.path /\ Under(p, d.path) /\ d.path \in Paths
  BY <1>1 DEF OfDeclared, Covers, Known
<1>3. FirstLink(d.path, h.links) = 0
  BY <1>2, RealAbove DEF Read
<1>4. d.hops = <<>>
  BY <1>1, <1>3 DEF Known, Found
<1> QED BY <1>2, <1>4 DEF OfDeclared

LEMMA NotInBundle ==
  ASSUME NEW h, Grounded(h), Furnished(h), NEW p \in RealNames(h), NEW G
  PROVE  Keeps(RoBind(Bundle, Within(Tmp, "bundle")), p, G)
BY DEF Keeps, Covers, RoBind, Furnished, RealNames

LEMMA SingleHolds ==
  ASSUME NEW x
  PROVE  x \in In(<<x>>)
BY DEF In

LEMMA BundleSeen ==
  ASSUME HeldInvariant, status = "running", host.proxy
  PROVE  Shows(Within(Tmp, "bundle")) = Bundle
<1> DEFINE p == Within(Tmp, "bundle")
           b == RoBind(Bundle, p)
<1>1. p \in Paths /\ Bundle \in Paths
  BY PlacesAssumption, OwnNamesAssumption, WithinIsPath
<1>2. b \in In(Parts(host)[14])
  <2>1. Parts(host)[14] = <<b>>
    BY PartsAre DEF BundleBind
  <2> HIDE DEF b
  <2> QED BY <2>1, SingleHolds
<1>3. Covers(b, p)
  BY <1>1, UnderItself DEF Covers, IsMount, RoBind
<1>4. KeepsFrom(host, p, {b}, 14)
  <2>1. Keeps(b, p, {b})
    BY DEF Keeps
  <2> HIDE DEF b
  <2> QED BY <2>1 DEF KeepsFrom, b
<1>5. HeldIn(p, {b})
  <2> HIDE DEF b, p
  <2> QED BY <1>1, <1>2, <1>3, <1>4, HeldByPart
<1>6. b \in Arguments /\ mounts[Holder(p)] = MountOf(host, b)
  <2> HIDE DEF b, p
  <2> QED BY <1>5 DEF HeldIn
<1>7. Landing(Bundle, host.links) = Bundle
  <2>1. Bundle \in host.files
    BY RunningFacts DEF Furnished
  <2> QED BY <1>1, <2>1, RunningFacts, RealAbove, UnderItself
<1>8. b.op = "bind" /\ b.at = p /\ b.src = Bundle
  BY DEF RoBind
<1>9. Under(p, p)
  BY <1>1, UnderItself
<1> HIDE DEF b, p
<1>10. Shows(p) = Bundle
  <2>1. Landing(b.src, host.links) = Bundle /\ Landing(b.src, host.links) \in Paths
    BY <1>1, <1>7, <1>8
  <2>2. b.op = "bind" /\ Under(p, b.at) /\ p = b.at
    BY <1>8, <1>9
  <2> QED BY <1>1, <1>6, <2>1, <2>2, ShowsBound
<1> QED BY <1>10 DEF p

(* The binds from their own names.                                         *)
OwnBinds == {a \in Arguments : a.op = "bind" /\ a.src = a.at}

LEMMA OwnAreOwn ==
  ASSUME NEW p \in Paths
  PROVE  Bind(p, p) \in OwnBinds /\ RoBind(p, p) \in OwnBinds
BY BindsAreArguments DEF OwnBinds, Bind, RoBind

(* A path of the host outside the masks is shown where it is, unless an    *)
(* empty file stands there.                                                *)
LEMMA KeptOwn ==
  ASSUME NEW h, Read(h), Furnished(h), NEW p \in h.dirs \cup h.files,
         h.allowNix, ~Under(p, Tmp), ~Under(p, Home),
         p \in h.files \/ ~GitUsable(h)
  PROVE  KeepsFrom(h, p, OwnBinds, 1)
<1>0. Grounded(h) /\ p \in RealNames(h)
  BY DEF Read, RealNames
<1>1. \A a \in In(StoreBinds(h)) : a \in OwnBinds
  <2> DEFINE x == RoBind(Store, Store)
             y == RoBind(NixVar, NixVar)
  <2>1. x \in OwnBinds /\ y \in OwnBinds
    BY PlacesAssumption, OwnAreOwn
  <2>2. StoreBinds(h) = <<x, y>>
    BY DEF StoreBinds
  <2> HIDE DEF x, y
  <2> QED BY <2>1, <2>2 DEF In
<1>2. Keeps(Tmpfs(Tmp), p, OwnBinds) /\ Keeps(Tmpfs(Home), p, OwnBinds)
  BY DEF Keeps, Covers, Tmpfs
<1>3. ASSUME NEW S, S \subseteq Paths
      PROVE  \A a \in RoBinds(S) : a \in OwnBinds
  BY <1>3, OwnAreOwn DEF RoBinds
<1>4. Bind(h.workspace, h.workspace) \in OwnBinds
  BY <1>0, OwnAreOwn DEF Grounded
<1>5. ASSUME NEW mode, NEW kind, NEW a \in AllDeclared(h, mode, kind)
      PROVE  Keeps(a, p, OwnBinds)
  <2>1. PICK d \in DeclaredSet(h) : a \in OfDeclared(d)
    BY <1>5 DEF AllDeclared
  <2>2. a \in Arguments /\ a.op = "bind"
    BY <2>1 DEF OfDeclared
  <2>3. Covers(a, p) => a.src = a.at
    BY <2>1, DeclaredAbove
  <2> QED BY <2>2, <2>3 DEF Keeps, OwnBinds
<1>6. ASSUME NEW a \in OfGit(h) PROVE Keeps(a, p, OwnBinds)
  <2>1. GitUsable(h)
    BY <1>6 DEF OfGit
  <2>2. CASE a = Bind(h.common, h.common)
    BY <1>0, <2>1, <2>2, GitDirFacts, OwnAreOwn DEF Keeps
  <2>3. CASE a \in RoBinds(ProtectedDirs(h))
    BY <1>0, <1>3, <2>1, <2>3, ProtectedDirFacts DEF Keeps
  <2>4. CASE a \in OfGitFiles(h)
    <3>1. PICK q \in ProtectedFiles(h) : a = RoBind(FileSource(h, q), q)
      BY <2>4 DEF OfGitFiles
    <3>2. SUFFICES ASSUME Covers(a, p) PROVE a \in OwnBinds
      BY DEF Keeps
    <3>3. Under(p, q)
      BY <3>1, <3>2 DEF Covers, RoBind
    <3>4. p = q
      BY <1>0, <2>1, <3>3, NoProtectedAbove
    <3>5. a = RoBind(q, q) /\ q \in Paths
      BY <1>0, <2>1, <3>1, <3>4 DEF FileSource, Grounded
    <3> QED BY <3>5, OwnAreOwn
  <2> QED BY <1>6, <2>2, <2>3, <2>4 DEF OfGit
<1>7. h.socket # NoPath => RoBind(h.socket, h.socket) \in OwnBinds
  BY <1>0, OwnAreOwn DEF Grounded
<1>8. Keeps(RoBind(Bundle, Within(Tmp, "bundle")), p, OwnBinds)
  BY <1>0, NotInBundle
<1>9. /\ \A a \in RoBinds(GrantableRepoRoot(h)) : a \in OwnBinds
      /\ \A a \in RoBinds(StoreTargets(h, BoundPrefixes(h))) : a \in OwnBinds
  BY <1>0, <1>3, RootFacts, StoreTargetFacts
<1>10. \A a \in OwnBinds : Keeps(a, p, OwnBinds)
  BY DEF Keeps
<1> HIDE DEF OwnBinds
<1> QED BY <1>1, <1>2, <1>4, <1>5, <1>6, <1>7, <1>8, <1>9, <1>10 DEF KeepsFrom

LEMMA SocketSeen ==
  ASSUME HeldInvariant, status = "running", host.socket # NoPath
  PROVE  Shows(host.socket) = host.socket
<1> DEFINE p == host.socket
<1>1. /\ Read(host) /\ Grounded(host) /\ Furnished(host)
      /\ p \in host.files /\ host.allowNix /\ p \in Paths /\ p \in RealNames(host)
  BY RunningFacts DEF Furnished, Grounded, RealNames
<1>2. ASSUME NEW a \in OwnBinds, Covers(a, p), mounts[Holder(p)] = MountOf(host, a)
      PROVE  Shows(p) = p
  <2>1. a \in Arguments /\ a.op = "bind" /\ a.src = a.at /\ a.at \in Paths /\ Under(p, a.at)
    BY <1>2 DEF OwnBinds, Covers, Arguments
  <2>2. Landing(a.src, host.links) = a.at
    BY <1>1, <2>1, RealAbove
  <2> HIDE DEF p
  <2> QED BY <1>1, <1>2, <2>1, <2>2, ShowsBound
<1>3. CASE Under(p, NixVar)
  <2>1. KeepsFrom(host, p, OwnBinds, 1)
    BY <1>1, <1>3, KeptOwn DEF Furnished
  <2> DEFINE x == RoBind(Store, Store)
             y == RoBind(NixVar, NixVar)
  <2>2. y \in In(Parts(host)[1])
    <3>1. Parts(host)[1] = <<x, y>>
      BY <1>1, PartsAre DEF StoreBinds
    <3> HIDE DEF x, y
    <3> QED BY <3>1 DEF In
  <2>3. Covers(y, p)
    BY <1>3 DEF Covers, IsMount, RoBind
  <2>4. HeldIn(p, OwnBinds)
    <3> HIDE DEF y, p
    <3> QED BY <1>1, <2>1, <2>2, <2>3, HeldByPart
  <2> QED BY <1>2, <2>4 DEF HeldIn
<1>4. CASE ~Under(p, NixVar)
  <2> DEFINE s == RoBind(p, p)
  <2>1. s \in OwnBinds
    BY <1>1, OwnAreOwn
  <2>2. s \in In(Parts(host)[13])
    <3>1. Parts(host)[13] = <<s>>
      BY <1>4, PartsAre DEF SocketBind
    <3> HIDE DEF s
    <3> QED BY <3>1, SingleHolds
  <2>3. Covers(s, p)
    BY <1>1, UnderItself DEF Covers, IsMount, RoBind
  <2>4. KeepsFrom(host, p, OwnBinds, 13)
    <3>1. Keeps(s, p, OwnBinds)
      BY <2>1 DEF Keeps
    <3>2. Keeps(RoBind(Bundle, Within(Tmp, "bundle")), p, OwnBinds)
      BY <1>1, NotInBundle
    <3> QED BY <3>1, <3>2 DEF KeepsFrom
  <2>5. HeldIn(p, OwnBinds)
    <3> HIDE DEF s, p
    <3> QED BY <1>1, <2>2, <2>3, <2>4, HeldByPart
  <2> QED BY <1>2, <2>5 DEF HeldIn
<1> QED BY <1>3, <1>4

(* Whatever is declared over the daemon's socket or the CA bundle, and     *)
(* wherever the socket is, the program inside finds them at their places:  *)
(* their binds are the last (compute.py:241-255), and the one of /nix/var  *)
(* is only ever covered by binds that show the socket as well.             *)
THEOREM LateBindsAlwaysSeen == Spec => []LateBindsSeen
<1>1. HeldInvariant => LateBindsSeen
  BY BundleSeen, SocketSeen DEF LateBindsSeen
<1> QED BY <1>1, HeldHolds, PTL
-----------------------------------------------------------------------------
(* The git directories.                                                    *)

LEMMA HeldByGit ==
  ASSUME HeldInvariant, status = "running", NEW p \in Paths, NEW G,
         Ends(GitBinds(host), p, G), KeepsFrom(host, p, G, 13)
  PROVE  HeldIn(p, G)
<1>1. Each(Parts(host), Arguments, 1) /\ Each(Parts(host), Keeping(p, G), 13)
  BY RunningFacts, KeepsEach
<1>2. Ends(Parts(host)[12], p, G)
  BY PartsAre
<1>3. 12 \in 1..14 /\ 12 + 1 = 13
  OBVIOUS
<1>4. Ends(BwrapArgs(host), p, G)
  BY <1>1, <1>2, <1>3, EndsFrom
<1> QED BY <1>4, LastWord

(* What is shown of the host is there.                                     *)
LEMMA ShownIsThere ==
  ASSUME NEW p, Shows(p) \in host.dirs \cup host.files
  PROVE  KindOf(p) # "none"
BY DEF KindOf

(* The binds of the git directories, one after the other.                  *)
LEMMA GitBindsSplit ==
  ASSUME NEW h, Grounded(h), GitUsable(h)
  PROVE  /\ GitOwn(h) \in Seq(Arguments) /\ In(GitOwn(h)) = {Bind(h.common, h.common)}
         /\ GitDirBinds(h) \in Seq(RoBinds(ProtectedDirs(h)))
         /\ GitDirBinds(h) \in Seq(Arguments) /\ GitFileBinds(h) \in Seq(Arguments)
         /\ RoBinds(ProtectedDirs(h)) \subseteq Arguments /\ OfGitFiles(h) \subseteq Arguments
         /\ GitFileBinds(h) \in Seq(OfGitFiles(h))
         /\ GitOwn(h) \o GitDirBinds(h) \in Seq(Arguments)
<1>1. OfGit(h) \subseteq Arguments
  BY GitPartsHold
<1>2. Bind(h.common, h.common) \in Arguments /\ RoBinds(ProtectedDirs(h)) \subseteq Arguments
        /\ OfGitFiles(h) \subseteq Arguments
  BY <1>1 DEF OfGit
<1>3. GitOwn(h) \in Seq(Arguments) /\ In(GitOwn(h)) = {Bind(h.common, h.common)}
  <2> DEFINE b == Bind(h.common, h.common)
  <2>1. GitOwn(h) = <<b>> /\ b \in Arguments
    BY <1>2 DEF GitOwn
  <2> HIDE DEF b
  <2> QED BY <2>1 DEF In, b
<1>4. GitDirBinds(h) \in Seq(RoBinds(ProtectedDirs(h)))
  <2>1. \A p \in ProtectedDirs(h) : RoBind(p, p) \in RoBinds(ProtectedDirs(h))
    BY DEF RoBinds
  <2>2. IsFiniteSet(ProtectedDirs(h))
    BY ProtectedDirFacts
  <2> QED BY <2>1, <2>2, EachBoundIn DEF GitDirBinds
<1>5. GitFileBinds(h) \in Seq(OfGitFiles(h))
  <2>1. \A p \in ProtectedFiles(h) : RoBind(FileSource(h, p), p) \in OfGitFiles(h)
    BY DEF OfGitFiles
  <2> QED BY <2>1, GitFileBindsIn
<1>6. GitDirBinds(h) \in Seq(Arguments)
  BY <1>2, <1>4, SeqMonotonic
<1>7. GitFileBinds(h) \in Seq(Arguments)
  BY <1>2, <1>5, SeqMonotonic
<1>8. GitOwn(h) \o GitDirBinds(h) \in Seq(Arguments)
  BY <1>3, <1>6, ConcatProperties
<1> QED BY <1>2, <1>3, <1>4, <1>5, <1>6, <1>7, <1>8

ReadOnlyOwn == {a \in OwnBinds : ~a.rw}

LEMMA RoAreReadOnlyOwn ==
  ASSUME NEW p \in Paths
  PROVE  RoBind(p, p) \in ReadOnlyOwn
BY OwnAreOwn DEF ReadOnlyOwn, RoBind

(* A bind of another protected file cannot take a name of the host.        *)
LEMMA OtherGitFile ==
  ASSUME NEW h, Grounded(h), Furnished(h), GitUsable(h), NEW p \in h.dirs \cup h.files,
         NEW a \in OfGitFiles(h), Covers(a, p)
  PROVE  p \in h.files /\ p \in ProtectedFiles(h) /\ a = RoBind(p, p)
<1>1. PICK q \in ProtectedFiles(h) : a = RoBind(FileSource(h, q), q)
  BY DEF OfGitFiles
<1>2. Under(p, q)
  BY <1>1 DEF Covers, RoBind
<1>3. p = q
  BY <1>2, NoProtectedAbove DEF RealNames
<1>4. q \notin h.dirs
  BY DEF Furnished
<1> QED BY <1>1, <1>3, <1>4 DEF FileSource

LEMMA GitDirEnds ==
  ASSUME NEW h, Grounded(h), Furnished(h), GitUsable(h), NEW p \in ProtectedDirs(h)
  PROVE  Ends(GitBinds(h), p, ReadOnlyOwn)
<1> DEFINE G == ReadOnlyOwn
<1>1. p \in h.dirs /\ p \in Paths /\ p \in RealNames(h) /\ p \notin h.files
  BY ProtectedDirFacts DEF ProtectedDirs, RealNames, Furnished
<1>2. GitDirBinds(h) \in Seq(Keeping(p, G))
  <2>1. \A a \in RoBinds(ProtectedDirs(h)) : a \in G
    BY ProtectedDirFacts, RoAreReadOnlyOwn DEF RoBinds
  <2>2. RoBinds(ProtectedDirs(h)) \subseteq Keeping(p, G)
    BY <2>1, GitBindsSplit DEF Keeping
  <2> QED BY <2>2, GitBindsSplit, SeqMonotonic
<1>3. RoBind(p, p) \in In(GitDirBinds(h)) /\ Covers(RoBind(p, p), p)
  <2>1. RoBind(p, p) \in In(GitDirBinds(h))
    BY ProtectedDirFacts, EachHolds DEF GitDirBinds
  <2>2. Covers(RoBind(p, p), p)
    BY <1>1, UnderItself DEF Covers, IsMount, RoBind
  <2> QED BY <2>1, <2>2
<1>4. Ends(GitDirBinds(h), p, G)
  BY <1>2, <1>3, EndsKeeping
<1>5. Ends(GitOwn(h) \o GitDirBinds(h), p, G)
  BY <1>4, GitBindsSplit, EndsLater
<1>6. GitFileBinds(h) \in Seq(Keeping(p, G))
  <2>1. OfGitFiles(h) \subseteq Keeping(p, G)
    BY <1>1, OtherGitFile, GitBindsSplit DEF Keeping
  <2> QED BY <2>1, GitBindsSplit, SeqMonotonic
<1>7. Ends((GitOwn(h) \o GitDirBinds(h)) \o GitFileBinds(h), p, G)
  BY <1>5, <1>6, GitBindsSplit, EndsKept
<1> QED BY <1>7, GitParts

(* Of a protected file, its own bind or an empty file's is the last.       *)
LEMMA GitFileEnds ==
  ASSUME NEW h, Grounded(h), GitUsable(h), NEW p \in ProtectedFiles(h), NEW G,
         RoBind(FileSource(h, p), p) \in G, \A a \in OfGitFiles(h) : Keeps(a, p, G)
  PROVE  Ends(GitBinds(h), p, G)
<1> DEFINE b == RoBind(FileSource(h, p), p)
<1>1. p \in Paths
  BY ProtectedFileFacts
<1>2. b \in In(GitFileBinds(h)) /\ Covers(b, p)
  <2>1. b \in In(GitFileBinds(h))
    BY GitFileBindHolds
  <2>2. Covers(b, p)
    BY <1>1, UnderItself DEF Covers, IsMount, RoBind
  <2> QED BY <2>1, <2>2
<1>3. GitFileBinds(h) \in Seq(Keeping(p, G))
  <2>1. OfGitFiles(h) \subseteq Keeping(p, G)
    BY GitBindsSplit DEF Keeping, Keeps
  <2> QED BY <2>1, GitBindsSplit, SeqMonotonic
<1> HIDE DEF b
<1>4. Ends(GitFileBinds(h), p, G)
  BY <1>2, <1>3, EndsKeeping
<1>5. Ends((GitOwn(h) \o GitDirBinds(h)) \o GitFileBinds(h), p, G)
  BY <1>4, GitBindsSplit, EndsLater
<1> QED BY <1>5, GitParts

(* What is held by a bind of its own is shown as it is.                    *)
LEMMA ShownAsIs ==
  ASSUME NEW h, h = host, Grounded(h), NEW p \in h.dirs \cup h.files, NEW a \in OwnBinds,
         Covers(a, p), mounts[Holder(p)] = MountOf(host, a)
  PROVE  Shows(p) = p /\ Writable(p) = a.rw
<1>1. p \in Paths
  BY DEF Grounded
<1>2. a \in Arguments /\ a.op = "bind" /\ a.src = a.at /\ a.at \in Paths /\ Under(p, a.at)
  BY DEF OwnBinds, Covers, Arguments
<1>3. Landing(a.src, host.links) = a.at
  BY <1>2, RealAbove
<1> QED BY <1>1, <1>2, <1>3, ShowsBound

LEMMA ProtectedKept ==
  ASSUME HeldInvariant, status = "running", GitUsable(host),
         NEW p \in ProtectedDirs(host) \cup (ProtectedFiles(host) \cap host.files)
  PROVE  Shows(p) = p /\ KindOf(p) # "none" /\ ~Writable(p)
<1>1. /\ Grounded(host) /\ Furnished(host)
      /\ p \in host.dirs \cup host.files /\ p \in Paths /\ p \in RealNames(host)
  BY RunningFacts DEF ProtectedDirs, RealNames, Grounded
<1>2. Ends(GitBinds(host), p, ReadOnlyOwn)
  <2>1. CASE p \in ProtectedDirs(host)
    BY <1>1, <2>1, GitDirEnds
  <2>2. CASE p \in ProtectedFiles(host) \cap host.files
    <3>1. RoBind(FileSource(host, p), p) \in ReadOnlyOwn
      BY <1>1, <2>2, RoAreReadOnlyOwn DEF FileSource
    <3>2. \A a \in OfGitFiles(host) : Keeps(a, p, ReadOnlyOwn)
      BY <1>1, OtherGitFile, RoAreReadOnlyOwn DEF Keeps
    <3> QED BY <1>1, <2>2, <3>1, <3>2, GitFileEnds
  <2> QED BY <2>1, <2>2
<1>3. KeepsFrom(host, p, ReadOnlyOwn, 13)
  <2>1. host.socket # NoPath => Keeps(RoBind(host.socket, host.socket), p, ReadOnlyOwn)
    BY <1>1, RoAreReadOnlyOwn DEF Keeps, Grounded
  <2>2. Keeps(RoBind(Bundle, Within(Tmp, "bundle")), p, ReadOnlyOwn)
    BY <1>1, NotInBundle
  <2> QED BY <2>1, <2>2 DEF KeepsFrom
<1>4. PICK a \in ReadOnlyOwn : Covers(a, p) /\ mounts[Holder(p)] = MountOf(host, a)
  BY <1>1, <1>2, <1>3, HeldByGit DEF HeldIn
<1>5. a \in OwnBinds /\ ~a.rw
  BY DEF ReadOnlyOwn
<1>6. Shows(p) = p /\ Writable(p) = a.rw
  BY <1>1, <1>4, <1>5, ShownAsIs
<1> QED BY <1>1, <1>5, <1>6, ShownIsThere

LEMMA AboveIsAncestor ==
  ASSUME NEW p \in Paths, NEW q \in Paths, Under(p, q), p # q, q # <<>>
  PROVE  q \in Ancestors(p)
<1>1. PICK m \in Nat, n \in Nat : m = Len(p) /\ n = Len(q)
  BY DEF Paths
<1>2. n <= m /\ n # 0
  BY <1>1, UnderMeans, EmptySeq DEF Paths
<1>3. ~(m <= n)
  BY <1>1, SameLength
<1>4. SubSeq(p, 1, n) = SubSeq(q, 1, n)
  BY <1>1, AboveIsPrefix
<1>5. SubSeq(q, 1, n) = q
  BY <1>1, SubSeqFull DEF Paths
<1>6. n \in 1..(m - 1)
  BY <1>2, <1>3
<1> QED BY <1>1, <1>4, <1>5, <1>6 DEF Ancestors

(* An empty file stands where a protected file is yet to exist.            *)
LEMMA StandInKept ==
  ASSUME HeldInvariant, status = "running", GitUsable(host),
         NEW p \in ProtectedFiles(host) \ host.files
  PROVE  KindOf(p) # "none" /\ ~Writable(p)
<1> DEFINE b == RoBind(EmptyFile, p)
<1>1. Grounded(host) /\ Furnished(host) /\ p \in Paths
  BY RunningFacts, ProtectedFileFacts
<1>2. ASSUME NEW q \in host.files \cup ProtectedFiles(host), Under(p, q)
      PROVE  q = p
  <2>1. q \in Paths /\ q # <<>>
    BY <1>1, ProtectedFileFacts, ProtectedNames DEF Furnished, Grounded
  <2>2. Ancestors(p) \cap (host.files \cup ProtectedFiles(host)) = {}
    BY <1>1 DEF Furnished
  <2> QED BY <1>1, <1>2, <2>1, <2>2, AboveIsAncestor
<1>3. Ends(GitBinds(host), p, {b})
  <2>1. RoBind(FileSource(host, p), p) = b
    BY DEF FileSource
  <2>2. ASSUME NEW a \in OfGitFiles(host) PROVE Keeps(a, p, {b})
    <3>1. PICK q \in ProtectedFiles(host) : a = RoBind(FileSource(host, q), q)
      BY <2>2 DEF OfGitFiles
    <3>2. Covers(a, p) => Under(p, q)
      BY <3>1 DEF Covers, RoBind
    <3> QED BY <1>2, <2>1, <3>1, <3>2 DEF Keeps
  <2> HIDE DEF b
  <2> QED BY <1>1, <2>1, <2>2, GitFileEnds
<1>4. KeepsFrom(host, p, {b}, 13)
  <2>1. host.socket # NoPath => Keeps(RoBind(host.socket, host.socket), p, {b})
    <3>1. SUFFICES ASSUME host.socket # NoPath, Covers(RoBind(host.socket, host.socket), p)
                   PROVE  FALSE
      BY DEF Keeps
    <3>2. host.socket \in host.files /\ Under(p, host.socket)
      BY <1>1, <3>1 DEF Furnished, Covers, RoBind
    <3> QED BY <1>2, <3>2
  <2>2. Keeps(RoBind(Bundle, Within(Tmp, "bundle")), p, {b})
    BY <1>1 DEF Keeps, Covers, RoBind, Furnished
  <2> HIDE DEF b
  <2> QED BY <2>1, <2>2 DEF KeepsFrom
<1>5. b.op = "bind" /\ b.src = EmptyFile /\ b.at = p /\ b.rw = FALSE
  BY DEF RoBind
<1> HIDE DEF b
<1>6. HeldIn(p, {b})
  BY <1>1, <1>3, <1>4, HeldByGit
<1>7. b \in Arguments /\ mounts[Holder(p)] = MountOf(host, b) /\ Exists(host, EmptyFile)
  BY <1>5, <1>6 DEF HeldIn
<1>8. Landing(EmptyFile, host.links) \in host.dirs \cup host.files
  BY <1>7 DEF Exists, IsDir, IsFile
<1>9. Shows(p) = Landing(EmptyFile, host.links) /\ ~Writable(p)
  <2>1. Under(p, b.at) /\ p = b.at
    BY <1>1, <1>5, UnderItself
  <2>2. Landing(b.src, host.links) \in Paths
    BY <1>1, <1>5, <1>8 DEF Grounded
  <2>3. /\ Shows(p) = Landing(b.src, host.links)
        /\ Writable(p) = b.rw
    BY <1>1, <1>5, <1>7, <2>1, <2>2, ShowsBound
  <2> QED BY <1>5, <2>3
<1> QED BY <1>8, <1>9, ShownIsThere

(* The rest of the git directory can be written.                           *)
LEMMA CommonKept ==
  ASSUME HeldInvariant, status = "running", GitUsable(host)
  PROVE  Shows(host.common) = host.common /\ Writable(host.common)
<1> DEFINE c == host.common
           b == Bind(c, c)
<1>1. /\ Grounded(host) /\ Furnished(host) /\ c \in Paths /\ c \in host.dirs
      /\ c \in RealNames(host) /\ c \notin host.files
  BY RunningFacts, GitDirFacts DEF GitUsable, Furnished, RealNames
<1>2. Covers(b, c) /\ b \in OwnBinds /\ b.rw = TRUE
  BY <1>1, UnderItself, OwnAreOwn DEF Covers, IsMount, Bind
<1>3. b \in In(Parts(host)[12])
  <2>1. Parts(host)[12] = (GitOwn(host) \o GitDirBinds(host)) \o GitFileBinds(host)
    BY PartsAre, GitParts
  <2>2. b \in In(GitOwn(host))
    BY <1>1, GitBindsSplit
  <2>3. PICK u \in Seq(Arguments) : u = GitOwn(host) \o GitDirBinds(host) /\ b \in In(u)
    BY <1>1, <2>2, GitBindsSplit, InConcat
  <2>4. PICK v \in Seq(Arguments) : v = GitFileBinds(host)
    BY <1>1, GitBindsSplit
  <2> HIDE DEF b
  <2>5. b \in In(u)
    BY <2>3
  <2>6. b \in In(u \o v)
    BY <2>5, InConcat
  <2> QED BY <2>1, <2>3, <2>4, <2>6
<1>4. ASSUME NEW a \in OfGit(host) PROVE Keeps(a, c, {b})
  <2>1. CASE a = b
    BY <2>1 DEF Keeps
  <2>2. CASE a \in RoBinds(ProtectedDirs(host))
    <3>1. PICK g \in GitDirs(host) : a = RoBind(Within(g, "hooks"), Within(g, "hooks"))
      BY <2>2 DEF RoBinds, ProtectedDirs
    <3>2. g \in Paths /\ Under(g, c) /\ "hooks" \in FileNames
      BY <1>1, GitDirFacts, OwnNamesAssumption
    <3>3. Len(c) <= Len(g) /\ Len(g) \in Nat /\ Len(c) \in Nat
      BY <1>1, <3>2, UnderMeans DEF Paths
    <3>4. Within(g, "hooks") \in Paths /\ Len(Within(g, "hooks")) = Len(g) + 1
      BY <3>2, WithinIsPath
    <3>5. ~Under(c, Within(g, "hooks"))
      <4>1. Under(c, Within(g, "hooks")) => Len(Within(g, "hooks")) <= Len(c)
        BY <1>1, <3>4, UnderMeans
      <4> QED BY <3>3, <3>4, <4>1
    <3> QED BY <3>1, <3>5 DEF Keeps, Covers, RoBind
  <2>3. CASE a \in OfGitFiles(host)
    BY <1>1, <2>3, OtherGitFile DEF Keeps
  <2> QED BY <1>4, <2>1, <2>2, <2>3 DEF OfGit
<1>5. KeepsFrom(host, c, {b}, 12)
  <2>1. host.socket # NoPath => Keeps(RoBind(host.socket, host.socket), c, {b})
    <3>1. SUFFICES ASSUME host.socket # NoPath, Covers(RoBind(host.socket, host.socket), c)
                   PROVE  FALSE
      BY DEF Keeps
    <3>2. host.socket \in host.files /\ Under(c, host.socket)
      BY <1>1, <3>1 DEF Furnished, Covers, RoBind
    <3> QED BY <1>1, <3>2, NoFileAbove
  <2>2. Keeps(RoBind(Bundle, Within(Tmp, "bundle")), c, {b})
    BY <1>1, NotInBundle
  <2> HIDE DEF b
  <2> QED BY <1>4, <2>1, <2>2 DEF KeepsFrom
<1> HIDE DEF b
<1>6. HeldIn(c, {b})
  BY <1>1, <1>2, <1>3, <1>5, HeldByPart
<1>7. mounts[Holder(c)] = MountOf(host, b)
  BY <1>6 DEF HeldIn
<1>8. Shows(c) = c /\ Writable(c) = b.rw
  <2> HIDE DEF c
  <2> QED BY <1>1, <1>2, <1>7, ShownAsIs
<1> QED BY <1>2, <1>8

(* Whatever is declared around them, the binds of linux/compute.py:236-240 *)
(* leave the hooks directories that exist, and config, config.worktree,    *)
(* alternates and pointer files, there or not, read-only where git finds   *)
(* them, on the host's own, and the rest of the git directory writable     *)
(* (README.md:428).  A hooks directory yet to be made is not among them.   *)
THEOREM GitAlwaysProtected == Spec => []GitProtected
<1>1. ASSUME HeldInvariant PROVE GitProtected
  <2> DEFINE Existing == ProtectedDirs(host) \cup (ProtectedFiles(host) \cap host.files)
  <2> SUFFICES ASSUME status = "running", GitUsable(host)
               PROVE  /\ \A p \in Existing : Shows(p) = p
                      /\ \A p \in ProtectedDirs(host) \cup ProtectedFiles(host) :
                           KindOf(p) # "none" /\ ~Writable(p)
                      /\ Shows(host.common) = host.common /\ Writable(host.common)
    BY DEF GitProtected
  <2>1. \A p \in Existing : Shows(p) = p
    BY <1>1, ProtectedKept
  <2>2. ASSUME NEW p \in ProtectedDirs(host) \cup ProtectedFiles(host)
        PROVE  KindOf(p) # "none" /\ ~Writable(p)
    BY <1>1, <2>2, ProtectedKept, StandInKept
  <2> QED BY <1>1, <2>1, <2>2, CommonKept
<1> QED BY <1>1, HeldHolds, PTL
-----------------------------------------------------------------------------
(* The modes.                                                              *)

LEMMA HeldWritable ==
  ASSUME NEW p, NEW a, mounts[Holder(p)] = MountOf(host, a)
  PROVE  Writable(p) = a.rw
<1>1. mounts[Holder(p)].rw = a.rw
  BY DEF MountOf
<1> QED BY <1>1, Zenon DEF Writable

(* From the read-only directories on, what makes a name writable was asked *)
(* for file by file, or is the git directory.                              *)
RoOrAsked(h) ==
  {a \in Arguments :
     \/ a.rw = FALSE
     \/ GitUsable(h) /\ a.at = h.common
     \/ \E e \in DeclaredSet(h) : e.mode = "rw" /\ e.kind = "file" /\ a.at = e.path}

LEMMA RoKeeps ==
  ASSUME NEW h, Read(h), NEW p
  PROVE  KeepsFrom(h, p, RoOrAsked(h), 6) /\ KeepsFrom(h, p, RoOrAsked(h), 8)
<1> DEFINE G == RoOrAsked(h)
<1>0. Grounded(h)
  BY DEF Read
<1>1. ASSUME NEW kind, NEW a \in AllDeclared(h, "ro", kind) PROVE Keeps(a, p, G)
  <2>1. PICK d \in DeclaredSet(h) : d.mode = "ro" /\ a \in OfDeclared(d)
    BY <1>1 DEF AllDeclared
  <2>2. a \in Arguments /\ a.rw = (d.mode = "rw")
    BY <2>1 DEF OfDeclared
  <2>3. a.rw = FALSE
    BY <2>1, <2>2
  <2> QED BY <2>2, <2>3 DEF Keeps, RoOrAsked
<1>2. ASSUME NEW a \in AllDeclared(h, "rw", "file") PROVE Keeps(a, p, G)
  <2>1. PICK e \in DeclaredSet(h) : e.mode = "rw" /\ e.kind = "file" /\ a \in OfDeclared(e)
    BY <1>2 DEF AllDeclared
  <2>2. a \in Arguments /\ a.at = e.path
    BY <2>1 DEF OfDeclared
  <2> QED BY <2>1, <2>2 DEF Keeps, RoOrAsked
<1>3. ASSUME NEW src \in Paths, NEW at \in Paths
      PROVE  Keeps(RoBind(src, at), p, G)
  BY <1>3, BindsAreArguments DEF Keeps, RoOrAsked, RoBind
<1>4. \A a \in RoBinds(StoreTargets(h, BoundPrefixes(h))) : Keeps(a, p, G)
  BY <1>3, StoreTargetFacts DEF RoBinds
<1>5. ASSUME NEW a \in OfGit(h) PROVE Keeps(a, p, G)
  <2>1. GitUsable(h) /\ a \in Arguments
    BY <1>0, <1>5, GitPartsHold DEF OfGit
  <2>2. CASE a = Bind(h.common, h.common)
    BY <2>1, <2>2 DEF Keeps, RoOrAsked, Bind
  <2>3. CASE a \in RoBinds(ProtectedDirs(h))
    BY <2>1, <2>3 DEF Keeps, RoOrAsked, RoBinds, RoBind
  <2>4. CASE a \in OfGitFiles(h)
    BY <2>1, <2>4 DEF Keeps, RoOrAsked, OfGitFiles, RoBind
  <2> QED BY <1>5, <2>2, <2>3, <2>4 DEF OfGit
<1>6. h.socket # NoPath => Keeps(RoBind(h.socket, h.socket), p, G)
  BY <1>0, <1>3 DEF Grounded
<1>7. Keeps(RoBind(Bundle, Within(Tmp, "bundle")), p, G)
  BY <1>3, PlacesAssumption, OwnNamesAssumption, WithinIsPath
<1> HIDE DEF G
<1>8. KeepsFrom(h, p, G, 6)
  BY <1>1, <1>2, <1>4, <1>5, <1>6, <1>7 DEF KeepsFrom
<1>9. KeepsFrom(h, p, G, 8)
  BY <1>1, <1>4, <1>5, <1>6, <1>7 DEF KeepsFrom
<1> QED BY <1>8, <1>9 DEF G

LEMMA RoHeld ==
  ASSUME HeldInvariant, status = "running", NEW d \in DeclaredSet(host), d.mode = "ro",
         Bound(d), NEW p \in Paths, Under(p, d.path)
  PROVE  HeldIn(p, RoOrAsked(host))
<1>1. Read(host) /\ d.kind \in {"dir", "file"}
  BY RunningFacts, DeclaredFacts DEF Known
<1>2. PICK b \in In(DeclaredBinds(host, "ro", d.kind)) : b \in OfDeclared(d)
  BY <1>1, BoundIn DEF Bound
<1>3. Covers(b, p)
  BY <1>2 DEF OfDeclared, Covers, IsMount
<1>4. KeepsFrom(host, p, RoOrAsked(host), 6) /\ KeepsFrom(host, p, RoOrAsked(host), 8)
  BY <1>1, RoKeeps
<1>5. CASE d.kind = "dir"
  <2>1. b \in In(Parts(host)[6])
    BY <1>2, <1>5, PartsAre
  <2>2. 6 \in 1..14
    OBVIOUS
  <2> QED BY <1>3, <1>4, <2>1, <2>2, HeldByPart
<1>6. CASE d.kind = "file"
  <2>1. b \in In(Parts(host)[8])
    BY <1>2, <1>6, PartsAre
  <2>2. 8 \in 1..14
    OBVIOUS
  <2> QED BY <1>3, <1>4, <2>1, <2>2, HeldByPart
<1> QED BY <1>1, <1>5, <1>6

LEMMA RoIsKept == HeldInvariant => RoKept
<1> SUFFICES ASSUME HeldInvariant, status = "running",
                    NEW d \in DeclaredSet(host), d.mode = "ro", Bound(d),
                    NEW p \in Shown, Writable(p), Under(p, d.path)
             PROVE  \/ GitUsable(host) /\ Under(p, host.common)
                    \/ \E e \in DeclaredSet(host) :
                         e.mode = "rw" /\ e.kind = "file" /\ Under(p, e.path)
  BY DEF RoKept
<1>1. p \in Paths
  <2>1. Shown \subseteq Names
    BY DEF Shown
  <2>2. Names \subseteq Paths
    BY RunningFacts, NamesArePaths DEF HeldInvariant, Invariant
  <2> QED BY <2>1, <2>2
<1>2. PICK a \in RoOrAsked(host) : Covers(a, p) /\ mounts[Holder(p)] = MountOf(host, a)
  BY <1>1, RoHeld DEF HeldIn
<1>3. Under(p, a.at)
  BY <1>2 DEF Covers
<1>4. a.rw # FALSE
  BY <1>2, HeldWritable
<1> QED BY <1>3, <1>4 DEF RoOrAsked

(* What covers a name once the workspace is bound can be written, or is    *)
(* one of the exceptions.                                                  *)
RwOrExcepted(h) ==
  {a \in Arguments :
     \/ a.rw = TRUE
     \/ \E d \in DeclaredSet(h) : d.mode = "ro" /\ a.at = d.path
     \/ StrictlyUnder(a.at, Store)
     \/ GitUsable(h) /\ a.at \in ProtectedDirs(h) \cup ProtectedFiles(h)
     \/ h.socket # NoPath /\ a.at = h.socket}

LEMMA RwKeeps ==
  ASSUME NEW h, Read(h), Furnished(h), NEW p \in RealNames(h), NEW k \in {4, 5, 7}
  PROVE  KeepsFrom(h, p, RwOrExcepted(h), k)
<1> DEFINE G == RwOrExcepted(h)
<1>0. Grounded(h)
  BY DEF Read
<1>1. Keeps(Bind(h.workspace, h.workspace), p, G)
  BY <1>0, BindsAreArguments DEF Grounded, Keeps, RwOrExcepted, Bind
<1>2. ASSUME NEW mode, NEW kind, NEW a \in AllDeclared(h, mode, kind) PROVE Keeps(a, p, G)
  <2>1. PICK d \in DeclaredSet(h) : a \in OfDeclared(d)
    BY <1>2 DEF AllDeclared
  <2>2. a \in Arguments /\ a.at = d.path /\ a.rw = (d.mode = "rw")
    BY <2>1 DEF OfDeclared
  <2>3. d.mode \in {"rw", "ro"}
    BY DeclaredFacts DEF Known
  <2>4. a.rw = TRUE \/ d.mode = "ro"
    BY <2>2, <2>3
  <2> QED BY <2>2, <2>4 DEF Keeps, RwOrExcepted
<1>3. ASSUME NEW a \in RoBinds(StoreTargets(h, BoundPrefixes(h))) PROVE Keeps(a, p, G)
  <2>1. PICK l \in StoreTargets(h, BoundPrefixes(h)) : a = RoBind(l, l)
    BY <1>3 DEF RoBinds
  <2>2. l \in Paths /\ StrictlyUnder(l, Store)
    BY StoreTargetFacts DEF StoreTargets
  <2>3. a \in Arguments /\ a.at = l
    BY <2>1, <2>2, BindsAreArguments DEF RoBind
  <2> QED BY <2>2, <2>3 DEF Keeps, RwOrExcepted
<1>4. ASSUME NEW a \in OfGit(h) PROVE Keeps(a, p, G)
  <2>1. GitUsable(h) /\ a \in Arguments
    BY <1>0, <1>4, GitPartsHold DEF OfGit
  <2>2. CASE a = Bind(h.common, h.common)
    BY <2>1, <2>2 DEF Keeps, RwOrExcepted, Bind
  <2>3. CASE a \in RoBinds(ProtectedDirs(h))
    BY <2>1, <2>3 DEF Keeps, RwOrExcepted, RoBinds, RoBind
  <2>4. CASE a \in OfGitFiles(h)
    BY <2>1, <2>4 DEF Keeps, RwOrExcepted, OfGitFiles, RoBind
  <2> QED BY <1>4, <2>2, <2>3, <2>4 DEF OfGit
<1>5. h.socket # NoPath => Keeps(RoBind(h.socket, h.socket), p, G)
  BY <1>0, BindsAreArguments DEF Grounded, Keeps, RwOrExcepted, RoBind
<1>6. Keeps(RoBind(Bundle, Within(Tmp, "bundle")), p, G)
  BY <1>0, NotInBundle
<1> HIDE DEF G
<1>7. KeepsFrom(h, p, G, k)
  BY <1>1, <1>2, <1>3, <1>4, <1>5, <1>6 DEF KeepsFrom
<1> QED BY <1>7 DEF G

LEMMA StrictlyWithin ==
  ASSUME NEW p \in Paths, NEW q \in Paths, NEW r \in Paths, Under(p, q), StrictlyUnder(q, r)
  PROVE  StrictlyUnder(p, r)
<1>1. Under(p, r)
  BY UnderUnder DEF StrictlyUnder
<1>2. ASSUME p = r PROVE FALSE
  <2>1. Len(q) <= Len(r)
    BY <1>2, UnderMeans
  <2>2. q = r
    BY <2>1, SameLength DEF StrictlyUnder
  <2> QED BY <2>2 DEF StrictlyUnder
<1> QED BY <1>1, <1>2 DEF StrictlyUnder

RwAsked(h) ==
  {h.workspace} \cup {d.path : d \in {e \in DeclaredSet(h) : e.mode = "rw" /\ DeclaredBind(h, e) # <<>>}}

LEMMA RwHeld ==
  ASSUME HeldInvariant, status = "running", NEW p \in RwAsked(host)
  PROVE  p \in RealNames(host) /\ HeldIn(p, RwOrExcepted(host))
<1> DEFINE G == RwOrExcepted(host)
<1>1. /\ Read(host) /\ Grounded(host) /\ Furnished(host)
      /\ ~DeclaredRefused(host) /\ IsDir(host, host.workspace)
  BY RunningFacts
<1>2. /\ p \in RealNames(host) /\ p \in Paths
      /\ \E k \in {4, 5, 7} : \E b \in In(Parts(host)[k]) : b.op = "bind" /\ b.at = p
  <2>1. CASE p = host.workspace
    <3>1. p \in Paths /\ FirstLink(p, host.links) = 0
      BY <1>1, <2>1 DEF Grounded, Furnished
    <3>2. Landing(p, host.links) = p
      BY <3>1, FirstLinkIsFirst, NoLinkNoWalk
    <3>3. p \in host.dirs
      BY <1>1, <2>1, <3>2 DEF IsDir
    <3>4. Parts(host)[4] = <<Bind(p, p)>>
      BY <2>1, PartsAre
    <3>5. Bind(p, p) \in In(Parts(host)[4])
      BY <3>4, SingleHolds
    <3>6. Bind(p, p).op = "bind" /\ Bind(p, p).at = p
      BY DEF Bind
    <3> QED BY <3>1, <3>3, <3>5, <3>6 DEF RealNames
  <2>2. ASSUME NEW d \in DeclaredSet(host), d.mode = "rw", DeclaredBind(host, d) # <<>>,
               p = d.path
        PROVE  /\ p \in RealNames(host) /\ p \in Paths
               /\ \E k \in {4, 5, 7} : \E b \in In(Parts(host)[k]) : b.op = "bind" /\ b.at = p
    <3>1. Known(host, d) /\ ~d.stopped /\ d.exists
      BY <1>1, DeclaredFacts DEF DeclaredRefused
    <3>2. p \in RealNames(host) /\ p \in Paths /\ d.kind \in {"dir", "file"}
      BY <2>2, <3>1 DEF Known, Found
    <3>3. PICK b \in In(DeclaredBinds(host, "rw", d.kind)) : b \in OfDeclared(d)
      BY <1>1, <2>2, BoundIn
    <3>6. b.op = "bind" /\ b.at = p
      BY <2>2, <3>3 DEF OfDeclared
    <3>4. d.kind = "dir" => b \in In(Parts(host)[5])
      BY <3>3, PartsAre
    <3>5. d.kind = "file" => b \in In(Parts(host)[7])
      BY <3>3, PartsAre
    <3> QED BY <3>2, <3>4, <3>5, <3>6
  <2> QED BY <2>1, <2>2 DEF RwAsked
<1>8. PICK k \in {4, 5, 7} : \E b \in In(Parts(host)[k]) : b.op = "bind" /\ b.at = p
  BY <1>2
<1>3. PICK b \in In(Parts(host)[k]) : b.op = "bind" /\ b.at = p
  BY <1>8
<1>4. KeepsFrom(host, p, G, k)
  BY <1>1, <1>2, RwKeeps
<1>5. Covers(b, p)
  BY <1>2, <1>3, UnderItself DEF Covers, IsMount
<1>6. k \in 1..14
  OBVIOUS
<1> HIDE DEF G
<1>7. HeldIn(p, G)
  BY <1>2, <1>3, <1>4, <1>5, <1>6, HeldByPart
<1> QED BY <1>2, <1>7 DEF G

LEMMA RwIsKept == HeldInvariant => RwKept
<1> SUFFICES ASSUME HeldInvariant, status = "running", NEW p \in RwAsked(host)
             PROVE  \/ Writable(p)
                    \/ Protects(p) \/ p = host.socket \/ StrictlyUnder(p, Store)
                    \/ \E d \in DeclaredSet(host) : d.mode = "ro" /\ Under(p, d.path)
  BY DEF RwKept, RwAsked, Bound
<1>1. Grounded(host) /\ Furnished(host) /\ p \in RealNames(host) /\ p \in Paths
  BY RunningFacts, RwHeld DEF Grounded, RealNames
<1>2. PICK a \in RwOrExcepted(host) :
        a \in Arguments /\ Covers(a, p) /\ mounts[Holder(p)] = MountOf(host, a)
  BY RwHeld DEF HeldIn
<1>3. Under(p, a.at) /\ a.at \in Paths
  BY <1>2 DEF Covers, Arguments
<1>4. CASE a.rw = TRUE
  <2>1. Writable(p) = a.rw
    BY <1>2, HeldWritable
  <2> QED BY <1>4, <2>1
<1>5. CASE \E d \in DeclaredSet(host) : d.mode = "ro" /\ a.at = d.path
  BY <1>3, <1>5
<1>6. CASE StrictlyUnder(a.at, Store)
  BY <1>1, <1>3, <1>6, PlacesAssumption, StrictlyWithin
<1>7. CASE GitUsable(host) /\ a.at \in ProtectedDirs(host) \cup ProtectedFiles(host)
  BY <1>3, <1>7 DEF Protects
<1>8. CASE host.socket # NoPath /\ a.at = host.socket
  <2>1. host.socket \in host.files /\ Under(p, host.socket)
    BY <1>1, <1>3, <1>8 DEF Furnished
  <2> QED BY <1>1, <2>1, NoFileAbove
<1> QED BY <1>2, <1>4, <1>5, <1>6, <1>7, <1>8 DEF RwOrExcepted

(* The modes of the binds outlive the mounts that come after them,         *)
(* whatever is declared inside whatever: a name declared read-only and     *)
(* bound, link or not, stays so but where a file or the git directory was  *)
(* granted for writing, and one declared read-write and bound can be       *)
(* written but where the launch or a read-only declaration says otherwise  *)
(* (compute.py:222-244).  A link that an enclosing bind exposes, and a     *)
(* file that is a link out of the store, get no bind and so no mode        *)
(* (binds.py:122-128).                                                     *)
THEOREM ModesAlwaysKept == Spec => []ModesKept
<1>1. HeldInvariant => ModesKept
  BY RoIsKept, RwIsKept DEF ModesKept
<1> QED BY <1>1, HeldHolds, PTL

-----------------------------------------------------------------------------
(* The parts, place by place.                                              *)

(* Each element of a set is in its sequence once.                          *)
LEMMA SetSeqOnce ==
  ASSUME NEW S, IsFiniteSet(S)
  PROVE  \A i, j \in 1..Len(SetToSeq(S)) : SetToSeq(S)[i] = SetToSeq(S)[j] => i = j
<1>1. PICK N \in Nat : N = Cardinality(S) /\ Bijection(1..N, S) # {}
  BY FS_CardinalityType DEF ExistsBijection
<1>2. PICK f \in [1..N -> S] : IsInjective(f)
  BY <1>1 DEF Bijection, Injection
<1> DEFINE s == SetToSeq(S)
<1>3. s \in [1..N -> S] /\ IsInjective(s)
  BY <1>1, <1>2 DEF SetToSeq
<1> HIDE DEF s
<1>4. Len(s) = N
  BY <1>3
<1> QED BY <1>3, <1>4 DEF IsInjective, s

(* The elements of u are those of K sequences, in their order: element i   *)
(* is number place[i] of the sequence part[i].                             *)
Laid(u, b, K, part, place) ==
  /\ part \in [1..Len(u) -> 1..K] /\ place \in [1..Len(u) -> Nat]
  /\ \A i \in 1..Len(u) : place[i] \in 1..Len(b[part[i]]) /\ u[i] = b[part[i]][place[i]]
  /\ \A i, j \in 1..Len(u) :
       i < j => part[i] < part[j] \/ (part[i] = part[j] /\ place[i] < place[j])
  /\ \A k \in 1..K : \A n \in 1..Len(b[k]) :
       \E i \in 1..Len(u) : part[i] = k /\ place[i] = n

(* One sequence, and one more of them.                                     *)
LEMMA LaidFirst ==
  ASSUME NEW S, NEW b, b[1] \in Seq(S)
  PROVE  \E part, place : Laid(b[1], b, 1, part, place)
<1>1. PICK m \in Nat : m = Len(b[1])
  OBVIOUS
<1> DEFINE part == [i \in 1..m |-> 1]
           place == [i \in 1..m |-> i]
<1>2. Laid(b[1], b, 1, part, place)
  BY <1>1 DEF Laid
<1> QED BY <1>2

LEMMA LaidMore ==
  ASSUME NEW S, NEW u \in Seq(S), NEW b, NEW K \in Nat, NEW part, NEW place,
         Laid(u, b, K, part, place), b[K + 1] \in Seq(S)
  PROVE  \E more, at : Laid(u \o b[K + 1], b, K + 1, more, at)
<1>1. PICK m \in Nat, n \in Nat, t \in Seq(S) : m = Len(u) /\ t = b[K + 1] /\ n = Len(t)
  OBVIOUS
<1> DEFINE v == u \o t
           more == [i \in 1..(m + n) |-> IF i <= m THEN part[i] ELSE K + 1]
           at == [i \in 1..(m + n) |-> IF i <= m THEN place[i] ELSE i - m]
<1>2. /\ v \in Seq(S) /\ Len(v) = m + n
      /\ \A i \in 1..(m + n) : v[i] = IF i <= m THEN u[i] ELSE t[i - m]
  BY <1>1, ConcatProperties
<1>3. /\ \A i \in 1..m : part[i] \in 1..K /\ place[i] \in Nat
      /\ \A i \in 1..m : place[i] \in 1..Len(b[part[i]]) /\ u[i] = b[part[i]][place[i]]
      /\ \A i, j \in 1..m :
           i < j => part[i] < part[j] \/ (part[i] = part[j] /\ place[i] < place[j])
      /\ \A k \in 1..K : \A l \in 1..Len(b[k]) :
           \E i \in 1..m : part[i] = k /\ place[i] = l
  BY <1>1 DEF Laid
<1>4. \A i \in 1..m : i \in 1..(m + n) /\ more[i] = part[i] /\ at[i] = place[i] /\ v[i] = u[i]
  BY <1>2
<1>5. \A i \in 1..(m + n) : i \in 1..m \/ (/\ i - m \in 1..n /\ ~(i <= m)
                                           /\ more[i] = K + 1 /\ at[i] = i - m
                                           /\ v[i] = t[i - m])
  <2> TAKE i \in 1..(m + n)
  <2>1. CASE i <= m
    BY <2>1
  <2>2. CASE ~(i <= m)
    <3>1. i - m \in 1..n
      BY <2>2
    <3> QED BY <1>2, <2>2, <3>1
  <2> QED BY <2>1, <2>2
<1>6. more \in [1..(m + n) -> 1..(K + 1)] /\ at \in [1..(m + n) -> Nat]
  <2>1. ASSUME NEW i \in 1..(m + n) PROVE more[i] \in 1..(K + 1) /\ at[i] \in Nat
    <3>1. CASE i \in 1..m
      <4>1. part[i] \in 1..(K + 1)
        BY <1>3, <3>1
      <4> QED BY <1>3, <1>4, <3>1, <4>1
    <3>2. CASE i \notin 1..m
      BY <1>5, <3>2
    <3> QED BY <3>1, <3>2
  <2> QED BY <2>1
<1> HIDE DEF v, more, at
<1>7. ASSUME NEW i \in 1..(m + n)
      PROVE  at[i] \in 1..Len(b[more[i]]) /\ v[i] = b[more[i]][at[i]]
  <2>1. CASE i \in 1..m
    BY <1>3, <1>4, <2>1
  <2>2. CASE i \notin 1..m
    BY <1>1, <1>5, <2>2
  <2> QED BY <2>1, <2>2
<1>8. ASSUME NEW i \in 1..(m + n), NEW j \in 1..(m + n), i < j
      PROVE  more[i] < more[j] \/ (more[i] = more[j] /\ at[i] < at[j])
  <2>1. CASE i \in 1..m /\ j \in 1..m
    BY <1>3, <1>4, <1>8, <2>1
  <2>2. CASE i \in 1..m /\ j \notin 1..m
    <3>1. more[i] \in 1..K /\ more[j] = K + 1
      BY <1>3, <1>4, <1>5, <2>2
    <3> QED BY <3>1
  <2>3. CASE i \notin 1..m /\ j \notin 1..m
    BY <1>5, <1>8, <2>3
  <2>4. CASE i \notin 1..m /\ j \in 1..m
    BY <1>8, <2>4
  <2> QED BY <2>1, <2>2, <2>3, <2>4
<1>9. ASSUME NEW k \in 1..(K + 1), NEW l \in 1..Len(b[k])
      PROVE  \E i \in 1..(m + n) : more[i] = k /\ at[i] = l
  <2>1. CASE k \in 1..K
    <3>1. PICK i \in 1..m : part[i] = k /\ place[i] = l
      BY <1>3, <2>1
    <3>2. i \in 1..(m + n) /\ more[i] = k /\ at[i] = l
      BY <1>4, <3>1
    <3> QED BY <3>2
  <2>2. CASE k \notin 1..K
    <3>1. k = K + 1 /\ l \in 1..n
      BY <1>1, <2>2
    <3>2. m + l \in 1..(m + n) /\ m + l \notin 1..m /\ (m + l) - m = l
      BY <3>1
    <3>3. more[m + l] = K + 1 /\ at[m + l] = l
      BY <1>5, <3>2
    <3> QED BY <3>1, <3>2, <3>3
  <2> QED BY <2>1, <2>2
<1>10. Laid(v, b, K + 1, more, at)
  BY <1>2, <1>6, <1>7, <1>8, <1>9 DEF Laid
<1>11. v = u \o b[K + 1]
  BY <1>1 DEF v
<1> QED BY <1>10, <1>11

(* The arguments of bubblewrap are its fourteen parts, in their order.     *)
LEMMA BwrapLaid ==
  ASSUME NEW h, Each(Parts(h), Arguments, 1)
  PROVE  /\ BwrapArgs(h) \in Seq(Arguments)
         /\ \E part, place : Laid(BwrapArgs(h), Parts(h), 14, part, place)
<1>1. PICK b : b = Parts(h)
  OBVIOUS
<1> DEFINE Ok(j, u) == u \in Seq(Arguments) /\ \E part, place : Laid(u, b, j, part, place)
<1>2. ASSUME NEW j \in 2..14, NEW u, Ok(j - 1, u) PROVE Ok(j, u \o b[j])
  <2>1. b[j] \in Seq(Arguments) /\ (j - 1) + 1 = j /\ j - 1 \in Nat
    BY <1>1, EachAt
  <2>2. u \o b[j] \in Seq(Arguments)
    BY <1>2, <2>1, ConcatProperties
  <2>3. PICK part, place : Laid(u, b, j - 1, part, place)
    BY <1>2
  <2>4. \E more, at : Laid(u \o b[j], b, j, more, at)
    <3>1. PICK K \in Nat : K = j - 1 /\ K + 1 = j
      BY <2>1
    <3>2. u \in Seq(Arguments) /\ Laid(u, b, K, part, place) /\ b[K + 1] \in Seq(Arguments)
      BY <1>2, <2>1, <2>3, <3>1
    <3>3. \E more, at : Laid(u \o b[K + 1], b, K + 1, more, at)
      BY <3>2, LaidMore
    <3> QED BY <3>1, <3>3
  <2> QED BY <2>2, <2>4
<1>3. Ok(1, b[1])
  <2>1. b[1] \in Seq(Arguments)
    BY <1>1, EachAt
  <2>2. \E part, place : Laid(b[1], b, 1, part, place)
    BY <2>1, LaidFirst
  <2> QED BY <2>1, <2>2
<1> DEFINE u2 == b[1] \o b[2]
           u3 == u2 \o b[3]
           u4 == u3 \o b[4]
           u5 == u4 \o b[5]
           u6 == u5 \o b[6]
           u7 == u6 \o b[7]
           u8 == u7 \o b[8]
           u9 == u8 \o b[9]
           u10 == u9 \o b[10]
           u11 == u10 \o b[11]
           u12 == u11 \o b[12]
           u13 == u12 \o b[13]
           u14 == u13 \o b[14]
<1> HIDE DEF Ok
<1>4. Ok(2, u2)
  BY <1>2, <1>3
<1>5. Ok(3, u3)
  BY <1>2, <1>4
<1>6. Ok(4, u4)
  BY <1>2, <1>5
<1>7. Ok(5, u5)
  BY <1>2, <1>6
<1>8. Ok(6, u6)
  BY <1>2, <1>7
<1>9. Ok(7, u7)
  BY <1>2, <1>8
<1>10. Ok(8, u8)
  BY <1>2, <1>9
<1>11. Ok(9, u9)
  BY <1>2, <1>10
<1>12. Ok(10, u10)
  BY <1>2, <1>11
<1>13. Ok(11, u11)
  BY <1>2, <1>12
<1>14. Ok(12, u12)
  BY <1>2, <1>13
<1>15. Ok(13, u13)
  BY <1>2, <1>14
<1>16. Ok(14, u14)
  BY <1>2, <1>15
<1>17. BwrapArgs(h) = u14
  BY <1>1, PartsAre DEF BwrapArgs
<1> HIDE DEF u14
<1> QED BY <1>1, <1>16, <1>17 DEF Ok

-----------------------------------------------------------------------------
(* What the launch reads of the walks.                                     *)

(* No link is above a final name.                                          *)
LEMMA FinalAbove ==
  ASSUME NEW p \in Paths, NEW q \in Paths, NEW map, <<>> \notin DOMAIN map,
         AtFinal(p, map), Under(p, q), q # p
  PROVE  FirstLink(q, map) = 0 /\ q \notin DOMAIN map
<1>1. PICK m \in Nat, n \in Nat : m = Len(q) /\ n = Len(p) /\ m < n
  BY UnderMeans, SameLength DEF Paths
<1>2. \A k \in 1..m : SubSeq(p, 1, k) \notin DOMAIN map
  BY <1>1, FirstLinkIsFirst DEF AtFinal
<1>3. \A k \in 0..m : SubSeq(q, 1, k) = SubSeq(p, 1, k)
  BY <1>1, AboveIsPrefix
<1>4. \A k \in 1..m : SubSeq(q, 1, k) \notin DOMAIN map
  <2> TAKE k \in 1..m
  <2>1. k \in 0..m
    OBVIOUS
  <2> QED BY <1>2, <1>3, <2>1
<1>5. FirstLink(q, map) = 0
  BY <1>1, <1>4, FirstLinkIsFirst
<1>6. q \notin DOMAIN map
  <2>1. CASE m = 0
    <3>1. q = <<>>
      BY <1>1, <2>1, EmptySeq DEF Paths
    <3> QED BY <3>1
  <2>2. CASE m # 0
    <3>1. SubSeq(q, 1, m) = q /\ m \in 1..m
      BY <1>1, <2>2 DEF Paths
    <3> QED BY <1>4, <3>1
  <2> QED BY <2>1, <2>2
<1> QED BY <1>5, <1>6

(* A final name whose walk goes on is itself a link.                       *)
LEMMA FinalIsLink ==
  ASSUME NEW p \in Paths, NEW map, AtFinal(p, map), FirstLink(p, map) # 0
  PROVE  p \in DOMAIN map
<1>1. FirstLink(p, map) = Len(p) /\ AtLink(p, map) \in DOMAIN map
  BY FirstLinkIsFirst DEF AtFinal
<1>2. AtLink(p, map) = p
  BY <1>1 DEF AtLink, Paths
<1> QED BY <1>1, <1>2

(* Every hop is final, and leads where the walk leads.                     *)
LEMMA HopsLead ==
  ASSUME NEW p \in Paths, NEW map, \A q \in DOMAIN map : map[q] \in Paths, Whole(p, map),
         NEW j \in 1..Len(Hops(p, map))
  PROVE  AtFinal(Hops(p, map)[j], map) /\ Landing(Hops(p, map)[j], map) = Landing(p, map)
<1>1. PICK k \in 1..MaxFollows :
        Hops(p, map)[j] = Trail(p, map)[k] /\ AtFinal(Trail(p, map)[k], map)
  BY HopIsStep
<1>2. k \in 0..MaxFollows
  BY FollowsAssumption
<1> QED BY <1>1, <1>2, WholeAhead

(* A name that is a link and has no hops leads to "/".                     *)
LEMMA NoHopToRoot ==
  ASSUME NEW p \in Paths, NEW map, \A q \in DOMAIN map : map[q] \in Paths, Whole(p, map),
         Hops(p, map) = <<>>, FirstLink(PhysicalPath(p, map), map) # 0
  PROVE  Landing(p, map) = <<>>
<1>1. PICK k \in 0..MaxFollows :
        /\ PhysicalPath(p, map) = Trail(p, map)[k]
        /\ AtFinal(PhysicalPath(p, map), map)
  BY PhysicalIsFinal
<1>2. /\ AtFinal(Trail(p, map)[MaxFollows], map) /\ MaxFollows \in k..MaxFollows
      /\ FirstLink(Trail(p, map)[MaxFollows], map) = 0
  BY FollowsAssumption DEF Whole, Landing, AtFinal
<1>3. \/ Trail(p, map)[MaxFollows] \in {Trail(p, map)[k], <<>>}
      \/ \E j \in 1..Len(Hops(p, map)) : Hops(p, map)[j] = Trail(p, map)[MaxFollows]
  BY <1>1, <1>2, FinalsAreHops
<1>4. Len(Hops(p, map)) = 0
  BY EmptySeq
<1> QED BY <1>1, <1>2, <1>3, <1>4 DEF Landing

(* A link of the host as the walk comes upon it.                           *)
RealLink(h, l) ==
  l.path \in DOMAIN h.links /\ l.to = h.links[l.path] /\ AtFinal(l.path, h.links)

(* Every link followed on the way is one of the host, at its final name.   *)
LEMMA ParentsAreLinks ==
  ASSUME NEW h, Grounded(h), NEW p \in Paths, NEW j \in 1..Len(ParentLinks(p, h.links))
  PROVE  RealLink(h, ParentLinks(p, h.links)[j])
<1> DEFINE map == h.links
           steps == ParentSteps(p, map)
<1>1. \A q \in DOMAIN map : map[q] \in Paths
  BY DEF Grounded
<1>2. \A n \in 1..MaxFollows : steps[n] \in Seq(PathPairs)
  BY <1>1, ParentStepsArePaths
<1>3. j \in 1..Len(Gathered(steps)[MaxFollows])
  BY DEF ParentLinks
<1>4. PICK n \in 1..MaxFollows : \E i \in 1..Len(steps[n]) :
        Gathered(steps)[MaxFollows][j] = steps[n][i]
  <2>1. PICK st : st = steps
    OBVIOUS
  <2>2. (\A n \in 1..MaxFollows : st[n] \in Seq(PathPairs))
          /\ j \in 1..Len(Gathered(st)[MaxFollows])
    BY <1>2, <1>3, <2>1
  <2> HIDE DEF steps
  <2>3. \E n \in 1..MaxFollows : \E i \in 1..Len(st[n]) :
          Gathered(st)[MaxFollows][j] = st[n][i]
    BY <2>2, FromGathered
  <2> QED BY <2>1, <2>3
<1> DEFINE q == Trail(p, map)[n - 1]
           link == [path |-> AtLink(q, map), to |-> map[AtLink(q, map)]]
<1>5. steps[n] = IF AtFinal(q, map) THEN <<>> ELSE <<link>>
  BY DEF ParentSteps
<1>6. q \in Paths
  <2>1. n - 1 \in 0..MaxFollows
    BY FollowsAssumption
  <2> QED BY <1>1, <2>1, TrailIsPaths
<1> HIDE DEF q, steps
<1>7. ~AtFinal(q, map) /\ ParentLinks(p, map)[j] = link
  <2>1. PICK i \in 1..Len(steps[n]) : Gathered(steps)[MaxFollows][j] = steps[n][i]
    BY <1>4
  <2>2. ~AtFinal(q, map)
    BY <1>5, <2>1, EmptySeq
  <2>3. steps[n] = <<link>>
    BY <1>5, <2>2
  <2> HIDE DEF link
  <2>4. i = 1 /\ steps[n][i] = link
    BY <2>1, <2>3
  <2> QED BY <2>1, <2>2, <2>4 DEF ParentLinks, steps
<1>8. PICK k \in 1..Len(q) : k = FirstLink(q, map)
  <2>1. FirstLink(q, map) \in 0..Len(q) /\ FirstLink(q, map) # 0 /\ Len(q) \in Nat
    BY <1>6, <1>7, FirstLinkIsFirst DEF AtFinal, Paths
  <2> QED BY <2>1
<1>9. /\ AtLink(q, map) = SubSeq(q, 1, k) /\ AtLink(q, map) \in DOMAIN map
      /\ \A i \in 1..(k - 1) : SubSeq(q, 1, i) \notin DOMAIN map
  BY <1>6, <1>8, FirstLinkIsFirst DEF AtLink
<1> DEFINE at == AtLink(q, map)
<1>10. at \in Paths /\ Len(at) = k /\ Under(q, at)
  <2>1. k \in 0..Len(q)
    OBVIOUS
  <2> QED BY <1>6, <1>9, <2>1, PrefixAbove
<1>11. \A i \in 1..(k - 1) : SubSeq(at, 1, i) \notin DOMAIN map
  <2> TAKE i \in 1..(k - 1)
  <2>1. i \in 0..Len(at) /\ SubSeq(q, 1, i) = SubSeq(at, 1, i)
    <3>1. i \in 0..Len(at)
      BY <1>10
    <3> QED BY <1>6, <1>10, <3>1, AboveIsPrefix
  <2> QED BY <1>9, <2>1
<1>12. FirstLink(at, map) = k
  <2>1. SubSeq(at, 1, k) = at /\ k \in 1..Len(at) /\ at \in DOMAIN map
    BY <1>9, <1>10 DEF Paths
  <2> HIDE DEF at, map
  <2> QED BY <1>10, <1>11, <2>1, FirstLinkUnique
<1>13. AtFinal(at, map)
  BY <1>10, <1>12 DEF AtFinal
<1> QED BY <1>7, <1>9, <1>13 DEF RealLink

(* What is read of a declared path that the launch accepts.                *)
Walked(h, d) ==
  /\ AtFinal(d.path, h.links) /\ Exists(h, d.path)
  /\ d.hops = <<>> => FirstLink(d.path, h.links) = 0 \/ Landing(d.path, h.links) = <<>>
  /\ \A j \in 1..Len(d.hops) :
       /\ AtFinal(d.hops[j], h.links)
       /\ Landing(d.hops[j], h.links) = Landing(d.path, h.links)
  /\ \A j \in 1..Len(d.parents) : RealLink(h, d.parents[j])
  /\ \A i \in d.inner :
       /\ \A j \in 1..Len(i.hops) : AtFinal(i.hops[j], h.links)
       /\ \A j \in 1..Len(i.parents) : RealLink(h, i.parents[j])

(* The same of the links inside a declared directory.                      *)
LEMMA InnerWalked ==
  ASSUME NEW h, Grounded(h), NEW dir \in Paths, NEW i \in InnerSymlinks(h, dir)
  PROVE  /\ \A j \in 1..Len(i.hops) : AtFinal(i.hops[j], h.links)
         /\ \A j \in 1..Len(i.parents) : RealLink(h, i.parents[j])
<1>1. \A q \in DOMAIN h.links : h.links[q] \in Paths
  BY DEF Grounded
<1>2. PICK l \in DOMAIN h.links :
        /\ Whole(Append(dir, Last(l)), h.links)
        /\ i = [parents |-> ParentLinks(Append(dir, Last(l)), h.links),
                hops |-> Hops(Append(dir, Last(l)), h.links)]
  BY DEF InnerSymlinks
<1>3. Append(dir, Last(l)) \in Paths
  <2>1. l \in Paths /\ l # <<>>
    BY DEF Grounded
  <2>2. PICK n \in Nat : n = Len(l) /\ n # 0 /\ l[n] \in FileNames
    BY <2>1, EmptySeq DEF Paths
  <2>3. Last(l) \in FileNames
    BY <2>2 DEF Last
  <2> QED BY <2>3, WithinIsPath DEF Within
<1> QED BY <1>1, <1>2, <1>3, HopsLead, ParentsAreLinks

(* What is read of a declared path is as Walked says.                      *)
LEMMA EntryWalked ==
  ASSUME NEW h, Grounded(h), NEW d \in Entries(h), ~d.stopped, d.exists
  PROVE  Walked(h, d)
<1>1. PICK x \in DeclaredNames : d = ReadDeclared(h, x)
  BY DEF Entries
<1>2. x.name \in Paths
  BY <1>1 DEF DeclaredNames
<1>3. \A q \in DOMAIN h.links : h.links[q] \in Paths
  BY DEF Grounded
<1> DEFINE name == x.name
           path == PhysicalPath(name, h.links)
<1>4. /\ Whole(name, h.links) /\ d.path = path /\ Exists(h, path)
      /\ d.parents = ParentLinks(name, h.links) /\ d.hops = Hops(name, h.links)
      /\ \/ d.inner = {}
         \/ d.inner = InnerSymlinks(h, path)
  BY <1>1 DEF ReadDeclared
<1>5. path \in Paths /\ AtFinal(path, h.links)
      /\ Landing(path, h.links) = Landing(name, h.links)
  BY <1>2, <1>3, <1>4, PhysicalIsPath, PhysicalIsFinal, LandingOfPhysical
<1>6. d.hops = <<>> => FirstLink(path, h.links) = 0 \/ Landing(path, h.links) = <<>>
  BY <1>2, <1>3, <1>4, <1>5, NoHopToRoot
<1>7. \A j \in 1..Len(d.hops) :
        AtFinal(d.hops[j], h.links) /\ Landing(d.hops[j], h.links) = Landing(path, h.links)
  BY <1>2, <1>3, <1>4, <1>5, HopsLead
<1>8. \A j \in 1..Len(d.parents) : RealLink(h, d.parents[j])
  BY <1>2, <1>4, ParentsAreLinks
<1>9. \A i \in d.inner :
       /\ \A j \in 1..Len(i.hops) : AtFinal(i.hops[j], h.links)
       /\ \A j \in 1..Len(i.parents) : RealLink(h, i.parents[j])
  BY <1>4, <1>5, InnerWalked
<1> HIDE DEF path, name
<1> QED BY <1>4, <1>5, <1>6, <1>7, <1>8, <1>9 DEF Walked

-----------------------------------------------------------------------------
(* What each part asks for, and of which kind it is.                       *)

(* What the launcher needs is there.                                       *)
Present(h) ==
  /\ {Store, NixVar, Tmp, Home} \subseteq h.dirs /\ EmptyFile \in h.files
  /\ \A p \in Closure : AtFinal(p, h.links) /\ Exists(h, p)
  /\ GitUsable(h) =>
       /\ GrantableRepoRoot(h) \subseteq h.dirs
       /\ \A p \in ProtectedFiles(h) : FirstLink(p, h.links) = 0

(* A host that was read and not refused.                                   *)
Accepted(h) ==
  /\ Read(h) /\ Furnished(h) /\ Present(h)
  /\ ~DeclaredRefused(h) /\ IsDir(h, h.workspace)

(* Reading the host leaves in place what the launcher needs of it.         *)
LEMMA PresentFacts ==
  ASSUME HostInv
  PROVE  Present(host)
<1>1. PICK h \in Hosts :
        host = IF status = "reading" THEN h ELSE [h EXCEPT !.declared = ReadAll(h)]
  BY DEF HostInv
<1>2. Present(h)
  BY PresentAssumption DEF Present
<1>3. /\ host.links = h.links /\ host.dirs = h.dirs /\ host.files = h.files
      /\ host.worktrees = h.worktrees /\ host.workspace = h.workspace
      /\ host.common = h.common
      /\ host.worktreeConfig = h.worktreeConfig /\ host.coreWorktrees = h.coreWorktrees
  <2>1. DOMAIN h = {"links", "dirs", "files", "workspace", "declared", "common",
                    "worktrees", "worktreeConfig", "coreWorktrees",
                    "allowNix", "socket", "proxy"}
    BY HostsAssumption
  <2> QED BY <1>1, <2>1
<1>4. GitUsable(host) = GitUsable(h)
  BY <1>3 DEF GitUsable, RepoRoot
<1>5. ProtectedFiles(host) = ProtectedFiles(h)
  BY <1>3 DEF ProtectedFiles, GitDirs, WorktreesOf, SubmoduleDotGit
<1>6. GrantableRepoRoot(host) = GrantableRepoRoot(h)
  BY <1>3, <1>4 DEF GrantableRepoRoot, WorkTreeRoot
<1>7. \A p : Exists(host, p) = Exists(h, p)
  BY <1>3 DEF Exists, IsDir, IsFile
<1> QED BY <1>2, <1>3, <1>4, <1>5, <1>6, <1>7 DEF Present

(* A launch that mounts was not refused.                                   *)
LEMMA MountingFacts ==
  ASSUME HeldInvariant, status = "mounting"
  PROVE  Accepted(host)
<1>1. Grounded(host) /\ Furnished(host) /\ host.declared \in Seq(Entries(host))
  BY HostFacts DEF HeldInvariant, Invariant
<1>2. ~DeclaredRefused(host) /\ IsDir(host, host.workspace)
  BY DEF HeldInvariant, HeldInv
<1>3. Present(host)
  BY PresentFacts DEF HeldInvariant, Invariant
<1> QED BY <1>1, <1>2, <1>3 DEF Read, Accepted

LEMMA AcceptedWalked ==
  ASSUME NEW h, Accepted(h), NEW d \in DeclaredSet(h)
  PROVE  Walked(h, d) /\ Known(h, d)
<1>1. d \in Entries(h) /\ Grounded(h)
  BY DEF Accepted, Read, DeclaredSet
<1>2. ~d.stopped /\ d.exists
  BY DEF Accepted, DeclaredRefused
<1> QED BY <1>1, <1>2, EntryWalked, EntryFacts

(* What a declared path adds: no bind over a link that is exposed.         *)
OfSeen(h, d) ==
  {a \in OfDeclared(d) :
     \/ d.hops = <<>> /\ a.src = d.path
     \/ /\ d.hops # <<>> /\ ~AlreadyBound(Parent(d.path), BoundPrefixes(h))
        /\ a.src = d.path \/ a.src = Last(d.hops)}

(* The same of all that is declared of a mode and a kind.                  *)
AllSeen(h, mode, kind) ==
  UNION {OfSeen(h, d) : d \in {e \in DeclaredSet(h) : e.mode = mode /\ e.kind = kind}}

(* DeclaredBind adds no more.                                              *)
LEMMA DeclaredBindSeen ==
  ASSUME NEW h, Read(h), NEW d \in DeclaredSet(h)
  PROVE  DeclaredBind(h, d) \in Seq(OfSeen(h, d))
<1>1. Known(h, d)
  BY DeclaredFacts
<1>2. d.path \in Paths /\ d.mode \in {"rw", "ro"} /\ (d.hops # <<>> => Last(d.hops) \in Paths)
  BY <1>1, LastHopIsLanding DEF Known
<1> DEFINE bind(src) == IF d.mode = "rw" THEN Bind(src, d.path) ELSE RoBind(src, d.path)
           bound == AlreadyBound(Parent(d.path), BoundPrefixes(h))
<1>3. \A src \in Paths :
        /\ bind(src) \in Arguments /\ bind(src).op = "bind" /\ bind(src).src = src
        /\ bind(src).at = d.path /\ bind(src).rw = (d.mode = "rw")
  BY <1>2 DEF Bind, RoBind, Arguments
<1>4. d.hops = <<>> => bind(d.path) \in OfSeen(h, d)
  BY <1>2, <1>3 DEF OfSeen, OfDeclared
<1>5. d.hops # <<>> /\ ~bound =>
        bind(d.path) \in OfSeen(h, d) /\ bind(Last(d.hops)) \in OfSeen(h, d)
  BY <1>2, <1>3 DEF OfSeen, OfDeclared
<1>6. DeclaredBind(h, d) =
        CASE d.hops = <<>> -> <<bind(d.path)>>
          [] d.hops # <<>> /\ bound -> <<>>
          [] d.hops # <<>> /\ d.kind = "dir" /\ ~bound -> <<bind(d.path)>>
          [] OTHER -> IF StrictlyUnder(Last(d.hops), Store)
                      THEN <<bind(Last(d.hops))>> ELSE <<>>
  BY DEF DeclaredBind
<1> HIDE DEF bind, bound
<1>7. <<>> \in Seq(OfSeen(h, d))
  OBVIOUS
<1>8. CASE d.hops = <<>>
  BY <1>4, <1>6, <1>8
<1>9. CASE d.hops # <<>> /\ bound
  BY <1>6, <1>7, <1>9
<1>10. CASE d.hops # <<>> /\ ~bound
  <2>1. <<bind(d.path)>> \in Seq(OfSeen(h, d)) /\ <<bind(Last(d.hops))>> \in Seq(OfSeen(h, d))
    BY <1>5, <1>10
  <2> QED BY <1>6, <1>7, <1>10, <2>1
<1> QED BY <1>8, <1>9, <1>10

LEMMA AllSeenIn ==
  ASSUME NEW h, Read(h), NEW mode, NEW kind
  PROVE  DeclaredBinds(h, mode, kind) \in Seq(AllSeen(h, mode, kind))
<1> DEFINE K == AllSeen(h, mode, kind)
<1>1. ASSUME NEW d \in DeclaredSet(h), d.mode = mode, d.kind = kind
      PROVE  DeclaredBind(h, d) \in Seq(K)
  <2>1. OfSeen(h, d) \subseteq K
    BY <1>1 DEF AllSeen
  <2> HIDE DEF K
  <2> QED BY <2>1, DeclaredBindSeen, SeqMonotonic
<1> HIDE DEF K
<1>2. DeclaredBinds(h, mode, kind) \in Seq(K)
  BY <1>1, DeclaredBindsIn
<1> QED BY <1>2 DEF K

(* What the parts are of: the store, the directories above what is bound on, *)
(* the links, the socket and the bundle.                                   *)
OfStore(h) ==
  IF h.allowNix THEN RoBinds({Store, NixVar}) ELSE {Tmpfs(Store)} \cup RoBinds(Closure)
OfDirs(h) == {MakeDir(q) : q \in Paths \cap UNION {Ancestors(p) : p \in MadeAbove(h)}}
OfLinks(h) == {Symlink(l.to, l.path) : l \in ParentSymlinks(h) \cap PathPairs}
OfSocket(h) ==
  {a \in {RoBind(h.socket, h.socket)} : h.socket # NoPath /\ ~Under(h.socket, NixVar)}
OfBundle(h) == {a \in {RoBind(Bundle, Within(Tmp, "bundle"))} : h.proxy}

(* What a part holds.                                                      *)
Belongs(h, j, a) ==
  /\ a \in Arguments
  /\ \/ j = 1 /\ a \in OfStore(h)
     \/ j = 2 /\ a \in {Tmpfs(Tmp), Tmpfs(Home)}
     \/ j = 3 /\ a \in RoBinds(GrantableRepoRoot(h))
     \/ j = 4 /\ a = Bind(h.workspace, h.workspace)
     \/ j = 5 /\ a \in AllSeen(h, "rw", "dir")
     \/ j = 6 /\ a \in AllSeen(h, "ro", "dir")
     \/ j = 7 /\ a \in AllSeen(h, "rw", "file")
     \/ j = 8 /\ a \in AllSeen(h, "ro", "file")
     \/ j = 9 /\ a \in OfDirs(h)
     \/ j = 10 /\ a \in RoBinds(StoreTargets(h, BoundPrefixes(h)))
     \/ j = 11 /\ a \in OfLinks(h)
     \/ j = 12 /\ a \in OfGit(h)
     \/ j = 13 /\ a \in OfSocket(h)
     \/ j = 14 /\ a \in OfBundle(h)

(* StoreBinds is of the store.                                             *)
LEMMA StoreBindsIn ==
  ASSUME NEW h
  PROVE  StoreBinds(h) \in Seq(OfStore(h))
<1>1. CASE h.allowNix
  <2> DEFINE x == RoBind(Store, Store)
             y == RoBind(NixVar, NixVar)
             K == OfStore(h)
  <2>1. x \in K /\ y \in K
    BY <1>1 DEF OfStore, RoBinds
  <2>2. StoreBinds(h) = <<x, y>>
    BY <1>1 DEF StoreBinds
  <2> HIDE DEF x, y, K
  <2>3. StoreBinds(h) \in Seq(K)
    BY <2>1, <2>2
  <2> QED BY <2>3 DEF K
<1>2. CASE ~h.allowNix
  <2> DEFINE x == Tmpfs(Store)
             s == EachOf(Closure, LAMBDA p : RoBind(p, p))
             K == OfStore(h)
  <2>1. x \in K /\ \A p \in Closure : RoBind(p, p) \in K
    BY <1>2 DEF OfStore, RoBinds
  <2>2. StoreBinds(h) = <<x>> \o s
    BY <1>2 DEF StoreBinds
  <2> HIDE DEF x, K
  <2>3. s \in Seq(K)
    BY <2>1, PlacesAssumption, EachBoundIn
  <2> HIDE DEF s
  <2>4. <<x>> \in Seq(K)
    BY <2>1
  <2>5. <<x>> \o s \in Seq(K)
    BY <2>3, <2>4, ConcatProperties
  <2> QED BY <2>2, <2>5 DEF K
<1> QED BY <1>1, <1>2

(* Every part holds what Belongs says.                                     *)
LEMMA PartsBelong ==
  ASSUME NEW h, Read(h)
  PROVE  /\ Each(Parts(h), Arguments, 1)
         /\ \A j \in 1..14 : \A n \in 1..Len(Parts(h)[j]) : Belongs(h, j, Parts(h)[j][n])
<1>0. Grounded(h)
  BY DEF Read
<1>1. Each(Parts(h), Arguments, 1)
  <2>1. \A a \in Arguments : Keeps(a, <<>>, Arguments)
    BY DEF Keeps
  <2>2. Each(Parts(h), Arguments, 1)
    <3>1. PICK k \in Nat : k = 15
      OBVIOUS
    <3> QED BY <3>1, PartsKeeping
  <2> QED BY <2>2
<1>2. ASSUME NEW j \in 1..14, NEW X, Parts(h)[j] \in Seq(X), \A a \in X \cap Arguments : Belongs(h, j, a)
      PROVE  \A n \in 1..Len(Parts(h)[j]) : Belongs(h, j, Parts(h)[j][n])
  <2> TAKE n \in 1..Len(Parts(h)[j])
  <2>1. Parts(h)[j] \in Seq(Arguments)
    BY <1>1, EachAt
  <2>2. Parts(h)[j][n] \in X \cap Arguments
    BY <1>2, <2>1
  <2> QED BY <1>2, <2>2
<1> DEFINE Ok(j) == \A n \in 1..Len(Parts(h)[j]) : Belongs(h, j, Parts(h)[j][n])
<1>3. Ok(1)
  <2>1. Parts(h)[1] \in Seq(OfStore(h))
    BY PartsAre, StoreBindsIn
  <2>2. \A a \in OfStore(h) \cap Arguments : Belongs(h, 1, a)
    BY DEF Belongs
  <2> QED BY <1>2, <2>1, <2>2
<1>4. Ok(2)
  <2>1. Parts(h)[2] \in Seq({Tmpfs(Tmp), Tmpfs(Home)})
    BY PartsAre, PartsHold
  <2>2. \A a \in {Tmpfs(Tmp), Tmpfs(Home)} \cap Arguments : Belongs(h, 2, a)
    BY DEF Belongs
  <2> QED BY <1>2, <2>1, <2>2
<1>5. Ok(3)
  <2>1. Parts(h)[3] \in Seq(RoBinds(GrantableRepoRoot(h)))
    BY PartsAre, PartsHold
  <2>2. \A a \in RoBinds(GrantableRepoRoot(h)) \cap Arguments : Belongs(h, 3, a)
    BY DEF Belongs
  <2> QED BY <1>2, <2>1, <2>2
<1>6. Ok(4)
  <2>1. Parts(h)[4] \in Seq({Bind(h.workspace, h.workspace)})
    BY PartsAre, PartsHold
  <2>2. \A a \in {Bind(h.workspace, h.workspace)} \cap Arguments : Belongs(h, 4, a)
    BY DEF Belongs
  <2> QED BY <1>2, <2>1, <2>2
<1>7. Ok(5)
  <2>1. Parts(h)[5] \in Seq(AllSeen(h, "rw", "dir"))
    BY PartsAre, AllSeenIn
  <2>2. \A a \in AllSeen(h, "rw", "dir") \cap Arguments : Belongs(h, 5, a)
    BY DEF Belongs
  <2> QED BY <1>2, <2>1, <2>2
<1>8. Ok(6)
  <2>1. Parts(h)[6] \in Seq(AllSeen(h, "ro", "dir"))
    BY PartsAre, AllSeenIn
  <2>2. \A a \in AllSeen(h, "ro", "dir") \cap Arguments : Belongs(h, 6, a)
    BY DEF Belongs
  <2> QED BY <1>2, <2>1, <2>2
<1>9. Ok(7)
  <2>1. Parts(h)[7] \in Seq(AllSeen(h, "rw", "file"))
    BY PartsAre, AllSeenIn
  <2>2. \A a \in AllSeen(h, "rw", "file") \cap Arguments : Belongs(h, 7, a)
    BY DEF Belongs
  <2> QED BY <1>2, <2>1, <2>2
<1>10. Ok(8)
  <2>1. Parts(h)[8] \in Seq(AllSeen(h, "ro", "file"))
    BY PartsAre, AllSeenIn
  <2>2. \A a \in AllSeen(h, "ro", "file") \cap Arguments : Belongs(h, 8, a)
    BY DEF Belongs
  <2> QED BY <1>2, <2>1, <2>2
<1>11. Ok(9)
  <2>1. \A p \in MadeAbove(h) : \A q \in Ancestors(p) \cap Paths : MakeDir(q) \in OfDirs(h)
    BY DEF OfDirs
  <2>2. Parts(h)[9] \in Seq(OfDirs(h))
    BY <2>1, PartsAre, ParentDirsIn
  <2>3. \A a \in OfDirs(h) \cap Arguments : Belongs(h, 9, a)
    BY DEF Belongs
  <2> QED BY <1>2, <2>2, <2>3
<1>12. Ok(10)
  <2>1. Parts(h)[10] \in Seq(RoBinds(StoreTargets(h, BoundPrefixes(h))))
    BY PartsAre, PartsHold
  <2>2. \A a \in RoBinds(StoreTargets(h, BoundPrefixes(h))) \cap Arguments : Belongs(h, 10, a)
    BY DEF Belongs
  <2> QED BY <1>2, <2>1, <2>2
<1>13. Ok(11)
  <2>1. \A l \in ParentSymlinks(h) \cap PathPairs : Symlink(l.to, l.path) \in OfLinks(h)
    BY DEF OfLinks
  <2>2. Parts(h)[11] \in Seq(OfLinks(h))
    BY <2>1, PartsAre, ParentSymlinksIn
  <2>3. \A a \in OfLinks(h) \cap Arguments : Belongs(h, 11, a)
    BY DEF Belongs
  <2> QED BY <1>2, <2>2, <2>3
<1>14. Ok(12)
  <2>1. Parts(h)[12] \in Seq(OfGit(h))
    BY <1>0, PartsAre, GitPartsHold
  <2>2. \A a \in OfGit(h) \cap Arguments : Belongs(h, 12, a)
    BY DEF Belongs
  <2> QED BY <1>2, <2>1, <2>2
<1>15. Ok(13) /\ Ok(14)
  <2>1. Parts(h)[13] \in Seq(OfSocket(h)) /\ Parts(h)[14] \in Seq(OfBundle(h))
    BY <1>0, PartsAre, LatePartsHold DEF OfSocket, OfBundle
  <2>2. /\ \A a \in OfSocket(h) \cap Arguments : Belongs(h, 13, a)
        /\ \A a \in OfBundle(h) \cap Arguments : Belongs(h, 14, a)
    BY DEF Belongs
  <2> QED BY <1>2, <2>1, <2>2
<1> HIDE DEF Ok
<1>16. \A j \in 1..14 : Ok(j)
  BY <1>3, <1>4, <1>5, <1>6, <1>7, <1>8, <1>9, <1>10, <1>11, <1>12, <1>13, <1>14, <1>15
<1> QED BY <1>1, <1>16 DEF Ok

-----------------------------------------------------------------------------
(* The kinds of arguments.                                                 *)

(* An empty file system over a directory; a directory or a file of the     *)
(* host at its own name; a directory or a file over a link that leads to it; *)
(* the empty file where a git file is yet to exist; the bundle; a directory *)
(* made where the host has one; and a link planted where the host has it.  *)
Mask(h, a) == a.op = "tmpfs" /\ a.rw /\ a.at \in h.dirs
Itself(h, a) == a.op = "bind" /\ a.src = a.at /\ a.at \in h.dirs \cup h.files
OverLink(h, a) ==
  /\ a.op = "bind" /\ a.at \in DOMAIN h.links /\ AtFinal(a.at, h.links)
  /\ Exists(h, a.src) /\ Landing(a.src, h.links) = Landing(a.at, h.links)
StandIn(h, a) ==
  /\ GitUsable(h) /\ a.op = "bind" /\ a.src = EmptyFile
  /\ a.at \in ProtectedFiles(h) \ h.files
Late(h, a) == h.proxy /\ a = RoBind(Bundle, Within(Tmp, "bundle"))
Dir(h, a) == a.op = "dir" /\ a.at \in h.dirs
Plant(h, a) ==
  a.op = "symlink" /\ a.src # NoPath /\ a.at \in DOMAIN h.links /\ AtFinal(a.at, h.links)

(* Of a target that the store has no more: a bind of it, or a directory    *)
(* above it.                                                               *)
Gone(h, q) == \E l \in StoreTargets(h, BoundPrefixes(h)) : ~Exists(h, l) /\ Under(l, q)
(* The arguments that are for such a target.                               *)
Lost(h, a) ==
  Gone(h, a.at) /\ (a.op = "dir" \/ (a.op = "bind" /\ ~Exists(h, a.src)))

(* Ancestors are above, and never the root.                                *)
LEMMA AncestorIsAbove ==
  ASSUME NEW p \in Paths, NEW q \in Ancestors(p)
  PROVE  q \in Paths /\ Under(p, q) /\ q # p /\ q # <<>>
<1>1. PICK n \in Nat : n = Len(p)
  BY DEF Paths
<1>2. PICK k \in 1..(n - 1) : q = SubSeq(p, 1, k)
  BY <1>1 DEF Ancestors
<1>3. k \in 0..Len(p)
  BY <1>1
<1>4. q \in Paths /\ Len(q) = k /\ Under(p, q)
  BY <1>2, <1>3, PrefixAbove
<1> QED BY <1>1, <1>4, EmptySeq

(* What exists under a final name is there, or is a link.                  *)
LEMMA RealAndFinal ==
  ASSUME NEW h, Grounded(h), NEW p \in Paths, AtFinal(p, h.links), Exists(h, p)
  PROVE  \/ p \in h.dirs \cup h.files /\ FirstLink(p, h.links) = 0
         \/ p \in DOMAIN h.links
<1>1. CASE FirstLink(p, h.links) = 0
  <2>1. Landing(p, h.links) = p
    BY <1>1, FirstLinkIsFirst, NoLinkNoWalk
  <2> QED BY <1>1, <2>1 DEF Exists, IsDir, IsFile
<1>2. CASE FirstLink(p, h.links) # 0
  BY <1>2, FinalIsLink
<1> QED BY <1>1, <1>2

(* A path bound at its own name.                                           *)
LEMMA RealBind ==
  ASSUME NEW h, Grounded(h), NEW a \in Arguments, a.op = "bind", a.src = a.at,
         AtFinal(a.at, h.links), Exists(h, a.at)
  PROVE  Itself(h, a) \/ OverLink(h, a)
<1>1. a.at \in Paths
  BY DEF Arguments
<1> QED BY <1>1, RealAndFinal DEF Itself, OverLink

(* The landings and the links of what is declared.                         *)
LEMMA LandingsFinal ==
  ASSUME NEW h, Accepted(h), NEW l \in Landings(h)
  PROVE  l \in Paths /\ AtFinal(l, h.links)
<1>1. l \in Paths
  BY LandingFacts DEF Accepted
<1>2. PICK d \in DeclaredSet(h) :
        l \in {d.hops[n] : n \in 1..Len(d.hops)}
                \cup UNION {{i.hops[n] : n \in 1..Len(i.hops)} : i \in d.inner}
  BY DEF Landings
<1>3. Walked(h, d)
  BY AcceptedWalked
<1>4. CASE l \in {d.hops[n] : n \in 1..Len(d.hops)}
  BY <1>1, <1>3, <1>4 DEF Walked
<1>5. CASE l \in UNION {{i.hops[n] : n \in 1..Len(i.hops)} : i \in d.inner}
  BY <1>1, <1>3, <1>5 DEF Walked
<1> QED BY <1>2, <1>4, <1>5

(* The links to plant are the host's, and are not exposed.                 *)
LEMMA LinksReal ==
  ASSUME NEW h, Accepted(h), NEW l \in ParentSymlinks(h)
  PROVE  RealLink(h, l) /\ ~AlreadyBound(l.path, BoundPrefixes(h)) /\ l \in PathPairs
<1>1. PICK d \in DeclaredSet(h) :
        l \in {d.parents[n] : n \in 1..Len(d.parents)}
                \cup UNION {{i.parents[n] : n \in 1..Len(i.parents)} : i \in d.inner}
  BY DEF ParentSymlinks
<1>2. Walked(h, d)
  BY AcceptedWalked
<1>3. ~AlreadyBound(l.path, BoundPrefixes(h)) /\ l \in PathPairs
  BY ParentSymlinkFacts DEF ParentSymlinks, Accepted
<1>4. CASE l \in {d.parents[n] : n \in 1..Len(d.parents)}
  BY <1>2, <1>3, <1>4 DEF Walked
<1>5. CASE l \in UNION {{i.parents[n] : n \in 1..Len(i.parents)} : i \in d.inner}
  BY <1>2, <1>3, <1>5 DEF Walked
<1> QED BY <1>1, <1>4, <1>5

(* What a declared path adds.                                              *)
LEMMA DeclaredSorted ==
  ASSUME NEW h, Accepted(h), NEW d \in DeclaredSet(h), NEW a \in OfSeen(h, d)
  PROVE  Itself(h, a) \/ OverLink(h, a)
<1>1. Walked(h, d) /\ Known(h, d) /\ Grounded(h)
  BY AcceptedWalked DEF Accepted, Read
<1>2. a \in Arguments /\ a.op = "bind" /\ a.at = d.path /\ d.path \in Paths
  BY <1>1 DEF OfSeen, OfDeclared, Known
<1>3. AtFinal(d.path, h.links) /\ Exists(h, d.path)
  BY <1>1 DEF Walked
<1>4. CASE a.src = d.path
  BY <1>1, <1>2, <1>3, <1>4, RealBind
<1>5. CASE d.hops # <<>> /\ a.src = Last(d.hops)
  <2>1. Len(d.hops) \in 1..Len(d.hops) /\ Last(d.hops) = d.hops[Len(d.hops)]
    BY <1>1, <1>5, EmptySeq DEF Known, Last
  <2>2. Landing(a.src, h.links) = Landing(d.path, h.links)
    BY <1>1, <1>5, <2>1 DEF Walked
  <2>3. Exists(h, a.src)
    BY <1>3, <2>2 DEF Exists, IsDir, IsFile, Whole
  <2>4. d.path \in DOMAIN h.links
    BY <1>1, <1>2, <1>3, <1>5, FinalIsLink DEF Known, Found
  <2> QED BY <1>2, <1>3, <2>2, <2>3, <2>4 DEF OverLink
<1> QED BY <1>4, <1>5 DEF OfSeen

(* Every argument is of one of the kinds, or for a target that is gone.    *)
LEMMA Sorted ==
  ASSUME NEW h, Accepted(h), NEW j \in 1..14, NEW a, Belongs(h, j, a)
  PROVE  \/ Mask(h, a) \/ Itself(h, a) \/ OverLink(h, a) \/ StandIn(h, a) \/ Late(h, a)
         \/ Dir(h, a) \/ Plant(h, a) \/ Lost(h, a)
<1>0. /\ Read(h) /\ Grounded(h) /\ Furnished(h) /\ Present(h)
      /\ a \in Arguments /\ a.at \in Paths
  BY DEF Accepted, Read, Belongs, Arguments
<1>1. ASSUME NEW p, a = RoBind(p, p) \/ a = Bind(p, p), p \in h.dirs \cup h.files
      PROVE  Itself(h, a)
  BY <1>1 DEF RoBind, Bind, Itself
<1>2. ASSUME NEW p, a = Tmpfs(p), p \in h.dirs
      PROVE  Mask(h, a)
  BY <1>2 DEF Tmpfs, Mask
<1>3. ASSUME NEW p \in Paths, a = RoBind(p, p), AtFinal(p, h.links)
      PROVE  Itself(h, a) \/ OverLink(h, a) \/ ~Exists(h, p)
  <2>1. a.op = "bind" /\ a.src = p /\ a.at = p
    BY <1>3 DEF RoBind
  <2> QED BY <1>0, <1>3, <2>1, RealBind
<1>4. CASE a \in OfStore(h)
  <2>1. {Store, NixVar} \subseteq h.dirs
    BY <1>0 DEF Present
  <2>2. CASE h.allowNix
    BY <1>1, <1>4, <2>1, <2>2 DEF OfStore, RoBinds
  <2>3. CASE a = Tmpfs(Store)
    BY <1>2, <2>1, <2>3
  <2>4. ASSUME NEW p \in Closure, a = RoBind(p, p)
        PROVE  Itself(h, a) \/ OverLink(h, a)
    <3>1. p \in Paths /\ AtFinal(p, h.links) /\ Exists(h, p)
      BY <1>0, PlacesAssumption DEF Present
    <3> QED BY <1>3, <2>4, <3>1
  <2> QED BY <1>4, <2>2, <2>3, <2>4 DEF OfStore, RoBinds
<1>5. CASE a \in {Tmpfs(Tmp), Tmpfs(Home)}
  BY <1>0, <1>2, <1>5 DEF Present
<1>6. CASE a \in RoBinds(GrantableRepoRoot(h))
  <2>1. GrantableRepoRoot(h) \subseteq h.dirs
    BY <1>0 DEF Present, GrantableRepoRoot
  <2> QED BY <1>1, <1>6, <2>1 DEF RoBinds
<1>7. CASE a = Bind(h.workspace, h.workspace)
  <2>1. FirstLink(h.workspace, h.links) = 0 /\ h.workspace \in Paths
    BY <1>0 DEF Furnished, Grounded
  <2>2. Landing(h.workspace, h.links) = h.workspace
    BY <2>1, FirstLinkIsFirst, NoLinkNoWalk
  <2>3. h.workspace \in h.dirs
    BY <2>2 DEF Accepted, IsDir
  <2> QED BY <1>1, <1>7, <2>3
<1>8. ASSUME NEW mode, NEW kind, a \in AllSeen(h, mode, kind)
      PROVE  Itself(h, a) \/ OverLink(h, a)
  BY <1>8, DeclaredSorted DEF AllSeen
<1>9. CASE a \in OfDirs(h)
  <2>0. PICK p \in MadeAbove(h) : \E q \in Ancestors(p) : a = MakeDir(q)
    BY <1>9 DEF OfDirs
  <2>1. PICK q \in Ancestors(p) : a = MakeDir(q)
    BY <2>0
  <2>2. p \in Paths /\ AtFinal(p, h.links)
    <3>1. CASE p \in StoreTargets(h, BoundPrefixes(h))
      BY <3>1, LandingsFinal DEF StoreTargets, Unbound
    <3>2. ASSUME NEW d \in DeclaredSet(h), p = d.path PROVE p \in Paths /\ AtFinal(p, h.links)
      BY <3>2, AcceptedWalked DEF Walked, Known
    <3> QED BY <3>1, <3>2 DEF MadeAbove
  <2>3. q \in Paths /\ Under(p, q) /\ q # p /\ q # <<>>
    BY <2>2, AncestorIsAbove
  <2>4. a.op = "dir" /\ a.at = q
    BY <2>1 DEF MakeDir
  <2>5. CASE Exists(h, p)
    <3>1. p \in RealNames(h)
      BY <2>2, <2>5, FinalIsReal
    <3>2. q \in h.dirs
      BY <1>0, <2>3, <3>1, DirAbove
    <3> QED BY <2>4, <3>2 DEF Dir
  <2>6. CASE ~Exists(h, p)
    <3>1. p \in StoreTargets(h, BoundPrefixes(h))
      BY <2>6, AcceptedWalked DEF MadeAbove, Walked
    <3> QED BY <2>3, <2>4, <2>6, <3>1 DEF Lost, Gone
  <2> QED BY <2>5, <2>6
<1>10. CASE a \in RoBinds(StoreTargets(h, BoundPrefixes(h)))
  <2>1. PICK l \in StoreTargets(h, BoundPrefixes(h)) : a = RoBind(l, l)
    BY <1>10 DEF RoBinds
  <2>2. l \in Paths /\ AtFinal(l, h.links)
    BY LandingsFinal DEF StoreTargets, Unbound
  <2>3. ~Exists(h, l) => Lost(h, a)
    <3>1. Under(l, l) /\ a.op = "bind" /\ a.src = l /\ a.at = l
      BY <2>1, <2>2, UnderItself DEF RoBind
    <3> QED BY <3>1 DEF Lost, Gone
  <2> QED BY <1>3, <2>1, <2>2, <2>3
<1>11. CASE a \in OfLinks(h)
  <2>1. PICK l \in ParentSymlinks(h) : a = Symlink(l.to, l.path)
    BY <1>11 DEF OfLinks
  <2>2. RealLink(h, l) /\ l.to \in Paths
    BY LinksReal DEF PathPairs
  <2>3. a.op = "symlink" /\ a.at = l.path /\ a.src = l.to
    BY <2>1 DEF Symlink
  <2> QED BY <2>2, <2>3, NoPathIsNone DEF Plant, RealLink
<1>12. CASE a \in OfGit(h)
  <2>1. GitUsable(h)
    BY <1>12 DEF OfGit
  <2>2. h.common \in h.dirs
    BY <1>0, <2>1 DEF Furnished, GitUsable
  <2>3. ASSUME NEW p \in ProtectedFiles(h), a = RoBind(FileSource(h, p), p)
        PROVE  Itself(h, a) \/ StandIn(h, a)
    <3>1. CASE p \in h.files
      BY <1>1, <2>3, <3>1 DEF FileSource
    <3>2. CASE p \notin h.files
      BY <2>1, <2>3, <3>2 DEF FileSource, RoBind, StandIn
    <3> QED BY <3>1, <3>2
  <2>4. ASSUME NEW p \in ProtectedDirs(h), a = RoBind(p, p)
        PROVE  Itself(h, a)
    BY <1>1, <2>4 DEF ProtectedDirs
  <2> QED BY <1>1, <1>12, <2>2, <2>3, <2>4 DEF OfGit, RoBinds, OfGitFiles
<1>13. CASE a \in OfSocket(h)
  BY <1>0, <1>1, <1>13 DEF OfSocket, Furnished
<1>14. CASE a \in OfBundle(h)
  BY <1>14 DEF OfBundle, Late
<1> QED BY <1>4, <1>5, <1>6, <1>7, <1>8, <1>9, <1>10, <1>11, <1>12, <1>13, <1>14 DEF Belongs

-----------------------------------------------------------------------------
(* The places, and what is above them.                                     *)

(* What is above a name within a directory is above the directory.         *)
LEMMA AboveWithin ==
  ASSUME NEW p \in Paths, NEW n \in FileNames, NEW q \in Paths,
         Under(Within(p, n), q), q # Within(p, n)
  PROVE  Under(p, q)
<1>1. /\ Within(p, n) \in Paths /\ Len(Within(p, n)) = Len(p) + 1
      /\ Under(Within(p, n), p)
  BY WithinIsPath
<1>2. Under(p, q) \/ Under(q, p)
  BY <1>1, OneAbove
<1>3. PICK k \in Nat, m \in Nat : k = Len(p) /\ m = Len(q)
  BY DEF Paths
<1>4. m <= k
  <2>1. m <= k + 1
    BY <1>1, <1>3, UnderMeans
  <2>2. m # k + 1
    BY <1>1, <1>3, SameLength
  <2> QED BY <1>3, <2>1, <2>2
<1>5. Under(q, p) => q = p
  BY <1>3, <1>4, SameLength
<1> QED BY <1>2, <1>5, UnderItself

(* The parent is the nearest above.                                        *)
LEMMA ParentAbove ==
  ASSUME NEW p \in Paths, p # <<>>
  PROVE  /\ Parent(p) \in Paths /\ Under(p, Parent(p)) /\ Parent(p) # p
         /\ \A q \in Paths : Under(p, q) /\ q # p => Under(Parent(p), q)
<1>1. PICK n \in Nat : n = Len(p) /\ n # 0
  BY EmptySeq DEF Paths
<1>2. Parent(p) = SubSeq(p, 1, n - 1) /\ n - 1 \in 0..Len(p)
  BY <1>1 DEF Parent, Front
<1>3. Parent(p) \in Paths /\ Len(Parent(p)) = n - 1 /\ Under(p, Parent(p))
  BY <1>2, PrefixAbove
<1>4. Parent(p) # p
  BY <1>1, <1>3
<1>5. ASSUME NEW q \in Paths, Under(p, q), q # p PROVE Under(Parent(p), q)
  <2>1. PICK m \in Nat : m = Len(q)
    BY DEF Paths
  <2>2. m <= n /\ ~(n <= m)
    BY <1>1, <1>5, <2>1, UnderMeans, SameLength
  <2>3. Under(Parent(p), q) \/ Under(q, Parent(p))
    BY <1>3, <1>5, OneAbove
  <2>4. Under(q, Parent(p)) => q = Parent(p)
    BY <1>3, <2>1, <2>2, SameLength
  <2> QED BY <1>3, <2>3, <2>4, UnderItself
<1> QED BY <1>3, <1>4, <1>5

(* What is really there is no link.                                        *)
LEMMA RealIsNoLink ==
  ASSUME NEW h, Grounded(h), NEW p \in Paths, FirstLink(p, h.links) = 0
  PROVE  p \notin DOMAIN h.links /\ Landing(p, h.links) = p
<1>1. \A k \in 1..Len(p) : SubSeq(p, 1, k) \notin DOMAIN h.links
  BY FirstLinkIsFirst
<1>2. CASE p = <<>>
  BY <1>1, <1>2, NoLinkNoWalk DEF Grounded
<1>3. CASE p # <<>>
  <2>1. Len(p) \in 1..Len(p) /\ SubSeq(p, 1, Len(p)) = p
    BY <1>3, EmptySeq DEF Paths
  <2> QED BY <1>1, <2>1, NoLinkNoWalk
<1> QED BY <1>2, <1>3

(* Directories and files of the host are no links.                         *)
LEMMA HereIsNoLink ==
  ASSUME NEW h, Grounded(h), NEW p \in h.dirs \cup h.files
  PROVE  p \in Paths /\ p \notin DOMAIN h.links /\ Landing(p, h.links) = p
<1>1. p \in Paths /\ FirstLink(p, h.links) = 0
  BY DEF Grounded
<1> QED BY <1>1, RealIsNoLink

(* git's own files are no links and no directories.                        *)
LEMMA ProtectedIsNoLink ==
  ASSUME NEW h, Accepted(h), GitUsable(h), NEW p \in ProtectedFiles(h)
  PROVE  /\ p \in Paths /\ p # <<>> /\ p \notin DOMAIN h.links /\ p \notin h.dirs
         /\ AtFinal(p, h.links)
<1>1. Grounded(h) /\ Furnished(h) /\ Present(h)
  BY DEF Accepted, Read
<1>2. p \in Paths /\ p # <<>> /\ p \notin h.dirs /\ FirstLink(p, h.links) = 0
  BY <1>1, ProtectedFileFacts, ProtectedNames DEF Furnished, Present
<1> QED BY <1>1, <1>2, RealIsNoLink DEF AtFinal

(* The place of the bundle inside: nothing has its name on the host.       *)
BundlePlace == Within(Tmp, "bundle")

LEMMA BundleFacts ==
  ASSUME NEW h, Accepted(h)
  PROVE  /\ BundlePlace \in Paths /\ BundlePlace # <<>>
         /\ \A p \in RealNames(h) \cup ProtectedFiles(h) : ~Under(p, BundlePlace)
         /\ BundlePlace \notin RealNames(h)
         /\ \A q \in Paths : Under(BundlePlace, q) /\ q # BundlePlace => Under(Tmp, q)
         /\ Tmp \in Paths /\ Tmp \in h.dirs
<1>1. Tmp \in Paths /\ "bundle" \in FileNames
  BY PlacesAssumption, OwnNamesAssumption
<1>2. BundlePlace \in Paths /\ Len(BundlePlace) = Len(Tmp) + 1
  BY <1>1, WithinIsPath DEF BundlePlace
<1>3. BundlePlace # <<>>
  BY <1>1 DEF BundlePlace, Within, Paths
<1>4. \A p \in RealNames(h) \cup ProtectedFiles(h) : ~Under(p, BundlePlace)
  BY DEF Accepted, Furnished, RealNames, BundlePlace
<1>5. BundlePlace \notin RealNames(h)
  BY <1>2, <1>4, UnderItself
<1>6. \A q \in Paths : Under(BundlePlace, q) /\ q # BundlePlace => Under(Tmp, q)
  BY <1>1, AboveWithin DEF BundlePlace
<1>7. Tmp \in h.dirs
  BY DEF Accepted, Present
<1> QED BY <1>1, <1>2, <1>3, <1>4, <1>5, <1>6, <1>7

(* The place of an argument is a real name, but for two of them.           *)
Real(h, a) == a.at \in RealNames(h) /\ AtFinal(a.at, h.links)

(* The kinds of arguments that have a real place.                          *)
LEMMA RealPlaces ==
  ASSUME NEW h, Accepted(h), NEW a \in Arguments,
         Mask(h, a) \/ Itself(h, a) \/ OverLink(h, a) \/ Dir(h, a) \/ Plant(h, a)
  PROVE  Real(h, a)
<1>1. Grounded(h)
  BY DEF Accepted, Read
<1>2. CASE Mask(h, a) \/ Itself(h, a) \/ Dir(h, a)
  BY <1>1, <1>2 DEF Mask, Itself, Dir, Real, RealNames, Grounded, AtFinal
<1>3. CASE OverLink(h, a) \/ Plant(h, a)
  BY <1>3 DEF OverLink, Plant, Real, RealNames
<1> QED BY <1>2, <1>3

(* The places there is a way to: all but those of what is gone.            *)
Settled(h, a) == Real(h, a) \/ StandIn(h, a) \/ Late(h, a)

(* Above a place there are directories, and no link.                       *)
LEMMA AbovePlace ==
  ASSUME NEW h, Accepted(h), NEW a \in Arguments, Settled(h, a), NEW q \in Paths,
         Under(a.at, q), q # a.at, q # <<>>
  PROVE  /\ q \notin DOMAIN h.links /\ q \notin h.files /\ q # BundlePlace
         /\ GitUsable(h) => q \notin ProtectedFiles(h)
         /\ ~StandIn(h, a) => q \in h.dirs
<1>1. Grounded(h) /\ Furnished(h) /\ Present(h) /\ a.at \in Paths
  BY DEF Accepted, Read, Arguments
<1>2. ASSUME q \in h.dirs
      PROVE  /\ q \notin DOMAIN h.links /\ q \notin h.files /\ q # BundlePlace
             /\ GitUsable(h) => q \notin ProtectedFiles(h)
  <2>1. q \notin DOMAIN h.links
    BY <1>1, <1>2, HereIsNoLink
  <2>2. q \notin h.files /\ (GitUsable(h) => q \notin ProtectedFiles(h))
    BY <1>1, <1>2 DEF Furnished
  <2>3. q # BundlePlace
    BY <1>2, BundleFacts DEF RealNames
  <2> QED BY <2>1, <2>2, <2>3
<1>3. CASE Real(h, a)
  <2>1. q \in h.dirs
    BY <1>1, <1>3, DirAbove DEF Real
  <2> QED BY <1>2, <2>1
<1>4. CASE StandIn(h, a)
  <2>1. q \in Ancestors(a.at)
    BY <1>1, AboveIsAncestor
  <2>2. GitUsable(h) /\ a.at \in ProtectedFiles(h)
    BY <1>4 DEF StandIn
  <2>3. q \notin h.files /\ q \notin ProtectedFiles(h)
    BY <1>1, <2>1, <2>2 DEF Furnished
  <2>4. q # BundlePlace
    BY <2>2, BundleFacts
  <2>5. q \notin DOMAIN h.links
    BY <1>1, <2>2, ProtectedIsNoLink, FinalAbove DEF Grounded
  <2> QED BY <1>4, <2>3, <2>4, <2>5
<1>5. CASE Late(h, a)
  <2>1. a.at = BundlePlace
    BY <1>5 DEF Late, RoBind, BundlePlace
  <2>2. Under(Tmp, q) /\ Tmp \in RealNames(h) /\ Tmp \in h.dirs
    BY <2>1, BundleFacts DEF RealNames
  <2>3. q \in h.dirs
    BY <1>1, <2>2, DirAbove
  <2> QED BY <1>2, <2>3
<1> QED BY <1>3, <1>4, <1>5 DEF Settled

(* A bind that shows a link is of what the launch takes for bound, or of   *)
(* what it overlooks.                                                      *)
LEMMA Exposing ==
  ASSUME NEW h, Accepted(h), NEW j \in 1..14, NEW b, Belongs(h, j, b),
         Itself(h, b) \/ OverLink(h, b), NEW q \in DOMAIN h.links, Under(q, b.at)
  PROVE  AlreadyBound(b.at, BoundPrefixes(h)) \/ b.at \in Overlooked(h)
<1>0. /\ Read(h) /\ Grounded(h) /\ Furnished(h) /\ Present(h) /\ b.op = "bind"
      /\ b.at \in Paths /\ q \in RealNames(h)
  BY DEF Accepted, Read, Belongs, Arguments, Itself, OverLink, RealNames
<1>1. b.at \in BoundPrefixes(h) => AlreadyBound(b.at, BoundPrefixes(h))
  BY <1>0, UnderItself DEF AlreadyBound
<1>2. b.at \notin h.files
  <2>1. ASSUME b.at \in h.files PROVE FALSE
    <3>1. q = b.at
      BY <1>0, <2>1, NoFileAbove
    <3> QED BY <1>0, <2>1, <3>1, HereIsNoLink
  <2> QED BY <2>1
<1>3. CASE b \in OfStore(h)
  <2>1. CASE h.allowNix
    <3>1. b.at \in {Store, NixVar}
      BY <1>3, <2>1 DEF OfStore, RoBinds, RoBind
    <3>2. Store \in BoundPrefixes(h) /\ NixVar \in Overlooked(h)
      BY <2>1 DEF BoundPrefixes, Overlooked
    <3> QED BY <1>1, <3>1, <3>2
  <2>2. CASE ~h.allowNix
    <3>1. b.at \in Closure
      BY <1>0, <1>3, <2>2 DEF OfStore, RoBinds, RoBind, Tmpfs
    <3>2. b.at \in BoundPrefixes(h)
      BY <2>2, <3>1 DEF BoundPrefixes
    <3> QED BY <1>1, <3>2
  <2> QED BY <2>1, <2>2
<1>4. CASE b \in {Tmpfs(Tmp), Tmpfs(Home)} \/ b \in OfDirs(h) \/ b \in OfLinks(h)
  BY <1>0, <1>4 DEF Tmpfs, OfDirs, MakeDir, OfLinks, Symlink
<1>5. CASE b \in RoBinds(GrantableRepoRoot(h)) \/ b = Bind(h.workspace, h.workspace)
  BY <1>1, <1>5 DEF RoBinds, RoBind, Bind, BoundPrefixes
<1>6. ASSUME NEW mode, NEW kind \in {"dir", "file"}, b \in AllSeen(h, mode, kind)
      PROVE  AlreadyBound(b.at, BoundPrefixes(h)) \/ b.at \in Overlooked(h)
  <2>1. PICK d \in DeclaredSet(h) : d.kind = kind /\ b \in OfSeen(h, d)
    BY <1>6 DEF AllSeen
  <2>2. b.at = d.path
    BY <2>1 DEF OfSeen, OfDeclared
  <2>3. CASE kind = "dir"
    BY <1>1, <2>1, <2>2, <2>3 DEF BoundPrefixes
  <2>4. CASE kind = "file"
    BY <2>1, <2>2, <2>4 DEF Overlooked
  <2> QED BY <2>3, <2>4
<1>7. CASE b \in RoBinds(StoreTargets(h, BoundPrefixes(h)))
  BY <1>7 DEF RoBinds, RoBind, Overlooked
<1>8. CASE b \in OfGit(h)
  <2>1. GitUsable(h)
    BY <1>8 DEF OfGit
  <2>2. h.common \in BoundPrefixes(h)
    BY <2>1 DEF BoundPrefixes
  <2>3. ASSUME NEW p \in ProtectedDirs(h), b = RoBind(p, p)
        PROVE  AlreadyBound(b.at, BoundPrefixes(h))
    <3>1. PICK g \in GitDirs(h) : p = Within(g, "hooks")
      BY DEF ProtectedDirs
    <3>2. g \in Paths /\ h.common \in Paths /\ Under(g, h.common)
      BY <1>0, <2>1, GitDirFacts
    <3>3. p \in Paths /\ Under(p, g)
      BY <3>1, <3>2, OwnNamesAssumption, WithinIsPath
    <3>4. Under(p, h.common)
      BY <3>2, <3>3, UnderUnder
    <3> QED BY <2>2, <2>3, <3>4 DEF AlreadyBound, RoBind
  <2>4. ASSUME NEW p \in ProtectedFiles(h), b = RoBind(FileSource(h, p), p)
        PROVE  FALSE
    <3>1. b.at = p
      BY <2>4 DEF RoBind
    <3>2. p \notin h.dirs /\ p \notin DOMAIN h.links
      BY <2>1, ProtectedIsNoLink
    <3> QED BY <1>2, <3>1, <3>2 DEF Itself, OverLink
  <2> QED BY <1>1, <1>8, <2>2, <2>3, <2>4 DEF OfGit, RoBinds, OfGitFiles, Bind
<1>9. CASE b \in OfSocket(h)
  BY <1>0, <1>2, <1>9 DEF OfSocket, RoBind, Furnished
<1>10. CASE b \in OfBundle(h)
  <2>1. b.at = BundlePlace
    BY <1>10 DEF OfBundle, RoBind, BundlePlace
  <2> QED BY <1>0, <2>1, BundleFacts
<1> QED BY <1>3, <1>4, <1>5, <1>6, <1>7, <1>8, <1>9, <1>10 DEF Belongs

(* What counts as bound are paths.                                         *)
LEMMA PrefixesArePaths ==
  ASSUME NEW h, Read(h)
  PROVE  BoundPrefixes(h) \subseteq Paths
<1>1. Closure \cup {Store} \subseteq Paths /\ Grounded(h)
  BY PlacesAssumption DEF Read
<1>2. \A d \in DeclaredSet(h) : d.path \in Paths
  BY DeclaredFacts DEF Known
<1>3. GrantableRepoRoot(h) \subseteq Paths /\ h.workspace \in Paths
  BY <1>1, RootFacts DEF Grounded
<1>4. GitUsable(h) => h.common \in Paths
  BY <1>1, GitDirFacts
<1> QED BY <1>1, <1>2, <1>3, <1>4 DEF BoundPrefixes

(* An argument for a link is for one that is not exposed.                  *)
LEMMA NotExposed ==
  ASSUME NEW h, Accepted(h), NEW j \in 1..14, NEW a, Belongs(h, j, a),
         OverLink(h, a) \/ Plant(h, a)
  PROVE  /\ \/ j = 1 /\ ~h.allowNix /\ a.at \in Closure
            \/ Landing(a.at, h.links) = <<>>
            \/ ~AlreadyBound(Parent(a.at), BoundPrefixes(h))
         /\ Plant(h, a) => j = 11 /\ ~AlreadyBound(a.at, BoundPrefixes(h))
         /\ OverLink(h, a) => j <= 10
<1>0. /\ Read(h) /\ Grounded(h) /\ Furnished(h) /\ Present(h)
      /\ a.at \in Paths /\ a.at \in DOMAIN h.links /\ a.at # <<>>
      /\ a.op \in {"bind", "symlink"} /\ (Plant(h, a) => a.op = "symlink")
      /\ (OverLink(h, a) => a.op = "bind")
  BY DEF Accepted, Read, Belongs, Arguments, Plant, OverLink, Grounded
<1>1. a.at \notin h.dirs \cup h.files /\ FirstLink(a.at, h.links) # 0
  BY <1>0, HereIsNoLink, RealIsNoLink
<1>2. ~AlreadyBound(a.at, BoundPrefixes(h)) => ~AlreadyBound(Parent(a.at), BoundPrefixes(h))
  <2>1. ASSUME NEW p \in BoundPrefixes(h), Under(Parent(a.at), p) PROVE Under(a.at, p)
    <3>1. p \in Paths
      BY <1>0, PrefixesArePaths
    <3> QED BY <1>0, <2>1, <3>1, ParentAbove, UnderUnder
  <2> QED BY <2>1 DEF AlreadyBound
<1>3. CASE j = 1 /\ a \in OfStore(h)
  BY <1>0, <1>1, <1>3 DEF OfStore, RoBinds, RoBind, Tmpfs, Present
<1>4. CASE a \in {Tmpfs(Tmp), Tmpfs(Home)} \/ a \in OfDirs(h)
  BY <1>0, <1>4 DEF Tmpfs, OfDirs, MakeDir
<1>5. CASE a \in RoBinds(GrantableRepoRoot(h)) \/ a = Bind(h.workspace, h.workspace)
  <2>1. GrantableRepoRoot(h) \subseteq h.dirs
    BY <1>0 DEF Present, GrantableRepoRoot
  <2> QED BY <1>0, <1>1, <1>5, <2>1 DEF RoBinds, RoBind, Bind, Furnished
<1>6. ASSUME NEW mode, NEW kind, a \in AllSeen(h, mode, kind)
      PROVE  /\ \/ Landing(a.at, h.links) = <<>>
                \/ ~AlreadyBound(Parent(a.at), BoundPrefixes(h))
             /\ a.op = "bind"
  <2>1. PICK d \in DeclaredSet(h) : a \in OfSeen(h, d)
    BY <1>6 DEF AllSeen
  <2>2. Walked(h, d) /\ a.at = d.path /\ a.op = "bind"
    BY <2>1, AcceptedWalked DEF OfSeen, OfDeclared
  <2>3. CASE d.hops = <<>>
    BY <1>1, <2>2, <2>3 DEF Walked
  <2>4. CASE d.hops # <<>>
    BY <2>1, <2>2, <2>4 DEF OfSeen
  <2> QED BY <2>3, <2>4
<1>7. CASE j = 10 /\ a \in RoBinds(StoreTargets(h, BoundPrefixes(h)))
  <2>1. a.op = "bind" /\ ~AlreadyBound(a.at, BoundPrefixes(h))
    BY <1>7 DEF RoBinds, RoBind, StoreTargets, Unbound
  <2> QED BY <1>0, <1>2, <1>7, <2>1
<1>8. CASE j = 11 /\ a \in OfLinks(h)
  <2>1. a.op = "symlink" /\ ~AlreadyBound(a.at, BoundPrefixes(h))
    BY <1>8, LinksReal DEF OfLinks, Symlink
  <2> QED BY <1>0, <1>2, <1>8, <2>1
<1>9. CASE a \in OfGit(h)
  <2>1. GitUsable(h)
    BY <1>9 DEF OfGit
  <2>2. h.common \in h.dirs /\ ProtectedDirs(h) \subseteq h.dirs
    BY <1>0, <2>1 DEF Furnished, GitUsable, ProtectedDirs
  <2>3. \A p \in ProtectedFiles(h) : p \notin DOMAIN h.links
    BY <2>1, ProtectedIsNoLink
  <2> QED BY <1>0, <1>1, <1>9, <2>2, <2>3 DEF OfGit, RoBinds, OfGitFiles, RoBind, Bind
<1>10. CASE a \in OfSocket(h)
  BY <1>0, <1>1, <1>10 DEF OfSocket, RoBind, Furnished
<1>11. CASE a \in OfBundle(h)
  <2>1. a.at = BundlePlace
    BY <1>11 DEF OfBundle, RoBind, BundlePlace
  <2> QED BY <1>0, <2>1, BundleFacts DEF RealNames
<1> QED BY <1>0, <1>3, <1>4, <1>5, <1>6, <1>7, <1>8, <1>9, <1>10, <1>11 DEF Belongs

-----------------------------------------------------------------------------
(* What was mounted and made so far, by the arguments applied.             *)

(* Why there is a directory where one was created.                         *)
AsDir(h, ms, e) ==
  \/ e.at \in h.dirs
  \/ GitUsable(h) /\ \E p \in ProtectedFiles(h) : StrictlyUnder(p, e.at)
  \/ Gone(h, e.at)
  \/ \E k \in 1..Len(ms) : k > e.mount /\ ms[k].at = e.at

(* A mount was asked for, and its source was there.                        *)
Mounted(h, m, done) ==
  \E a \in In(done) :
    IsMount(a) /\ m = MountOf(h, a) /\ (a.op = "bind" => Exists(h, a.src))

(* Every mount but the first, and all that was created, has its reason.    *)
Traced(h, ms, es, done) ==
  /\ ms[1] = FirstMount
  /\ \A n \in 2..Len(ms) : Mounted(h, ms[n], done)
  /\ \A e \in es :
       /\ e.mount \in 1..Len(ms)
       /\ e.to = NoPath => AsDir(h, ms, e)
       /\ e.to # NoPath => \E a \in In(done) : a.op = "symlink" /\ a.at = e.at

(* The invariant: the arguments so far explain what was mounted and made.  *)
MadeInv ==
  status = "mounting" =>
    \E done \in Seq(Arguments) :
      BwrapArgs(host) = done \o args /\ Traced(host, mounts, made, done)

(* Where the argument is among the parts, and those before it.             *)
Stage(done, u, part, place, t) ==
  /\ Laid(u, Parts(host), 14, part, place) /\ Len(u) \in Nat
  /\ t \in Nat /\ t = Len(done) /\ t + 1 \in 1..Len(u) /\ u[t + 1] = Arg
  /\ \A i \in 1..t : i \in 1..Len(u) /\ done[i] = u[i]
  /\ \A i \in 1..Len(u) :
       /\ part[i] \in 1..14 /\ Belongs(host, part[i], u[i])
       /\ place[i] \in 1..Len(Parts(host)[part[i]])
       /\ u[i] = Parts(host)[part[i]][place[i]]

(* The argument at hand has its part and its place in it.                  *)
LEMMA Progress ==
  ASSUME HeldInvariant, status = "mounting", args # <<>>,
         NEW done \in Seq(Arguments), BwrapArgs(host) = done \o args
  PROVE  \E u, part, place, t : Stage(done, u, part, place, t)
<1>1. Read(host)
  BY MountingFacts DEF Accepted
<1>2. PICK u, part, place : u = BwrapArgs(host) /\ Laid(u, Parts(host), 14, part, place)
  BY <1>1, PartsBelong, BwrapLaid
<1>3. PICK t \in Nat : t = Len(done)
  OBVIOUS
<1>4. /\ Len(u) \in Nat /\ t + 1 \in 1..Len(u) /\ u[t + 1] = Arg
      /\ \A i \in 1..t : u[i] = done[i]
  BY <1>2, <1>3, OneApplied DEF HeldInvariant, Invariant
<1>5. \A i \in 1..t : i \in 1..Len(u)
  BY <1>4
<1>6. \A i \in 1..Len(u) :
        /\ part[i] \in 1..14 /\ place[i] \in 1..Len(Parts(host)[part[i]])
        /\ u[i] = Parts(host)[part[i]][place[i]]
  BY <1>2 DEF Laid
<1>7. \A i \in 1..Len(u) : Belongs(host, part[i], u[i])
  <2> TAKE i \in 1..Len(u)
  <2>1. PICK j \in 1..14 : j = part[i]
    BY <1>6
  <2>2. PICK n \in 1..Len(Parts(host)[j]) : u[i] = Parts(host)[j][n]
    BY <1>6, <2>1
  <2>3. Belongs(host, j, Parts(host)[j][n])
    BY <1>1, PartsBelong
  <2> QED BY <2>1, <2>2, <2>3
<1>8. Stage(done, u, part, place, t)
  BY <1>2, <1>3, <1>4, <1>5, <1>6, <1>7 DEF Stage
<1> QED BY <1>8

(* The state of a launch in the midst of its arguments.                    *)
Midway(done) ==
  /\ HeldInvariant /\ status = "mounting" /\ args # <<>>
  /\ done \in Seq(Arguments) /\ BwrapArgs(host) = done \o args
  /\ Traced(host, mounts, made, done)

(* What was applied, and what is at hand, belongs to a part.               *)
LEMMA DoneSorted ==
  ASSUME NEW done, Midway(done)
  PROVE  /\ Accepted(host) /\ Grounded(host)
         /\ Arg \in Arguments /\ \E j \in 1..14 : Belongs(host, j, Arg)
         /\ \A a \in In(done) : a \in Arguments /\ \E j \in 1..14 : Belongs(host, j, a)
<1>1. PICK u, part, place, t : Stage(done, u, part, place, t)
  BY Progress DEF Midway
<1>2. Accepted(host) /\ Grounded(host)
  BY MountingFacts DEF Midway, Accepted, Read
<1> QED BY <1>1, <1>2 DEF In, Belongs, Stage

(* A path is held by the first mount or by that of an argument.            *)
LEMMA HeldBy ==
  ASSUME NEW done, Midway(done), NEW q \in Paths
  PROVE  \/ mounts[Holder(q)] = FirstMount
         \/ \E b \in In(done) :
              /\ IsMount(b) /\ mounts[Holder(q)] = MountOf(host, b) /\ Under(q, b.at)
              /\ b.op = "bind" => Exists(host, b.src)
<1>1. Holder(q) \in 1..Len(mounts) /\ Under(q, mounts[Holder(q)].at)
  BY HolderIsMount DEF Midway, HeldInvariant, Invariant
<1>2. CASE Holder(q) = 1
  BY <1>2 DEF Midway, Traced
<1>3. CASE Holder(q) # 1
  <2>1. Len(mounts) \in Nat
    BY DEF Midway, HeldInvariant, Invariant, BindsInv
  <2>2. Holder(q) \in 2..Len(mounts)
    BY <1>1, <1>3, <2>1
  <2>3. PICK b \in In(done) :
          /\ IsMount(b) /\ mounts[Holder(q)] = MountOf(host, b)
          /\ b.op = "bind" => Exists(host, b.src)
    BY <2>2 DEF Midway, Traced, Mounted
  <2> QED BY <1>1, <2>3 DEF MountOf
<1> QED BY <1>2, <1>3

(* The names on the way to a path.                                         *)
LEMMA AlongFacts ==
  ASSUME NEW p \in Paths
  PROVE  /\ \A q \in Along(p) : q \in Paths /\ Under(p, q) /\ q # <<>>
         /\ p # <<>> => p \in Along(p)
         /\ p # <<>> => \A q \in Along(Parent(p)) : q \in Along(p) /\ q # p
<1>1. PICK n \in Nat : n = Len(p)
  BY DEF Paths
<1>2. \A q \in Along(p) : q \in Paths /\ Under(p, q) /\ q # <<>>
  <2> TAKE q \in Along(p)
  <2>1. PICK k \in 1..n : q = SubSeq(p, 1, k)
    BY <1>1 DEF Along
  <2>2. k \in 0..Len(p)
    BY <1>1
  <2>3. q \in Paths /\ Len(q) = k /\ Under(p, q)
    BY <2>1, <2>2, PrefixAbove
  <2>4. q # <<>>
    BY <1>1, <2>1, <2>3, EmptySeq
  <2> QED BY <2>3, <2>4
<1>3. p # <<>> => p \in Along(p)
  <2>1. SubSeq(p, 1, n) = p
    BY <1>1 DEF Paths
  <2>2. p # <<>> => n \in 1..n
    BY <1>1, EmptySeq DEF Paths
  <2> QED BY <1>1, <2>1, <2>2 DEF Along
<1>4. ASSUME p # <<>>, NEW q \in Along(Parent(p)) PROVE q \in Along(p) /\ q # p
  <2>1. n # 0 /\ Parent(p) = SubSeq(p, 1, n - 1) /\ n - 1 \in 0..Len(p)
    BY <1>1, <1>4, EmptySeq DEF Parent, Front, Paths
  <2>2. Parent(p) \in Paths /\ Len(Parent(p)) = n - 1 /\ Under(p, Parent(p))
    BY <2>1, PrefixAbove
  <2>3. PICK k \in 1..(n - 1) : q = SubSeq(Parent(p), 1, k)
    BY <1>4, <2>2 DEF Along
  <2>4. k \in 0..Len(Parent(p)) /\ k \in 0..Len(p) /\ k \in 1..n
    BY <1>1, <2>1, <2>2
  <2>5. q = SubSeq(p, 1, k)
    BY <2>2, <2>3, <2>4, AboveIsPrefix
  <2>6. Len(q) = k
    BY <2>4, <2>5, PrefixAbove
  <2>7. q # p
    BY <1>1, <2>1, <2>6
  <2> QED BY <1>1, <2>4, <2>5, <2>7 DEF Along
<1> QED BY <1>2, <1>3, <1>4

(* Paths above each other are the same.                                    *)
LEMMA BothAbove ==
  ASSUME NEW p \in Paths, NEW q \in Paths, Under(p, q), Under(q, p)
  PROVE  p = q
<1>1. Len(q) <= Len(p) /\ Len(p) <= Len(q)
  BY UnderMeans
<1> QED BY <1>1, SameLength

(* What a name on the way to a place shows.                                *)
LEMMA Beneath ==
  ASSUME NEW done, Midway(done), Settled(host, Arg), NEW q \in Along(Arg.at)
  PROVE  \/ /\ Shows(q) = NoPath /\ Writable(q)
            /\ mounts[Holder(q)].at = q => q \in host.dirs
         \/ /\ Shows(q) = q
            /\ \E b \in In(done) :
                 /\ Itself(host, b) /\ Under(q, b.at) /\ mounts[Holder(q)] = MountOf(host, b)
                 /\ Writable(q) = b.rw
         \/ /\ q = Arg.at /\ Shows(q) = Landing(q, host.links)
            /\ \E b \in In(done) : OverLink(host, b) /\ b.at = q
         \/ /\ q = Arg.at /\ Shows(q) = EmptyFile /\ GitUsable(host)
            /\ q \in ProtectedFiles(host) \ host.files
         \/ q = Arg.at /\ Shows(q) = Bundle /\ q = BundlePlace /\ host.proxy
<1> DEFINE p == Arg.at
<1>0. /\ Accepted(host) /\ Grounded(host) /\ Furnished(host) /\ Present(host)
      /\ Arg \in Arguments /\ p \in Paths
  BY DoneSorted DEF Accepted, Arguments
<1>1. q \in Paths /\ Under(p, q) /\ q # <<>>
  BY <1>0, AlongFacts
<1>2. CASE mounts[Holder(q)] = FirstMount
  <2>1. /\ mounts[Holder(q)].at = <<>> /\ mounts[Holder(q)].src = NoPath
        /\ mounts[Holder(q)].rw = TRUE
    BY <1>2 DEF FirstMount
  <2>2. Shows(q) = NoPath /\ Writable(q)
    BY <2>1 DEF Shows, Writable
  <2> QED BY <1>1, <2>1, <2>2
<1>3. ASSUME NEW b \in In(done), IsMount(b), mounts[Holder(q)] = MountOf(host, b),
             Under(q, b.at), b.op = "bind" => Exists(host, b.src)
      PROVE  \/ /\ Shows(q) = NoPath /\ Writable(q)
                /\ mounts[Holder(q)].at = q => q \in host.dirs
             \/ /\ Shows(q) = q /\ Itself(host, b) /\ Writable(q) = b.rw
             \/ /\ q = p /\ Shows(q) = Landing(q, host.links)
                /\ OverLink(host, b) /\ b.at = q
             \/ /\ q = p /\ Shows(q) = EmptyFile /\ GitUsable(host)
                /\ q \in ProtectedFiles(host) \ host.files
             \/ q = p /\ Shows(q) = Bundle /\ q = BundlePlace /\ host.proxy
  <2>1. b \in Arguments /\ b.at \in Paths /\ b.src \in Paths \cup {NoPath}
    BY DoneSorted DEF Arguments
  <2>2. \/ Mask(host, b) \/ Itself(host, b) \/ OverLink(host, b) \/ StandIn(host, b)
        \/ Late(host, b)
    <3>1. PICK j \in 1..14 : Belongs(host, j, b)
      BY DoneSorted
    <3>2. \/ Mask(host, b) \/ Itself(host, b) \/ OverLink(host, b) \/ StandIn(host, b)
          \/ Late(host, b) \/ Dir(host, b) \/ Plant(host, b) \/ Lost(host, b)
      BY <1>0, <3>1, Sorted
    <3> QED BY <1>3, <3>2 DEF IsMount, Dir, Plant, Lost
  <2>3. Under(p, b.at)
    BY <1>0, <1>1, <1>3, <2>1, UnderUnder
  <2>4. b.at # <<>> /\ b.at # p =>
          /\ b.at \notin DOMAIN host.links /\ b.at # BundlePlace
          /\ GitUsable(host) => b.at \notin ProtectedFiles(host)
    BY <1>0, <2>1, <2>3, AbovePlace
  <2>5. b.at = p => q = p
    BY <1>0, <1>1, <1>3, BothAbove
  <2>6. ASSUME b.op = "bind", Landing(b.src, host.links) \in Paths
        PROVE  /\ Landing(b.src, host.links) = b.at => Shows(q) = q
               /\ q = b.at => Shows(q) = Landing(b.src, host.links)
               /\ Writable(q) = b.rw
    BY <1>1, <1>3, <2>1, <2>6, ShowsBound
  <2>7. CASE Mask(host, b)
    <3>1. mounts[Holder(q)] = [at |-> b.at, rw |-> TRUE, src |-> NoPath]
      BY <1>3, <2>1, <2>7 DEF MountOf, Mask, Arguments
    <3> QED BY <2>7, <3>1 DEF Shows, Writable, Mask
  <2>8. CASE Itself(host, b)
    <3>1. Landing(b.src, host.links) = b.at
      BY <1>0, <2>8, HereIsNoLink DEF Itself
    <3> QED BY <2>1, <2>6, <2>8, <3>1 DEF Itself
  <2>9. CASE OverLink(host, b)
    <3>1. b.at \in DOMAIN host.links /\ b.at # <<>> /\ b.op = "bind"
      BY <1>0, <2>9 DEF OverLink, Grounded
    <3>2. b.at = p /\ q = p
      BY <2>4, <2>5, <3>1
    <3>3. Landing(b.src, host.links) = Landing(q, host.links)
      BY <2>9, <3>2 DEF OverLink
    <3>4. Landing(q, host.links) \in Paths
      BY <1>0, <1>1, LandingIsPath DEF Grounded
    <3> QED BY <2>6, <2>9, <3>1, <3>2, <3>3, <3>4
  <2>10. CASE StandIn(host, b)
    <3>1. GitUsable(host) /\ b.at \in ProtectedFiles(host) \ host.files /\ b.op = "bind"
          /\ b.src = EmptyFile
      BY <2>10 DEF StandIn
    <3>2. b.at # <<>>
      BY <1>0, <3>1, ProtectedNames
    <3>3. b.at = p /\ q = p
      BY <2>4, <2>5, <3>1, <3>2
    <3>4. Landing(EmptyFile, host.links) = EmptyFile /\ EmptyFile \in Paths
      BY <1>0, HereIsNoLink DEF Present
    <3> QED BY <2>6, <3>1, <3>3, <3>4
  <2>11. CASE Late(host, b)
    <3>1. b.at = BundlePlace /\ b.op = "bind" /\ b.src = Bundle /\ host.proxy
      BY <2>11 DEF Late, RoBind, BundlePlace
    <3>2. b.at # <<>>
      BY <1>0, <3>1, BundleFacts
    <3>3. b.at = p /\ q = p
      BY <2>4, <2>5, <3>1, <3>2
    <3>4. Landing(Bundle, host.links) = Bundle /\ Bundle \in Paths
      BY <1>0, <3>1, HereIsNoLink DEF Furnished
    <3> QED BY <2>6, <3>1, <3>3, <3>4
  <2> QED BY <2>2, <2>7, <2>8, <2>9, <2>10, <2>11
<1> QED BY <1>1, <1>2, <1>3, HeldBy

-----------------------------------------------------------------------------
(* What is met on the way to a place.                                      *)

(* Why KindOf answers what it does.                                        *)
LEMMA KindMeans ==
  ASSUME NEW q
  PROVE  /\ KindOf(q) \in {"dir", "link", "file", "none"}
         /\ KindOf(q) = "link" =>
              \/ \E e \in MadeAt(q) : e.to # NoPath
              \/ Shows(q) \in DOMAIN host.links
         /\ KindOf(q) = "file" => Shows(q) \in host.files
         /\ KindOf(q) = "dir" =>
              \/ q = mounts[Holder(q)].at /\ Shows(q) = NoPath
              \/ \E e \in MadeAt(q) : e.to = NoPath
              \/ Shows(q) \in host.dirs
         /\ KindOf(q) = "none" => Shows(q) \notin RealNames(host)
BY DEF KindOf, RealNames

(* Why something was made at a path.                                       *)
LEMMA MadeMeans ==
  ASSUME NEW done, Midway(done), NEW q \in Paths, NEW e \in MadeAt(q)
  PROVE  /\ e.to # NoPath => \E a \in In(done) : a.op = "symlink" /\ a.at = q
         /\ e.to = NoPath =>
              \/ q \in host.dirs
              \/ GitUsable(host) /\ \E p \in ProtectedFiles(host) : StrictlyUnder(p, q)
              \/ Gone(host, q)
<1>1. e \in made /\ e.mount = Holder(q) /\ e.at = q
  BY DEF MadeAt
<1>2. /\ e.to = NoPath => AsDir(host, mounts, e)
      /\ e.to # NoPath => \E a \in In(done) : a.op = "symlink" /\ a.at = q
  BY <1>1 DEF Midway, Traced
<1>3. ASSUME NEW k \in 1..Len(mounts), k > e.mount, mounts[k].at = e.at PROVE FALSE
  <2>1. /\ Holder(q) \in 1..Len(mounts) /\ Len(mounts) \in Nat
        /\ Under(q, mounts[k].at) => k <= Holder(q)
    BY HolderIsMount DEF Midway, HeldInvariant, Invariant, BindsInv
  <2>2. k <= Holder(q)
    BY <1>1, <1>3, <2>1, UnderItself
  <2> QED BY <1>1, <1>3, <2>1, <2>2
<1> QED BY <1>1, <1>2, <1>3 DEF AsDir

(* What an argument for a link binds is not itself a link.                 *)
LEMMA OverLinkShows ==
  ASSUME NEW h, Grounded(h), NEW b, OverLink(h, b)
  PROVE  /\ Landing(b.at, h.links) \in h.dirs \cup h.files
         /\ Landing(b.at, h.links) \notin DOMAIN h.links
         /\ Landing(b.at, h.links) # NoPath
<1>1. Landing(b.at, h.links) \in h.dirs \cup h.files
  BY DEF OverLink, Exists, IsDir, IsFile
<1> QED BY <1>1, HereIsNoLink, NoPathIsNone

(* The files of the launcher itself.                                       *)
LEMMA OwnFiles ==
  ASSUME NEW h, Accepted(h)
  PROVE  /\ EmptyFile \in h.files /\ EmptyFile \notin h.dirs
         /\ EmptyFile \notin DOMAIN h.links /\ EmptyFile # NoPath
         /\ h.proxy => /\ Bundle \in h.files /\ Bundle \notin h.dirs
                       /\ Bundle \notin DOMAIN h.links /\ Bundle # NoPath
<1>1. Grounded(h) /\ Furnished(h) /\ Present(h)
  BY DEF Accepted, Read
<1>2. EmptyFile \in h.files /\ (h.proxy => Bundle \in h.files)
  BY <1>1 DEF Present, Furnished
<1>3. \A p \in h.files : p \notin h.dirs /\ p \notin DOMAIN h.links /\ p # NoPath
  BY <1>1, HereIsNoLink, NoPathIsNone DEF Furnished
<1> QED BY <1>2, <1>3

(* A symbolic link planted on the way is planted at the place.             *)
LEMMA PlantedAt ==
  ASSUME NEW done, Midway(done), Settled(host, Arg), NEW q \in Along(Arg.at),
         NEW b \in In(done), b.op = "symlink", b.at = q
  PROVE  q = Arg.at /\ q \in DOMAIN host.links /\ Plant(host, b)
<1>1. /\ Accepted(host) /\ Arg \in Arguments /\ Arg.at \in Paths
      /\ \E j \in 1..14 : Belongs(host, j, b)
  BY DoneSorted DEF Arguments
<1>2. Plant(host, b)
  BY <1>1, Sorted DEF Mask, Itself, OverLink, StandIn, Late, RoBind, Dir, Lost
<1>3. q \in DOMAIN host.links
  BY <1>2 DEF Plant
<1>4. q \in Paths /\ Under(Arg.at, q) /\ q # <<>>
  BY <1>1, AlongFacts
<1> QED BY <1>1, <1>2, <1>3, <1>4, AbovePlace

(* A link met is at the place itself: planted, or shown with what is bound. *)
LEMMA LinkMet ==
  ASSUME NEW done, Midway(done), Settled(host, Arg), NEW q \in Along(Arg.at),
         KindOf(q) = "link"
  PROVE  /\ q = Arg.at /\ q \in DOMAIN host.links
         /\ \/ \E b \in In(done) : b.op = "symlink" /\ b.at = q
            \/ \E b \in In(done) : Itself(host, b) /\ Under(q, b.at)
<1>1. /\ Accepted(host) /\ Grounded(host) /\ Arg \in Arguments /\ Arg.at \in Paths
      /\ q \in Paths /\ Under(Arg.at, q) /\ q # <<>>
  BY DoneSorted, AlongFacts DEF Arguments
<1>2. CASE \E e \in MadeAt(q) : e.to # NoPath
  <2>1. PICK b \in In(done) : b.op = "symlink" /\ b.at = q
    BY <1>1, <1>2, MadeMeans
  <2> QED BY <2>1, PlantedAt
<1>3. CASE Shows(q) \in DOMAIN host.links
  <2>1. NoPath \notin DOMAIN host.links
    BY <1>1, NoPathIsNone DEF Grounded
  <2>2. EmptyFile \notin DOMAIN host.links /\ (host.proxy => Bundle \notin DOMAIN host.links)
    BY <1>1, OwnFiles
  <2>3. \A b : OverLink(host, b) => Landing(b.at, host.links) \notin DOMAIN host.links
    BY <1>1, OverLinkShows
  <2>4. Shows(q) = q /\ \E b \in In(done) : Itself(host, b) /\ Under(q, b.at)
    BY <1>3, <2>1, <2>2, <2>3, Beneath
  <2>5. q = Arg.at
    BY <1>1, <1>3, <2>4, AbovePlace
  <2> QED BY <1>3, <2>4, <2>5
<1> QED BY <1>2, <1>3, KindMeans

(* A file met is at the place itself.                                      *)
LEMMA FileMet ==
  ASSUME NEW done, Midway(done), Settled(host, Arg), NEW q \in Along(Arg.at),
         KindOf(q) = "file"
  PROVE  /\ q = Arg.at
         /\ \/ q \in host.files
            \/ /\ Landing(q, host.links) \in host.files
               /\ \E b \in In(done) : OverLink(host, b) /\ b.at = q
            \/ GitUsable(host) /\ q \in ProtectedFiles(host) \ host.files
            \/ q = BundlePlace
<1>1. /\ Accepted(host) /\ Grounded(host) /\ Arg \in Arguments /\ Arg.at \in Paths
      /\ q \in Paths /\ Under(Arg.at, q) /\ q # <<>>
  BY DoneSorted, AlongFacts DEF Arguments
<1>2. Shows(q) \in host.files
  BY KindMeans
<1>3. NoPath \notin host.files
  BY <1>1, NoPathIsNone DEF Grounded
<1>4. q \in host.files => q = Arg.at
  BY <1>1, AbovePlace
<1> QED BY <1>2, <1>3, <1>4, Beneath

(* A directory met is the host's, or was made above one of git's files or  *)
(* of a target that is gone, or is bound over a link to it.                *)
LEMMA DirMet ==
  ASSUME NEW done, Midway(done), Settled(host, Arg), NEW q \in Along(Arg.at),
         KindOf(q) = "dir"
  PROVE  \/ q \in host.dirs
         \/ GitUsable(host) /\ \E p \in ProtectedFiles(host) : StrictlyUnder(p, q)
         \/ Gone(host, q)
         \/ /\ Landing(q, host.links) \in host.dirs
            /\ \E b \in In(done) : OverLink(host, b) /\ b.at = q
<1>1. Accepted(host) /\ Grounded(host) /\ Arg.at \in Paths /\ q \in Paths /\ q # NoPath
  BY DoneSorted, AlongFacts, NoPathIsNone DEF Arguments
<1>2. \A b : OverLink(host, b) => Landing(b.at, host.links) # NoPath
  BY <1>1, OverLinkShows
<1>3. NoPath \notin host.dirs
  BY <1>1, NoPathIsNone DEF Grounded
<1>4. CASE \E e \in MadeAt(q) : e.to = NoPath
  BY <1>1, <1>4, MadeMeans
<1>5. CASE q = mounts[Holder(q)].at /\ Shows(q) = NoPath
  BY <1>1, <1>2, <1>5, Beneath, OwnFiles
<1>6. CASE Shows(q) \in host.dirs
  BY <1>1, <1>3, <1>6, Beneath, OwnFiles
<1> QED BY <1>4, <1>5, <1>6, KindMeans

(* What is missing and cannot be created is below a read-only bind.        *)
LEMMA NoneMet ==
  ASSUME NEW done, Midway(done), Settled(host, Arg), NEW q \in Along(Arg.at),
         KindOf(q) = "none"
  PROVE  \/ Writable(q)
         \/ /\ q \notin RealNames(host)
            /\ \E b \in In(done) :
                 /\ Itself(host, b) /\ Under(q, b.at) /\ ~b.rw
                 /\ mounts[Holder(q)] = MountOf(host, b)
<1>1. Accepted(host) /\ Grounded(host)
  BY DoneSorted
<1>2. Shows(q) \notin RealNames(host)
  BY KindMeans
<1>3. \A b : OverLink(host, b) => Landing(b.at, host.links) \in RealNames(host)
  BY <1>1, OverLinkShows DEF RealNames
<1>4. EmptyFile \in RealNames(host) /\ (host.proxy => Bundle \in RealNames(host))
  BY <1>1, OwnFiles DEF RealNames
<1> QED BY <1>2, <1>3, <1>4, Beneath

-----------------------------------------------------------------------------
(* What was made keeps its reason.                                         *)

(* More arguments.                                                         *)
LEMMA InMore ==
  ASSUME NEW done \in Seq(Arguments), NEW a \in Arguments
  PROVE  In(done) \subseteq In(Append(done, a)) /\ a \in In(Append(done, a))
<1>1. PICK n \in Nat : n = Len(done)
  OBVIOUS
<1>2. /\ Len(Append(done, a)) = n + 1 /\ Append(done, a)[n + 1] = a
      /\ \A i \in 1..n : Append(done, a)[i] = done[i]
  BY <1>1, AppendProperties
<1>3. n + 1 \in 1..(n + 1) /\ \A i \in 1..n : i \in 1..(n + 1)
  BY <1>1
<1> QED BY <1>1, <1>2, <1>3 DEF In

(* More mounts, and more that was made.                                    *)
LEMMA TracedMore ==
  ASSUME NEW h, NEW ms, NEW es, NEW done, Traced(h, ms, es, done), Len(ms) \in Nat \ {0},
         NEW more, Len(more) \in Nat, Len(ms) <= Len(more),
         \A k \in 1..Len(ms) : more[k] = ms[k],
         NEW now, In(done) \subseteq In(now),
         \A n \in (Len(ms) + 1)..Len(more) : Mounted(h, more[n], now),
         NEW new,
         \A e \in new :
           /\ e.mount \in 1..Len(more)
           /\ e.to = NoPath => AsDir(h, more, e)
           /\ e.to # NoPath => \E a \in In(now) : a.op = "symlink" /\ a.at = e.at
  PROVE  Traced(h, more, es \cup new, now)
<1>1. PICK m \in Nat, n \in Nat : m = Len(ms) /\ n = Len(more) /\ m # 0 /\ m <= n
  OBVIOUS
<1>2. more[1] = FirstMount
  BY <1>1 DEF Traced
<1>3. ASSUME NEW k \in 2..n PROVE Mounted(h, more[k], now)
  <2>1. CASE k <= m
    <3>1. k \in 2..m /\ k \in 1..m
      BY <1>1, <2>1
    <3>2. Mounted(h, ms[k], done)
      BY <1>1, <3>1 DEF Traced
    <3> QED BY <1>1, <3>1, <3>2 DEF Mounted
  <2>2. CASE ~(k <= m)
    <3>1. k \in (m + 1)..n
      BY <1>1, <2>2
    <3> QED BY <1>1, <3>1
  <2> QED BY <2>1, <2>2
<1>4. ASSUME NEW e \in es
      PROVE  /\ e.mount \in 1..n
             /\ e.to = NoPath => AsDir(h, more, e)
             /\ e.to # NoPath => \E a \in In(now) : a.op = "symlink" /\ a.at = e.at
  <2>1. /\ e.mount \in 1..m
        /\ e.to = NoPath => AsDir(h, ms, e)
        /\ e.to # NoPath => \E a \in In(now) : a.op = "symlink" /\ a.at = e.at
    BY <1>1 DEF Traced
  <2>2. \A k \in 1..m : k \in 1..n /\ more[k] = ms[k]
    BY <1>1
  <2>3. AsDir(h, ms, e) => AsDir(h, more, e)
    BY <1>1, <2>2 DEF AsDir
  <2> QED BY <2>1, <2>2, <2>3
<1> QED BY <1>1, <1>2, <1>3, <1>4 DEF Traced

(* The argument at hand has a way to its place, or is for what is gone.    *)
LEMMA ArgSorted ==
  ASSUME NEW done, Midway(done)
  PROVE  \/ Settled(host, Arg) /\ Lost(host, Arg) = FALSE
         \/ Lost(host, Arg)
BY DoneSorted, Sorted, RealPlaces DEF Settled

(* What is created above the place of an argument.                         *)
LEMMA CreatedAbove ==
  ASSUME NEW done, Midway(done), Settled(host, Arg), NEW q \in Along(Arg.at), q # Arg.at
  PROVE  \/ q \in host.dirs
         \/ GitUsable(host) /\ \E p \in ProtectedFiles(host) : StrictlyUnder(p, q)
<1>1. /\ Accepted(host) /\ Arg \in Arguments /\ Arg.at \in Paths
      /\ q \in Paths /\ Under(Arg.at, q) /\ q # <<>>
  BY DoneSorted, AlongFacts DEF Arguments
<1>2. CASE StandIn(host, Arg)
  BY <1>1, <1>2 DEF StandIn, StrictlyUnder
<1>3. CASE ~StandIn(host, Arg)
  BY <1>1, <1>3, AbovePlace
<1> QED BY <1>2, <1>3

(* What is created is on the way to the place.                             *)
LEMMA CreatedFacts ==
  ASSUME NEW done, Midway(done), NEW p \in Paths, NEW e \in Created(p)
  PROVE  /\ e.to = NoPath /\ e.mount \in 1..Len(mounts) /\ e.at \in Along(p)
<1>1. PICK q \in Along(p) : e = [mount |-> Holder(q), at |-> q, to |-> NoPath]
  BY DEF Created, Missing
<1>2. q \in Paths
  BY AlongFacts
<1>3. Holder(q) \in 1..Len(mounts)
  BY <1>2, HolderIsMount DEF Midway, HeldInvariant, Invariant
<1> QED BY <1>1, <1>3

(* Each step keeps the invariant.                                          *)
LEMMA MadeMount ==
  ASSUME HeldInvariant, MadeInv, Mount
  PROVE  MadeInv'
<1>1. /\ status = "mounting" /\ args # <<>> /\ CanMount /\ args' = Tail(args)
      /\ UNCHANGED <<host, status>> /\ mounts' = Append(mounts, MountOf(host, Arg))
      /\ made' = made \cup Created(Arg.at)
  BY DEF Mount, MountOf
<1>2. PICK done \in Seq(Arguments) : Midway(done)
  BY <1>1 DEF MadeInv, Midway
<1>3. /\ Append(done, Arg) \in Seq(Arguments) /\ Arg \in Arguments /\ Arg.at \in Paths
      /\ BwrapArgs(host) = Append(done, Arg) \o args'
  BY <1>1, <1>2, OneApplied DEF Midway, HeldInvariant, Invariant, Arguments
<1>4. Settled(host, Arg)
  BY <1>1, <1>2, ArgSorted DEF CanMount, Lost
<1>5. PICK m \in Nat : m = Len(mounts) /\ m # 0
  BY EmptySeq DEF HeldInvariant, Invariant, BindsInv
<1>6. /\ Len(mounts') = m + 1 /\ mounts'[m + 1] = MountOf(host, Arg)
      /\ \A k \in 1..m : mounts'[k] = mounts[k]
  <2>1. PICK M : mounts \in Seq(M) /\ MountOf(host, Arg) \in M
    <3> DEFINE M == GoodMount(host) \cup {MountOf(host, Arg)}
    <3>1. mounts \in Seq(GoodMount(host)) /\ GoodMount(host) \subseteq M
      BY DEF HeldInvariant, Invariant, BindsInv
    <3> HIDE DEF M
    <3>2. mounts \in Seq(M)
      BY <3>1, SeqMonotonic
    <3> QED BY <3>2 DEF M
  <2> QED BY <1>1, <1>5, <2>1, AppendProperties
<1> DEFINE now == Append(done, Arg)
           new == Created(Arg.at)
<1>7. In(done) \subseteq In(now) /\ Arg \in In(now)
  BY <1>3, InMore
<1>8. \A n \in (m + 1)..(m + 1) : Mounted(host, mounts'[n], now)
  <2>1. IsMount(Arg) /\ (Arg.op = "bind" => Exists(host, Arg.src))
    BY <1>1 DEF CanMount, IsMount
  <2>2. Mounted(host, mounts'[m + 1], now)
    BY <1>6, <1>7, <2>1 DEF Mounted
  <2>3. \A n \in (m + 1)..(m + 1) : n = m + 1
    OBVIOUS
  <2> QED BY <2>2, <2>3
<1>9. ASSUME NEW e \in new
      PROVE  /\ e.mount \in 1..(m + 1)
             /\ e.to = NoPath => AsDir(host, mounts', e)
             /\ e.to # NoPath => \E a \in In(now) : a.op = "symlink" /\ a.at = e.at
  <2>1. e.to = NoPath /\ e.mount \in 1..m /\ e.at \in Along(Arg.at)
    BY <1>2, <1>3, <1>5, CreatedFacts
  <2>2. CASE e.at = Arg.at
    <3>1. m + 1 \in 1..Len(mounts') /\ m + 1 > e.mount /\ mounts'[m + 1].at = e.at
      BY <1>6, <2>1, <2>2 DEF MountOf
    <3> QED BY <2>1, <3>1 DEF AsDir
  <2>3. CASE e.at # Arg.at
    <3>1. \/ e.at \in host.dirs
          \/ GitUsable(host) /\ \E p \in ProtectedFiles(host) : StrictlyUnder(p, e.at)
      BY <1>2, <1>4, <2>1, <2>3, CreatedAbove
    <3> QED BY <2>1, <3>1 DEF AsDir
  <2> QED BY <2>2, <2>3
<1> HIDE DEF now, new
<1>10. Traced(host, mounts', made \cup new, now)
  <2>1. PICK more : more = mounts'
    OBVIOUS
  <2>2. /\ Traced(host, mounts, made, done) /\ Len(mounts) \in Nat \ {0}
        /\ Len(more) \in Nat /\ Len(mounts) <= Len(more)
        /\ \A k \in 1..Len(mounts) : more[k] = mounts[k]
        /\ In(done) \subseteq In(now)
        /\ \A n \in (Len(mounts) + 1)..Len(more) : Mounted(host, more[n], now)
        /\ \A e \in new :
             /\ e.mount \in 1..Len(more)
             /\ e.to = NoPath => AsDir(host, more, e)
             /\ e.to # NoPath => \E a \in In(now) : a.op = "symlink" /\ a.at = e.at
    BY <1>2, <1>5, <1>6, <1>7, <1>8, <1>9, <2>1 DEF Midway
  <2>3. Traced(host, more, made \cup new, now)
    BY <2>2, TracedMore
  <2> QED BY <2>1, <2>3
<1>11. host' = host /\ made' = made \cup new /\ now \in Seq(Arguments)
       /\ BwrapArgs(host) = now \o args'
  BY <1>1, <1>3 DEF new, now
<1> QED BY <1>10, <1>11 DEF MadeInv

LEMMA MadeCreate ==
  ASSUME HeldInvariant, MadeInv, Create
  PROVE  MadeInv'
<1> DEFINE link == [mount |-> Holder(Arg.at), at |-> Arg.at, to |-> Arg.src]
           new == IF Arg.op = "dir" THEN Created(Arg.at)
                  ELSE Created(Parent(Arg.at)) \cup {link}
<1>1. /\ status = "mounting" /\ args # <<>> /\ CanCreate /\ args' = Tail(args)
      /\ UNCHANGED <<host, status, mounts>> /\ made' = made \cup new
  BY DEF Create
<1>2. PICK done \in Seq(Arguments) : Midway(done)
  BY <1>1 DEF MadeInv, Midway
<1>3. /\ Append(done, Arg) \in Seq(Arguments) /\ Arg \in Arguments /\ Arg.at \in Paths
      /\ BwrapArgs(host) = Append(done, Arg) \o args'
  BY <1>1, <1>2, OneApplied DEF Midway, HeldInvariant, Invariant, Arguments
<1>4. PICK m \in Nat : m = Len(mounts) /\ m # 0
  BY EmptySeq DEF HeldInvariant, Invariant, BindsInv
<1> DEFINE now == Append(done, Arg)
<1>5. In(done) \subseteq In(now) /\ Arg \in In(now)
  BY <1>3, InMore
<1>6. Accepted(host) /\ \E j \in 1..14 : Belongs(host, j, Arg)
  BY <1>2, DoneSorted
<1>7. \/ Dir(host, Arg) \/ Plant(host, Arg) \/ Lost(host, Arg)
  BY <1>1, <1>6, Sorted DEF CanCreate, Mask, Itself, OverLink, StandIn, Late, RoBind
<1> HIDE DEF now
<1>8. ASSUME NEW e \in new
      PROVE  /\ e.mount \in 1..m
             /\ e.to = NoPath => AsDir(host, mounts, e)
             /\ e.to # NoPath => \E a \in In(now) : a.op = "symlink" /\ a.at = e.at
  <2>1. CASE Dir(host, Arg)
    <3>1. e \in Created(Arg.at) /\ Settled(host, Arg)
      BY <1>3, <1>6, <2>1, RealPlaces DEF Dir, Settled
    <3>2. e.to = NoPath /\ e.mount \in 1..m /\ e.at \in Along(Arg.at)
      BY <1>2, <1>3, <1>4, <3>1, CreatedFacts
    <3>3. \/ e.at \in host.dirs
          \/ GitUsable(host) /\ \E p \in ProtectedFiles(host) : StrictlyUnder(p, e.at)
      BY <1>2, <2>1, <3>1, <3>2, CreatedAbove DEF Dir
    <3> QED BY <3>2, <3>3 DEF AsDir
  <2>2. CASE Lost(host, Arg)
    <3>1. e \in Created(Arg.at) /\ Gone(host, Arg.at)
      BY <1>1, <2>2 DEF Lost, CanCreate
    <3>2. e.to = NoPath /\ e.mount \in 1..m /\ e.at \in Along(Arg.at)
      BY <1>2, <1>3, <1>4, <3>1, CreatedFacts
    <3>3. e.at \in Paths /\ Under(Arg.at, e.at)
      BY <1>3, <3>2, AlongFacts
    <3>4. PICK l \in StoreTargets(host, BoundPrefixes(host)) :
            ~Exists(host, l) /\ Under(l, Arg.at)
      BY <3>1 DEF Gone
    <3>5. l \in Paths
      BY <1>6, StoreTargetFacts DEF Accepted
    <3>6. Gone(host, e.at)
      BY <1>3, <3>3, <3>4, <3>5, UnderUnder DEF Gone
    <3> QED BY <3>2, <3>6 DEF AsDir
  <2>3. CASE Plant(host, Arg)
    <3>1. Settled(host, Arg) /\ Arg.op = "symlink" /\ Arg.src # NoPath
      BY <1>3, <1>6, <2>3, RealPlaces DEF Plant, Settled
    <3>2. Arg.at # <<>>
      BY <1>6, <2>3 DEF Plant, Accepted, Read, Grounded
    <3>3. Parent(Arg.at) \in Paths /\ \A q \in Along(Parent(Arg.at)) : q \in Along(Arg.at) /\ q # Arg.at
      BY <1>3, <3>2, ParentAbove, AlongFacts
    <3>4. CASE e \in Created(Parent(Arg.at))
      <4>1. e.to = NoPath /\ e.mount \in 1..m /\ e.at \in Along(Parent(Arg.at))
        BY <1>2, <1>4, <3>3, <3>4, CreatedFacts
      <4>2. \/ e.at \in host.dirs
            \/ GitUsable(host) /\ \E p \in ProtectedFiles(host) : StrictlyUnder(p, e.at)
        BY <1>2, <3>1, <3>3, <4>1, CreatedAbove
      <4> QED BY <4>1, <4>2 DEF AsDir
    <3>5. CASE e = link
      <4>1. Holder(Arg.at) \in 1..m
        BY <1>3, <1>4, HolderIsMount DEF HeldInvariant, Invariant
      <4> QED BY <1>5, <3>1, <3>5, <4>1
    <3> QED BY <3>1, <3>4, <3>5
  <2> QED BY <1>7, <2>1, <2>2, <2>3
<1> HIDE DEF new
<1>9. Traced(host, mounts, made \cup new, now)
  <2>1. /\ Traced(host, mounts, made, done) /\ Len(mounts) \in Nat \ {0}
        /\ Len(mounts) <= Len(mounts) /\ In(done) \subseteq In(now)
        /\ \A n \in (Len(mounts) + 1)..Len(mounts) : Mounted(host, mounts[n], now)
        /\ \A e \in new :
             /\ e.mount \in 1..Len(mounts)
             /\ e.to = NoPath => AsDir(host, mounts, e)
             /\ e.to # NoPath => \E a \in In(now) : a.op = "symlink" /\ a.at = e.at
    BY <1>2, <1>4, <1>5, <1>8 DEF Midway
  <2> QED BY <2>1, TracedMore
<1>10. /\ host' = host /\ mounts' = mounts /\ made' = made \cup new
       /\ now \in Seq(Arguments) /\ BwrapArgs(host) = now \o args'
  BY <1>1, <1>3 DEF now
<1> QED BY <1>9, <1>10 DEF MadeInv

LEMMA MadeCompute ==
  ASSUME Invariant, NEW answers, NEW filter, Compute(answers, filter)
  PROVE  MadeInv'
<1>1. /\ status = "checking" /\ ~LaunchRefused(host, answers)
      /\ args' = BwrapArgs(host) /\ host' = host /\ mounts' = mounts /\ made' = made
  BY DEF Compute, Refused
<1>2. ~DeclaredRefused(host)
  BY <1>1 DEF LaunchRefused
<1>3. BwrapArgs(host) \in Seq(GoodArg(host))
  BY <1>1, <1>2, HostFacts, ArgsGood DEF Invariant, Read
<1>4. <<>> \in Seq(Arguments) /\ BwrapArgs(host) = <<>> \o args'
  BY <1>1, <1>3, EmptySeq, ConcatEmptySeq
<1>5. mounts' = <<FirstMount>> /\ made' = {}
  BY <1>1 DEF Invariant, BindsInv
<1>6. Traced(host, mounts', made', <<>>)
  <2> DEFINE f == FirstMount
  <2>1. mounts' = <<f>> /\ made' = {}
    BY <1>5
  <2> HIDE DEF f
  <2>2. Len(mounts') = 1 /\ mounts'[1] = f /\ 2..1 = {}
    BY <2>1
  <2> QED BY <2>1, <2>2 DEF Traced, f
<1> QED BY <1>1, <1>4, <1>6 DEF MadeInv

-----------------------------------------------------------------------------
(* Where bubblewrap cannot go on.                                          *)

(* A link is planted once.                                                 *)
LEMMA PlantedOnce ==
  ASSUME NEW h, Accepted(h), NEW m \in 1..Len(Parts(h)[11]), NEW n \in 1..Len(Parts(h)[11]),
         Parts(h)[11][m].at = Parts(h)[11][n].at
  PROVE  m = n
<1> DEFINE s == SetToSeq(ParentSymlinks(h))
<1>1. IsFiniteSet(ParentSymlinks(h))
  BY ParentSymlinkFacts DEF Accepted
<1>2. /\ s \in Seq(ParentSymlinks(h))
      /\ \A i, j \in 1..Len(s) : s[i] = s[j] => i = j
  BY <1>1, SetSeq, SetSeqOnce
<1>3. Parts(h)[11] = [i \in 1..Len(s) |-> Symlink(s[i].to, s[i].path)]
  BY PartsAre DEF EachOf
<1> HIDE DEF s
<1>4. PICK N \in Nat : N = Len(s)
  BY <1>2
<1>5. Len(Parts(h)[11]) = N
  BY <1>3, <1>4
<1>6. m \in 1..Len(s) /\ n \in 1..Len(s)
  BY <1>4, <1>5
<1>7. s[m].path = s[n].path
  BY <1>3, <1>6 DEF Symlink
<1>8. /\ RealLink(h, s[m]) /\ s[m] \in PathPairs
      /\ RealLink(h, s[n]) /\ s[n] \in PathPairs
  BY <1>2, <1>6, LinksReal
<1>9. s[m] = s[n]
  BY <1>7, <1>8 DEF RealLink, PathPairs
<1> QED BY <1>2, <1>6, <1>9

(* The closure is right inside the store.                                  *)
LEMMA ClosureFacts ==
  ASSUME NEW p \in Closure
  PROVE  /\ p \in Paths /\ p # <<>> /\ Parent(p) = Store /\ p # Store
         /\ Under(p, Store)
<1>1. p \in Paths /\ Parent(p) = Store /\ p # Store
  BY PlacesAssumption, PresentAssumption
<1>2. p # <<>>
  <2>1. Parent(<<>>) = <<>>
    BY DEF Parent, Front
  <2> QED BY <1>1, <2>1
<1> QED BY <1>1, <1>2, ParentAbove

(* What an argument for a link follows.                                    *)
LEMMA LinkArgument ==
  ASSUME NEW h, Accepted(h), NEW j \in 1..14, NEW a, Belongs(h, j, a),
         a.at \in DOMAIN h.links, ~Lost(h, a)
  PROVE  OverLink(h, a) \/ Plant(h, a)
<1>1. Grounded(h)
  BY DEF Accepted, Read
<1>2. a.at \notin h.dirs \cup h.files
  BY <1>1, HereIsNoLink
<1>3. ~StandIn(h, a)
  BY ProtectedIsNoLink DEF StandIn
<1>4. ~Late(h, a)
  BY BundleFacts DEF Late, RoBind, BundlePlace, RealNames
<1> QED BY <1>2, <1>3, <1>4, Sorted DEF Mask, Itself, Dir

(* A link on the way is one that is exposed all the same: the links to     *)
(* plant come once each, and what is bound over a link comes before them.  *)
LEMMA NoLinkOnWay ==
  ASSUME NEW done, Midway(done), Settled(host, Arg), ~Lost(host, Arg),
         NEW q \in Along(Arg.at), KindOf(q) = "link"
  PROVE  OnExposedLink
<1>1. PICK u, part, place, t : Stage(done, u, part, place, t)
  BY Progress DEF Midway
<1> DEFINE p == Arg.at
           now == t + 1
<1>2. /\ Accepted(host) /\ Grounded(host) /\ Present(host) /\ Read(host)
      /\ Arg \in Arguments /\ p \in Paths
  BY DoneSorted DEF Accepted, Arguments
<1>3. /\ q = p /\ p \in DOMAIN host.links /\ p # <<>>
      /\ \/ \E b \in In(done) : b.op = "symlink" /\ b.at = p
         \/ \E b \in In(done) : Itself(host, b) /\ Under(p, b.at)
  BY <1>2, LinkMet DEF Grounded
<1>4. /\ t \in Nat /\ now \in 1..Len(u) /\ u[now] = Arg
      /\ part[now] \in 1..14 /\ Belongs(host, part[now], Arg)
      /\ place[now] \in 1..Len(Parts(host)[part[now]])
      /\ Parts(host)[part[now]][place[now]] = Arg
  BY <1>1 DEF Stage
<1>5. OverLink(host, Arg) \/ Plant(host, Arg)
  BY <1>2, <1>3, <1>4, LinkArgument
<1>6. ASSUME NEW b \in In(done)
      PROVE  \E i \in 1..t :
               /\ b = u[i] /\ part[i] \in 1..14 /\ Belongs(host, part[i], b)
               /\ place[i] \in 1..Len(Parts(host)[part[i]])
               /\ Parts(host)[part[i]][place[i]] = b
               /\ part[i] < part[now] \/ (part[i] = part[now] /\ place[i] < place[now])
  <2>1. PICK i \in 1..t : b = done[i]
    BY <1>1 DEF In, Stage
  <2>2. i < now /\ i \in 1..Len(u) /\ u[i] = b
    BY <1>1, <1>4, <2>1 DEF Stage
  <2>3. part[i] < part[now] \/ (part[i] = part[now] /\ place[i] < place[now])
    BY <1>1, <1>4, <2>2 DEF Stage, Laid
  <2> QED BY <1>1, <2>1, <2>2, <2>3 DEF Stage
<1> HIDE DEF now
<1>7. ASSUME NEW b \in In(done), b.op = "symlink", b.at = p
      PROVE  FALSE
  <2>1. PICK i \in 1..t :
               /\ b = u[i] /\ part[i] \in 1..14 /\ Belongs(host, part[i], b)
               /\ place[i] \in 1..Len(Parts(host)[part[i]])
               /\ Parts(host)[part[i]][place[i]] = b
               /\ part[i] < part[now] \/ (part[i] = part[now] /\ place[i] < place[now])
    BY <1>6
  <2>2. Plant(host, b)
    BY <1>3, <1>7, PlantedAt
  <2>3. part[i] = 11
    BY <1>2, <2>1, <2>2, NotExposed
  <2>4. CASE OverLink(host, Arg)
    <3>1. part[now] <= 10
      BY <1>2, <1>4, <2>4, NotExposed
    <3>2. PICK k \in 1..14 : k = part[now]
      BY <1>4
    <3>3. 11 < k \/ 11 = k
      BY <2>1, <2>3, <3>2
    <3> QED BY <3>1, <3>2, <3>3
  <2>5. CASE Plant(host, Arg)
    <3>1. part[now] = 11
      BY <1>2, <1>4, <2>5, NotExposed
    <3>2. place[i] < place[now]
      BY <2>1, <2>3, <3>1
    <3>3. place[i] = place[now]
      BY <1>2, <1>4, <1>7, <2>1, <2>3, <3>1, PlantedOnce
    <3>4. Len(Parts(host)[11]) \in Nat
      <4>1. Parts(host)[11] \in Seq(Arguments)
        BY <1>2, PartsBelong, EachAt
      <4> QED BY <4>1
    <3>5. place[now] \in Nat
      BY <1>4, <3>1, <3>4
    <3> QED BY <3>2, <3>3, <3>5
  <2> QED BY <1>5, <2>4, <2>5
<1>8. ASSUME NEW b \in In(done), Itself(host, b), Under(p, b.at)
      PROVE  OnExposedLink
  <2>1. PICK i \in 1..t :
               /\ b = u[i] /\ part[i] \in 1..14 /\ Belongs(host, part[i], b)
               /\ part[i] < part[now] \/ part[i] = part[now]
    BY <1>6
  <2>2. b.at \in Paths /\ b.at # p /\ b.op = "bind"
    BY <1>2, <1>3, <1>8, HereIsNoLink DEF Itself
  <2>3. AlreadyBound(b.at, BoundPrefixes(host)) \/ b.at \in Overlooked(host)
    BY <1>2, <1>3, <1>8, <2>1, Exposing
  <2>4. /\ Parent(p) \in Paths /\ Under(Parent(p), b.at)
    BY <1>2, <1>3, <1>8, <2>2, ParentAbove
  <2>5. CASE b.at \in Overlooked(host)
    BY <1>3, <1>8, <2>2, <2>5 DEF OnExposedLink
  <2>6. CASE AlreadyBound(b.at, BoundPrefixes(host))
    <3>1. PICK prefix \in BoundPrefixes(host) : Under(b.at, prefix)
      BY <2>6 DEF AlreadyBound
    <3>2. prefix \in Paths
      BY <1>2, <3>1, PrefixesArePaths
    <3>3. AlreadyBound(Parent(p), BoundPrefixes(host))
      BY <2>2, <2>4, <3>1, <3>2, UnderUnder DEF AlreadyBound
    <3>4. \/ part[now] = 1 /\ ~host.allowNix /\ p \in Closure
          \/ Landing(p, host.links) = <<>>
      BY <1>2, <1>4, <1>5, <3>3, NotExposed
    <3>5. ASSUME part[now] = 1, ~host.allowNix, p \in Closure PROVE FALSE
      <4>1. part[i] = 1
        BY <2>1, <3>5
      <4>2. b \in OfStore(host)
        BY <2>1, <4>1 DEF Belongs
      <4>3. b.at \in Closure
        BY <2>2, <3>5, <4>2 DEF OfStore, RoBinds, RoBind, Tmpfs
      <4>4. Under(b.at, Store) /\ b.at # Store /\ Parent(p) = Store
        BY <3>5, <4>3, ClosureFacts
      <4> QED BY <2>2, <2>4, <4>4, BothAbove
    <3> QED BY <1>3, <3>4, <3>5 DEF OnExposedLink
  <2> QED BY <2>3, <2>5, <2>6
<1> QED BY <1>3, <1>7, <1>8

-----------------------------------------------------------------------------
(* What is missing of the way to a place, and cannot be created.           *)

(* What may be bound read-only above the temporary directory.              *)
ReadOnlyAbove(h) ==
  {d.path : d \in {e \in DeclaredSet(h) : e.mode = "ro"}}
    \cup GrantableRepoRoot(h) \cup {q \in ProtectedDirs(h) : GitUsable(h)}

(* What is bound read-only above the temporary directory.                  *)
LEMMA AboveTmp ==
  ASSUME NEW h, Accepted(h), NEW j \in 1..14, NEW b, Belongs(h, j, b),
         Itself(h, b), ~b.rw, Under(Tmp, b.at)
  PROVE  b.at \in ReadOnlyAbove(h)
<1>0. /\ Read(h) /\ Grounded(h) /\ Furnished(h) /\ Present(h) /\ b.op = "bind"
      /\ b.at \in Paths /\ Tmp \in Paths /\ Tmp \in h.dirs
      /\ Store \in Paths
  BY BundleFacts, PlacesAssumption DEF Accepted, Read, Belongs, Arguments, Itself
<1>1. ~Under(Tmp, Store) /\ ~Under(Tmp, NixVar)
  BY PresentAssumption
<1>2. ~Under(b.at, Store)
  BY <1>0, <1>1, UnderUnder
<1>3. b.at \notin h.files
  <2>1. ASSUME b.at \in h.files PROVE FALSE
    <3>1. Tmp = b.at
      BY <1>0, <2>1, NoFileAbove DEF RealNames
    <3> QED BY <1>0, <2>1, <3>1 DEF Furnished
  <2> QED BY <2>1
<1>4. CASE b \in OfStore(h)
  <2>1. ASSUME NEW p \in Closure, b.at = p PROVE FALSE
    BY <1>2, <2>1, ClosureFacts
  <2> QED BY <1>0, <1>1, <1>2, <1>4, <2>1, UnderItself DEF OfStore, RoBinds, RoBind, Tmpfs
<1>5. CASE b \in {Tmpfs(Tmp), Tmpfs(Home)} \/ b \in OfDirs(h) \/ b \in OfLinks(h)
  BY <1>0, <1>5 DEF Tmpfs, OfDirs, MakeDir, OfLinks, Symlink
<1>6. CASE b \in RoBinds(GrantableRepoRoot(h))
  BY <1>6 DEF RoBinds, RoBind, ReadOnlyAbove
<1>7. b # Bind(h.workspace, h.workspace)
  BY DEF Bind
<1>8. ASSUME NEW mode, NEW kind, b \in AllSeen(h, mode, kind)
      PROVE  b.at \in ReadOnlyAbove(h)
  <2>1. PICK d \in DeclaredSet(h) : b.at = d.path /\ b.rw = (d.mode = "rw")
    BY <1>8 DEF AllSeen, OfSeen, OfDeclared
  <2>2. d.mode = "ro"
    BY <1>0, <2>1, DeclaredFacts DEF Known
  <2> QED BY <2>1, <2>2 DEF ReadOnlyAbove
<1>9. CASE b \in RoBinds(StoreTargets(h, BoundPrefixes(h)))
  BY <1>2, <1>9 DEF RoBinds, RoBind, StoreTargets, StrictlyUnder
<1>10. CASE b \in OfGit(h)
  <2>1. GitUsable(h)
    BY <1>10 DEF OfGit
  <2>2. b \in RoBinds(ProtectedDirs(h)) => b.at \in ReadOnlyAbove(h)
    BY <2>1 DEF RoBinds, RoBind, ReadOnlyAbove
  <2>3. b \notin OfGitFiles(h)
    <3>1. b \in OfGitFiles(h) => b.at \in ProtectedFiles(h)
      BY DEF OfGitFiles, RoBind
    <3>2. b.at \in ProtectedFiles(h) => b.at \notin h.dirs
      BY <2>1, ProtectedIsNoLink
    <3> QED BY <1>3, <3>1, <3>2 DEF Itself
  <2> QED BY <1>10, <2>2, <2>3 DEF OfGit, Bind
<1>11. CASE b \in OfSocket(h)
  BY <1>0, <1>3, <1>11 DEF OfSocket, RoBind, Furnished
<1>12. CASE b \in OfBundle(h)
  <2>1. b.at = BundlePlace
    BY <1>12 DEF OfBundle, RoBind, BundlePlace
  <2> QED BY <2>1, BundleFacts DEF Itself, RealNames
<1> QED BY <1>4, <1>5, <1>6, <1>7, <1>8, <1>9, <1>10, <1>11, <1>12 DEF Belongs

(* A stand-in comes with what git adds.                                    *)
LEMMA StandInPart ==
  ASSUME NEW h, Accepted(h), NEW j \in 1..14, NEW a, Belongs(h, j, a), StandIn(h, a)
  PROVE  j = 12
<1>0. /\ Read(h) /\ Grounded(h) /\ Furnished(h) /\ Present(h) /\ GitUsable(h)
      /\ a.op = "bind" /\ a.src = EmptyFile /\ a.at \in ProtectedFiles(h) \ h.files
      /\ a.at \in Paths
  BY DEF Accepted, Read, StandIn, Belongs, Arguments
<1>1. a.at \notin RealNames(h) /\ a.at # EmptyFile
  BY <1>0, ProtectedIsNoLink DEF RealNames, Present
<1>2. a.src # a.at
  BY <1>0, <1>1
<1>3. ASSUME NEW mode, NEW kind, a \in AllSeen(h, mode, kind) PROVE FALSE
  <2>1. PICK d \in DeclaredSet(h) : a.at = d.path
    BY <1>3 DEF AllSeen, OfSeen, OfDeclared
  <2>2. AtFinal(d.path, h.links) /\ Exists(h, d.path)
    BY AcceptedWalked DEF Walked
  <2> QED BY <1>0, <1>1, <2>1, <2>2, FinalIsReal
<1>4. a.at # BundlePlace
  BY <1>0, BundleFacts, UnderItself
<1>5. /\ a \notin OfStore(h) /\ a \notin RoBinds(GrantableRepoRoot(h))
      /\ a # Bind(h.workspace, h.workspace)
      /\ a \notin RoBinds(StoreTargets(h, BoundPrefixes(h))) /\ a \notin OfSocket(h)
  BY <1>0, <1>2 DEF OfStore, RoBinds, RoBind, Bind, Tmpfs, OfSocket
<1>6. a \notin {Tmpfs(Tmp), Tmpfs(Home)} /\ a \notin OfDirs(h) /\ a \notin OfLinks(h)
  BY <1>0 DEF Tmpfs, OfDirs, MakeDir, OfLinks, Symlink
<1>7. a \notin OfBundle(h)
  BY <1>4 DEF OfBundle, RoBind, BundlePlace
<1> QED BY <1>3, <1>5, <1>6, <1>7 DEF Belongs

(* The last argument over a path.                                          *)
LEMMA LastOneOver ==
  ASSUME NEW s \in Seq(Arguments), NEW p, NEW i \in 1..Len(s), Covers(s[i], p)
  PROVE  \E n \in 1..Len(s) : LastOver(s, p, n) /\ i <= n /\ Covers(s[n], p)
<1>1. PICK N \in Nat : N = Len(s)
  OBVIOUS
<1>2. Over(s, p) \in SUBSET (1..N) /\ i \in Over(s, p)
  BY <1>1 DEF Over
<1>3. PICK n \in Over(s, p) : \A m \in Over(s, p) : n >= m
  BY <1>2, GreatestExists
<1>4. n \in 1..N /\ Covers(s[n], p) /\ \A m \in Over(s, p) : m \in 1..N /\ m <= n
  BY <1>1, <1>2, <1>3 DEF Over
<1> QED BY <1>1, <1>2, <1>3, <1>4 DEF LastOver

(* git's own bind is the first of its part.                                *)
LEMMA CommonFirst ==
  ASSUME NEW h, Read(h), GitUsable(h)
  PROVE  1 \in 1..Len(Parts(h)[12]) /\ Parts(h)[12][1] = Bind(h.common, h.common)
<1> DEFINE b == Bind(h.common, h.common)
           d == GitDirBinds(h)
           f == GitFileBinds(h)
<1>1. Parts(h)[12] = (<<b>> \o d) \o f
  BY PartsAre, GitParts DEF GitOwn
<1>2. b \in Arguments /\ d \in Seq(Arguments) /\ f \in Seq(Arguments)
  <2>1. Grounded(h)
    BY DEF Read
  <2>2. b \in OfGit(h)
    BY DEF OfGit
  <2> QED BY <2>1, <2>2, GitBindsSplit, GitPartsHold
<1> HIDE DEF b, d, f
<1>3. PICK k \in Nat, l \in Nat : k = Len(d) /\ l = Len(f)
  BY <1>2
<1> DEFINE e == <<b>> \o d
<1>4. e \in Seq(Arguments) /\ Len(e) = 1 + k /\ e[1] = b
  <2>1. <<b>> \in Seq(Arguments) /\ Len(<<b>>) = 1 /\ <<b>>[1] = b
    BY <1>2
  <2> QED BY <1>2, <1>3, <2>1, ConcatProperties
<1> HIDE DEF e
<1>5. Len(e \o f) = 1 + k + l /\ (e \o f)[1] = b
  <2>1. PICK m \in Nat : m = Len(e) /\ m = 1 + k
    BY <1>4
  <2>2. /\ Len(e \o f) = m + l
        /\ \A i \in 1..(m + l) : (e \o f)[i] = IF i <= m THEN e[i] ELSE f[i - m]
    <3>1. e \in Seq(Arguments) /\ f \in Seq(Arguments)
      BY <1>2, <1>4
    <3>2. /\ Len(e \o f) = Len(e) + Len(f)
          /\ \A i \in 1..(Len(e) + Len(f)) :
               (e \o f)[i] = IF i <= Len(e) THEN e[i] ELSE f[i - Len(e)]
      BY <3>1, ConcatProperties
    <3> QED BY <1>3, <2>1, <3>2
  <2>3. 1 \in 1..(m + l) /\ 1 <= m
    BY <2>1
  <2> QED BY <1>4, <2>1, <2>2, <2>3
<1>6. 1 \in 1..(1 + k + l)
  OBVIOUS
<1> QED BY <1>1, <1>5, <1>6 DEF b, e

(* Below the git directory nothing is missing that cannot be created, but  *)
(* among the hooks.                                                        *)
LEMMA StandInBlocked ==
  ASSUME NEW done, Midway(done), StandIn(host, Arg), NEW q \in Along(Arg.at),
         KindOf(q) = "none", ~Writable(q)
  PROVE  \E d \in ProtectedDirs(host) : Under(Arg.at, d)
<1> DEFINE p == Arg.at
           c == host.common
           own == Bind(c, c)
<1>1. /\ Accepted(host) /\ Read(host) /\ Grounded(host) /\ Furnished(host)
      /\ Arg \in Arguments /\ p \in Paths /\ q \in Paths /\ Under(p, q) /\ q # <<>>
      /\ Settled(host, Arg) /\ GitUsable(host)
  BY DoneSorted, AlongFacts DEF Accepted, Arguments, Settled, StandIn
<1>2. /\ p \in ProtectedFiles(host) \ host.files /\ Under(p, c)
      /\ c \in Paths /\ c \in host.dirs
  BY <1>1, ProtectedFileFacts, GitDirFacts DEF StandIn, Furnished, GitUsable
<1>3. PICK b \in In(done) : Itself(host, b) /\ mounts[Holder(q)] = MountOf(host, b)
        /\ q \notin RealNames(host)
  BY <1>1, NoneMet
<1>4. Under(q, c)
  <2>1. Under(q, c) \/ Under(c, q)
    BY <1>1, <1>2, OneAbove
  <2>2. Under(c, q) => q = c
    BY <1>1, <1>2, <1>3, DirAbove DEF RealNames
  <2>3. q # c
    BY <1>2, <1>3 DEF RealNames
  <2> QED BY <2>1, <2>2, <2>3
<1>5. PICK now \in Seq(Arguments) :
        BwrapArgs(host) = now \o args /\ Applied(host, mounts, now)
  BY DEF Midway, HeldInvariant, HeldInv
<1>6. PICK u, part, place, t : Stage(now, u, part, place, t)
  BY <1>5, Progress DEF Midway
<1>7. /\ t \in Nat /\ t = Len(now) /\ t + 1 \in 1..Len(u) /\ u[t + 1] = Arg
      /\ Len(u) \in Nat
      /\ \A i \in 1..t : i \in 1..Len(u) /\ now[i] = u[i]
      /\ \A i \in 1..Len(u) :
           /\ part[i] \in 1..14 /\ Belongs(host, part[i], u[i])
           /\ place[i] \in 1..Len(Parts(host)[part[i]])
           /\ u[i] = Parts(host)[part[i]][place[i]]
      /\ \A i, j \in 1..Len(u) :
           i < j => part[i] < part[j] \/ (part[i] = part[j] /\ place[i] < place[j])
      /\ \A k \in 1..14 : \A n \in 1..Len(Parts(host)[k]) :
           \E i \in 1..Len(u) : part[i] = k /\ place[i] = n
  BY <1>6 DEF Stage, Laid
<1>8. part[t + 1] = 12
  BY <1>1, <1>7, StandInPart
<1>9. PICK N \in Nat : N = Len(Parts(host)[12]) /\ 1 \in 1..N /\ Parts(host)[12][1] = own
  <2>1. Parts(host)[12] \in Seq(Arguments)
    BY <1>1, PartsBelong, EachAt
  <2>2. Len(Parts(host)[12]) \in Nat
    BY <2>1
  <2> QED BY <1>1, <2>2, CommonFirst
<1>10. PICK i \in 1..Len(u) : part[i] = 12 /\ place[i] = 1
  BY <1>7, <1>9
<1>11. u[i] = own /\ own.op = "bind" /\ own.at = c /\ own.src = c /\ own.rw = TRUE
  BY <1>7, <1>9, <1>10 DEF Bind
<1>12. i \in 1..t
  <2>1. i # t + 1
    <3>1. Arg.at # c
      BY <1>1, <1>2 DEF Furnished
    <3> QED BY <1>7, <1>11, <3>1
  <2>2. ~(t + 1 < i)
    <3>1. ASSUME t + 1 < i PROVE FALSE
      <4>1. part[t + 1] < part[i] \/ (part[t + 1] = part[i] /\ place[t + 1] < place[i])
        BY <1>7, <3>1
      <4>2. place[t + 1] \in 1..N
        BY <1>7, <1>8, <1>9
      <4> QED BY <1>8, <1>10, <4>1, <4>2
    <3> QED BY <3>1
  <2> QED BY <1>7, <2>1, <2>2
<1> HIDE DEF own
<1>13. PICK n \in 1..t : LastOver(now, q, n) /\ i <= n /\ Covers(now[n], q)
  <2>1. Covers(now[i], q)
    BY <1>4, <1>7, <1>11, <1>12 DEF Covers, IsMount
  <2> QED BY <1>7, <1>12, <2>1, LastOneOver
<1>14. PICK a \in Arguments : a = now[n] /\ a = u[n] /\ Belongs(host, part[n], a)
                          /\ n \in 1..Len(u) /\ n < t + 1 /\ part[n] \in 1..14
  <2>1. now[n] \in Arguments
    BY <1>7
  <2>2. n \in 1..Len(u) /\ now[n] = u[n]
    BY <1>7
  <2> QED BY <1>7, <2>1, <2>2
<1>15. part[n] = 12
  <2>1. part[n] <= 12
    <3>1. part[n] < part[t + 1] \/ part[n] = part[t + 1]
      BY <1>7, <1>14
    <3> QED BY <1>8, <1>14, <3>1
  <2>2. 12 <= part[n]
    <3>1. CASE i = n
      BY <1>10, <3>1
    <3>2. CASE i # n
      <4>1. i < n
        BY <1>13, <3>2
      <4>2. part[i] < part[n] \/ part[i] = part[n]
        BY <1>7, <1>14, <4>1
      <4> QED BY <1>10, <1>14, <4>2
    <3> QED BY <3>1, <3>2
  <2> QED BY <1>14, <2>1, <2>2
<1>16. a \in OfGit(host)
  BY <1>14, <1>15 DEF Belongs
<1>17. /\ MountOf(host, a) = MountOf(host, b) /\ Under(q, a.at) /\ a.at \in Paths
       /\ ~a.rw
  <2>1. HolderIn(mounts, q) = Holder(q)
    BY DEF HolderIn, Holder
  <2>2. mounts[Holder(q)] = MountOf(host, a)
    BY <1>1, <1>5, <1>7, <1>13, <1>14, <2>1 DEF Applied
  <2>3. ~a.rw
    BY <2>2 DEF Writable, MountOf
  <2> QED BY <1>3, <1>13, <1>14, <2>2, <2>3 DEF Covers, Arguments
<1>18. a.at = b.at /\ a.at \in host.dirs \cup host.files
  BY <1>3, <1>17 DEF MountOf, Itself
<1>19. Under(p, a.at)
  BY <1>1, <1>17, UnderUnder
<1>20. a \notin OfGitFiles(host)
  <2>1. ASSUME a \in OfGitFiles(host) PROVE FALSE
    <3>1. a.at \in ProtectedFiles(host)
      BY <2>1 DEF OfGitFiles, RoBind
    <3>2. a.at # <<>>
      BY <1>1, <3>1, ProtectedNames
    <3>3. a.at = p
      BY <1>1, <1>17, <1>19, <3>1, <3>2, AbovePlace
    <3> QED BY <1>1, <1>2, <1>18, <3>3, ProtectedIsNoLink
  <2> QED BY <2>1
<1>21. a # own
  BY <1>11, <1>17
<1> QED BY <1>16, <1>19, <1>20, <1>21 DEF OfGit, RoBinds, RoBind, own

(* What is missing on the way can be created, but for the exceptions.      *)
LEMMA NoneOnWay ==
  ASSUME NEW done, Midway(done), Settled(host, Arg), NEW q \in Along(Arg.at),
         KindOf(q) = "none", ~Writable(q)
  PROVE  PlaceReadOnly
<1> DEFINE p == Arg.at
<1>1. /\ Accepted(host) /\ Grounded(host) /\ Furnished(host)
      /\ Arg \in Arguments /\ p \in Paths /\ q \in Paths /\ Under(p, q) /\ q # <<>>
  BY DoneSorted, AlongFacts DEF Accepted, Arguments
<1>2. PICK b \in In(done) : /\ Itself(host, b) /\ Under(q, b.at) /\ ~b.rw
                            /\ q \notin RealNames(host)
  BY NoneMet
<1>3. ~Real(host, Arg)
  BY <1>1, <1>2, DirAbove DEF Real, RealNames
<1>4. CASE StandIn(host, Arg)
  <2>1. \E d \in ProtectedDirs(host) : Under(p, d)
    BY <1>4, StandInBlocked
  <2> QED BY <1>4, <2>1 DEF StandIn, PlaceReadOnly
<1>5. CASE Late(host, Arg)
  <2>1. p = BundlePlace
    BY <1>5 DEF Late, RoBind, BundlePlace
  <2>2. b.at \in Paths /\ b.at # BundlePlace
    BY <1>1, <1>2, BundleFacts DEF Itself, RealNames, Grounded
  <2>3. Under(p, b.at)
    BY <1>1, <1>2, <2>2, UnderUnder
  <2>4. Under(Tmp, b.at)
    BY <1>1, <2>1, <2>2, <2>3, BundleFacts
  <2>5. PICK j \in 1..14 : Belongs(host, j, b)
    BY DoneSorted
  <2>6. b.at \in ReadOnlyAbove(host)
    BY <1>1, <1>2, <2>4, <2>5, AboveTmp
  <2> QED BY <2>1, <2>4, <2>6 DEF PlaceReadOnly, ReadOnlyAbove, BundlePlace
<1> QED BY <1>3, <1>4, <1>5 DEF Settled

-----------------------------------------------------------------------------
(* The root is a directory.                                                *)
LEMMA RootIsDir ==
  ASSUME NEW done, Midway(done)
  PROVE  KindOf(<<>>) = "dir"
<1> DEFINE r == <<>>
<1>0. /\ Accepted(host) /\ Grounded(host) /\ Furnished(host) /\ r \in Paths
      /\ \A p \in Paths : Under(r, p) => p = r
  <2>1. r \in Paths
    BY DEF Paths
  <2>2. \A p \in Paths : Under(p, r)
    <3> TAKE p \in Paths
    <3>1. Len(p) \in Nat /\ Len(r) = 0
      BY DEF Paths
    <3> QED BY <2>1, <3>1, UnderMeans
  <2> QED BY <2>1, <2>2, DoneSorted, BothAbove DEF Accepted
<1> HIDE DEF r
<1>1. r \notin DOMAIN host.links /\ r \notin host.files /\ NoPath # r
  BY <1>0 DEF r, Furnished, Grounded, NoPath
<1>2. \A e \in MadeAt(r) : e.to = NoPath
  <2>1. ASSUME NEW e \in MadeAt(r), e.to # NoPath PROVE FALSE
    <3>1. PICK a \in In(done) : a.op = "symlink" /\ a.at = r
      BY <1>0, <2>1, MadeMeans
    <3>2. a.at \in DOMAIN host.links
      <4>1. PICK j \in 1..14 : Belongs(host, j, a)
        BY DoneSorted
      <4> QED BY <1>0, <3>1, <4>1, Sorted
               DEF Mask, Itself, OverLink, StandIn, Late, RoBind, Dir, Lost, Plant
    <3> QED BY <1>1, <3>1, <3>2
  <2> QED BY <2>1
<1>3. \/ r = mounts[Holder(r)].at /\ Shows(r) = NoPath
      \/ Shows(r) = r /\ r \in host.dirs
  <2>1. CASE mounts[Holder(r)] = FirstMount
    BY <2>1 DEF FirstMount, Shows, r
  <2>2. ASSUME NEW b \in In(done), IsMount(b), mounts[Holder(r)] = MountOf(host, b),
               Under(r, b.at), b.op = "bind" => Exists(host, b.src)
        PROVE  \/ r = mounts[Holder(r)].at /\ Shows(r) = NoPath
               \/ Shows(r) = r /\ r \in host.dirs
    <3>1. b \in Arguments /\ b.at \in Paths /\ b.at = r
      BY <1>0, <2>2, DoneSorted DEF Arguments
    <3>2. PICK j \in 1..14 : Belongs(host, j, b)
      BY DoneSorted
    <3>3. ~OverLink(host, b) /\ ~StandIn(host, b) /\ ~Late(host, b)
      <4>1. ~StandIn(host, b)
        BY <1>0, <3>1, ProtectedNames DEF StandIn, r
      <4>2. ~Late(host, b)
        BY <1>0, <3>1, BundleFacts DEF Late, RoBind, BundlePlace, r
      <4> QED BY <1>1, <3>1, <4>1, <4>2 DEF OverLink
    <3>4. ~Dir(host, b) /\ ~Plant(host, b)
      BY <2>2 DEF IsMount, Dir, Plant
    <3>5. CASE Mask(host, b)
      <4>1. mounts[Holder(r)] = [at |-> b.at, rw |-> b.rw, src |-> NoPath]
        BY <2>2, <3>5 DEF MountOf, Mask
      <4> QED BY <3>1, <4>1 DEF Shows
    <3>6. CASE Itself(host, b)
      <4>1. r \in host.dirs /\ Landing(b.src, host.links) = r /\ b.op = "bind"
        BY <1>0, <1>1, <3>1, <3>6, HereIsNoLink DEF Itself
      <4>2. Shows(r) = r
        BY <1>0, <2>2, <3>1, <4>1, ShowsBound
      <4> QED BY <4>1, <4>2
    <3>7. ~Lost(host, b)
      BY <2>2 DEF Lost, IsMount
    <3> QED BY <1>0, <3>2, <3>3, <3>4, <3>5, <3>6, <3>7, Sorted
  <2> QED BY <1>0, <2>1, <2>2, HeldBy
<1>4. KindOf(r) = "dir"
  <2>1. CASE r = mounts[Holder(r)].at /\ Shows(r) = NoPath
    <3>1. NoPath \notin DOMAIN host.links /\ NoPath \notin host.dirs /\ NoPath \notin host.files
      BY <1>0, NoPathIsNone DEF Grounded
    <3> QED BY <1>2, <2>1, <3>1 DEF KindOf
  <2>2. CASE Shows(r) = r /\ r \in host.dirs
    BY <1>1, <1>2, <2>2 DEF KindOf
  <2> QED BY <1>3, <2>1, <2>2
<1> QED BY <1>4 DEF r

(* What is at the place of an argument is of the kind it asks for.         *)
LEMMA PlaceFits ==
  ASSUME NEW done, Midway(done), Settled(host, Arg), ~Lost(host, Arg), Clear(Arg.at)
  PROVE  CanMount \/ CanCreate \/ OnExposedLink \/ TargetGone
<1> SUFFICES ASSUME ~OnExposedLink, ~TargetGone
             PROVE  CanMount \/ CanCreate
  OBVIOUS
<1> DEFINE p == Arg.at
           K == KindOf(p)
<1>0. /\ Accepted(host) /\ Grounded(host) /\ Furnished(host) /\ Present(host)
      /\ Arg \in Arguments /\ p \in Paths /\ <<>> \notin DOMAIN host.links
  BY DoneSorted DEF Accepted, Arguments, Grounded
<1>1. p = <<>> => K = "dir"
  BY RootIsDir
<1>2. K \in {"dir", "file", "none"}
  <2>1. p # <<>> => K # "link"
    BY <1>0, AlongFacts DEF Clear
  <2> QED BY <1>1, <2>1, KindMeans
<1>3. K = "file" =>
        \/ p \in host.files
        \/ /\ Landing(p, host.links) \in host.files
           /\ \E b \in In(done) : OverLink(host, b) /\ b.at = p
        \/ GitUsable(host) /\ p \in ProtectedFiles(host) \ host.files
        \/ p = BundlePlace
  BY <1>0, <1>1, AlongFacts, FileMet
<1>4. K = "dir" /\ p # <<>> =>
        \/ p \in host.dirs
        \/ GitUsable(host) /\ \E f \in ProtectedFiles(host) : StrictlyUnder(f, p)
        \/ /\ Landing(p, host.links) \in host.dirs
           /\ \E b \in In(done) : OverLink(host, b) /\ b.at = p
  <2>1. ~Gone(host, p)
    BY DEF TargetGone, Gone
  <2> QED BY <1>0, <2>1, AlongFacts, DirMet
<1> HIDE DEF p, K
<1>5. ASSUME NEW f \in ProtectedFiles(host), GitUsable(host), StrictlyUnder(f, p), p # <<>>
      PROVE  /\ p \notin host.files /\ p \notin ProtectedFiles(host)
             /\ p \notin DOMAIN host.links /\ p # BundlePlace
  <2>1. f \in Paths /\ AtFinal(f, host.links) /\ Under(f, p) /\ f # p
    BY <1>0, <1>5, ProtectedIsNoLink DEF StrictlyUnder
  <2>2. p \in Ancestors(f)
    BY <1>0, <1>5, <2>1, AboveIsAncestor
  <2>3. p \notin DOMAIN host.links
    BY <1>0, <2>1, FinalAbove
  <2>4. p # BundlePlace
    BY <1>0, <2>1, BundleFacts
  <2> QED BY <1>0, <1>5, <2>2, <2>3, <2>4 DEF Furnished
<1>6. p \in RealNames(host) => p # BundlePlace /\ (GitUsable(host) => p \notin ProtectedFiles(host) \ host.files)
  <2>1. GitUsable(host) => p \notin ProtectedFiles(host) \cap (host.dirs \cup DOMAIN host.links)
    BY <1>0, ProtectedIsNoLink
  <2> QED BY <1>0, <2>1, BundleFacts DEF RealNames
<1>7. \A q \in host.dirs \cup host.files : q \notin DOMAIN host.links
  BY <1>0, HereIsNoLink
<1>8. host.dirs \cap host.files = {} /\ <<>> \notin host.files
  BY <1>0 DEF Furnished
<1>9. p \in host.dirs \cup host.files => /\ K = "file" => p \in host.files
                                         /\ K = "dir" => p \in host.dirs
  <2>1. ASSUME p \in host.dirs \cup host.files, K = "file" PROVE p \in host.files
    BY <1>3, <1>6, <1>7, <2>1 DEF OverLink, RealNames
  <2>2. ASSUME p \in host.dirs \cup host.files, K = "dir" PROVE p \in host.dirs
    <3>1. CASE p = <<>>
      BY <1>8, <2>2, <3>1
    <3>2. CASE p # <<>>
      BY <1>4, <1>5, <1>7, <2>2, <3>2 DEF OverLink
    <3> QED BY <3>1, <3>2
  <2> QED BY <2>1, <2>2
<1>10. p \in DOMAIN host.links =>
         /\ K = "file" => Landing(p, host.links) \in host.files
         /\ K = "dir" => Landing(p, host.links) \in host.dirs
         /\ K # "none" => \E b \in In(done) : OverLink(host, b) /\ b.at = p
  <2> SUFFICES ASSUME p \in DOMAIN host.links
               PROVE  /\ K = "file" => Landing(p, host.links) \in host.files
                      /\ K = "dir" => Landing(p, host.links) \in host.dirs
                      /\ K # "none" => \E b \in In(done) : OverLink(host, b) /\ b.at = p
    OBVIOUS
  <2>1. p # <<>> /\ p \notin host.dirs \cup host.files /\ p \in RealNames(host)
    BY <1>0, <1>7 DEF RealNames
  <2> QED BY <1>2, <1>3, <1>4, <1>5, <1>6, <2>1
<1>11. Clear(p)
  BY DEF p
<1>12. ASSUME Arg.op = "tmpfs", K # "file" PROVE CanMount
  BY <1>11, <1>12 DEF CanMount, p, K
<1>13. ASSUME Arg.op = "bind", Exists(host, Arg.src),
              K # "none" => (K = "file") = IsFile(host, Arg.src)
       PROVE  CanMount
  BY <1>11, <1>13 DEF CanMount, p, K
<1>14. CASE Mask(host, Arg)
  BY <1>8, <1>9, <1>12, <1>14 DEF Mask, p
<1>15. CASE Itself(host, Arg)
  <2>1. /\ Arg.op = "bind" /\ Arg.src = p /\ p \in host.dirs \cup host.files
    BY <1>15 DEF Itself, p
  <2>2. Landing(p, host.links) = p /\ FirstLink(p, host.links) = 0
    BY <1>0, <2>1, HereIsNoLink DEF Grounded
  <2>3. IsFile(host, p) = (p \in host.files) /\ Exists(host, p)
    BY <2>1, <2>2 DEF IsFile, IsDir, Exists, Whole
  <2>4. K # "none" => (K = "file") = (p \in host.files)
    BY <1>2, <1>8, <1>9, <2>1
  <2> QED BY <1>13, <2>1, <2>3, <2>4
<1>16. CASE OverLink(host, Arg)
  <2>1. /\ Arg.op = "bind" /\ p \in DOMAIN host.links /\ Exists(host, Arg.src)
        /\ Landing(Arg.src, host.links) = Landing(p, host.links)
    BY <1>16 DEF OverLink, p
  <2>2. IsFile(host, Arg.src) = (Landing(p, host.links) \in host.files)
    BY <2>1 DEF IsFile, IsDir, Exists
  <2>3. K # "none" => (K = "file") = (Landing(p, host.links) \in host.files)
    BY <1>2, <1>8, <1>10, <2>1
  <2> QED BY <1>13, <2>1, <2>2, <2>3
<1>17. ASSUME NEW s \in host.files, Arg.op = "bind", Arg.src = s, K # "dir"
       PROVE  CanMount
  <2>1. Landing(s, host.links) = s /\ FirstLink(s, host.links) = 0
    BY <1>0, HereIsNoLink DEF Grounded
  <2>2. IsFile(host, s) /\ Exists(host, s)
    BY <2>1 DEF IsFile, Exists, Whole
  <2> QED BY <1>2, <1>13, <1>17, <2>2
<1>18. CASE StandIn(host, Arg)
  <2>1. /\ Arg.op = "bind" /\ Arg.src = EmptyFile /\ GitUsable(host)
        /\ p \in ProtectedFiles(host) \ host.files
    BY <1>18 DEF StandIn, p
  <2>2. p # <<>> /\ p \notin host.dirs /\ p \notin DOMAIN host.links
    BY <1>0, <2>1, ProtectedIsNoLink
  <2>3. K # "dir"
    BY <1>4, <1>5, <2>1, <2>2 DEF OverLink
  <2> QED BY <1>0, <1>17, <2>1, <2>3 DEF Present
<1>19. CASE Late(host, Arg)
  <2>1. Arg.op = "bind" /\ Arg.src = Bundle /\ host.proxy /\ p = BundlePlace
    BY <1>19 DEF Late, RoBind, BundlePlace, p
  <2>2. p # <<>> /\ p \notin host.dirs /\ p \notin DOMAIN host.links
    BY <1>0, <2>1, BundleFacts DEF RealNames
  <2>3. K # "dir"
    BY <1>4, <1>5, <2>1, <2>2 DEF OverLink
  <2> QED BY <1>0, <1>17, <2>1, <2>3 DEF Furnished
<1>20. CASE Dir(host, Arg)
  <2>1. Arg.op = "dir" /\ p \in host.dirs
    BY <1>20 DEF Dir, p
  <2>2. K # "file"
    BY <1>8, <1>9, <2>1
  <2> QED BY <1>11, <2>1, <2>2 DEF CanCreate, p, K
<1>21. CASE Plant(host, Arg)
  <2>1. Arg.op = "symlink" /\ p \in DOMAIN host.links
    BY <1>21 DEF Plant, p
  <2>2. ASSUME NEW b \in In(done), OverLink(host, b), b.at = p PROVE FALSE
    <3>1. PICK j \in 1..14 : Belongs(host, j, Arg)
      BY DoneSorted
    <3>2. PICK i \in 1..14 : Belongs(host, i, b)
      BY DoneSorted
    <3>3. ~AlreadyBound(p, BoundPrefixes(host))
      BY <1>0, <1>21, <3>1, NotExposed DEF p
    <3>4. Under(p, b.at)
      BY <1>0, <2>2, UnderItself
    <3>5. p \in Overlooked(host)
      BY <1>0, <2>1, <2>2, <3>2, <3>3, <3>4, Exposing
    <3>6. OnExposedLink
      BY <2>1, <2>2, <3>4, <3>5 DEF OnExposedLink, p
    <3> QED BY <3>6
  <2>3. K = "none"
    BY <1>10, <2>1, <2>2
  <2> QED BY <1>11, <2>1, <2>3 DEF CanCreate, p, K
<1>22. \E j \in 1..14 : Belongs(host, j, Arg)
  BY DoneSorted
<1> QED BY <1>0, <1>14, <1>15, <1>16, <1>18, <1>19, <1>20, <1>21, <1>22, Sorted

(* Where bubblewrap gives up is one of the places without a way through.   *)
LEMMA NoWayThrough ==
  ASSUME NEW done, Midway(done), ~CanMount, ~CanCreate
  PROVE  OnExposedLink \/ TargetGone \/ PlaceReadOnly
<1>1. CASE Lost(host, Arg)
  BY <1>1 DEF Lost, Gone, TargetGone
<1>2. CASE ~Lost(host, Arg)
  <2>1. Settled(host, Arg)
    BY <1>2, ArgSorted
  <2>2. \A q \in Along(Arg.at) : KindOf(q) = "link" => OnExposedLink
    BY <1>2, <2>1, NoLinkOnWay
  <2>3. \A q \in Along(Arg.at) : KindOf(q) = "file" => q = Arg.at
    BY <2>1, FileMet
  <2>4. \A q \in Along(Arg.at) : KindOf(q) = "none" /\ ~Writable(q) => PlaceReadOnly
    BY <2>1, NoneOnWay
  <2>5. Clear(Arg.at) \/ OnExposedLink \/ PlaceReadOnly
    BY <2>2, <2>3, <2>4 DEF Clear, Missing
  <2> QED BY <1>2, <2>1, <2>5, PlaceFits
<1> QED BY <1>1, <1>2

-----------------------------------------------------------------------------
(* The exceptions depend on the host and the argument at hand, which a     *)
(* launch that died keeps.                                                 *)
MadeInvariant == HeldInvariant /\ MadeInv /\ BwrapAccepts

LEMMA MadeHolds == Spec => []MadeInvariant
<1>1. Init => MadeInv /\ BwrapAccepts
  BY DEF Init, MadeInv, BwrapAccepts
<1>2. HeldInvariant /\ MadeInv /\ BwrapAccepts /\ [Next]_vars => MadeInv' /\ BwrapAccepts'
  <2> SUFFICES ASSUME HeldInvariant, MadeInv, BwrapAccepts, [Next]_vars
               PROVE  MadeInv' /\ BwrapAccepts'
    OBVIOUS
  <2>1. CASE ReadHost
    BY <2>1 DEF ReadHost, MadeInv, BwrapAccepts
  <2>2. ASSUME NEW answers \in Answers, NEW filter \in BOOLEAN, Refuse(answers, filter)
        PROVE  MadeInv' /\ BwrapAccepts'
    BY <2>2 DEF Refuse, MadeInv, BwrapAccepts
  <2>3. ASSUME NEW answers \in Answers, NEW filter \in BOOLEAN, Compute(answers, filter)
        PROVE  MadeInv' /\ BwrapAccepts'
    <3>1. MadeInv'
      BY <2>3, MadeCompute DEF HeldInvariant
    <3> QED BY <2>3, <3>1 DEF Compute, BwrapAccepts
  <2>4. CASE Mount
    <3>1. MadeInv'
      BY <2>4, MadeMount
    <3> QED BY <2>4, <3>1 DEF Mount, BwrapAccepts
  <2>5. CASE Create
    <3>1. MadeInv'
      BY <2>5, MadeCreate
    <3> QED BY <2>5, <3>1 DEF Create, BwrapAccepts
  <2>6. CASE Die
    <3>1. /\ status = "mounting" /\ args # <<>> /\ ~CanMount /\ ~CanCreate
          /\ status' = "died" /\ args' = args /\ host' = host
      BY <2>6 DEF Die
    <3>2. PICK done \in Seq(Arguments) : Midway(done)
      BY <3>1 DEF MadeInv, Midway
    <3>3. OnExposedLink \/ TargetGone \/ PlaceReadOnly
      BY <3>1, <3>2, NoWayThrough
    <3>4. OnExposedLink' \/ TargetGone' \/ PlaceReadOnly'
      BY <3>1, <3>3 DEF OnExposedLink, TargetGone, PlaceReadOnly, Arg
    <3> QED BY <3>1, <3>4 DEF MadeInv, BwrapAccepts
  <2>7. CASE Start
    BY <2>7 DEF Start, MadeInv, BwrapAccepts
  <2>8. CASE UNCHANGED vars
    <3>1. OnExposedLink' = OnExposedLink /\ TargetGone' = TargetGone
            /\ PlaceReadOnly' = PlaceReadOnly
      BY <2>8 DEF vars, OnExposedLink, TargetGone, PlaceReadOnly, Arg
    <3> QED BY <2>8, <3>1 DEF vars, MadeInv, BwrapAccepts
  <2> QED BY <2>1, <2>2, <2>3, <2>4, <2>5, <2>6, <2>7, <2>8 DEF Next
<1> QED BY <1>1, <1>2, HeldHolds, PTL DEF Spec, MadeInvariant

(* bubblewrap gets through its arguments, whatever is declared inside      *)
(* whatever, on any host: where it gives up, the argument is for a link that *)
(* an overlooked bind exposes or that leads to the root, for a target that *)
(* is gone from the store, or for a place missing below a read-only bind   *)
(* (binds.py:4-8, 111-115, compute.py:236-237).                            *)
THEOREM BwrapAlwaysAccepts == Spec => []BwrapAccepts
<1>1. MadeInvariant => BwrapAccepts
  BY DEF MadeInvariant
<1> QED BY <1>1, MadeHolds, PTL

-----------------------------------------------------------------------------
(* The network: what leaves the sandbox was permitted, and what is granted *)
(* gets through.                                                           *)

(* The boot has done, at each stage, what the traffic relies on, and there *)
(* is no traffic before it has ended.                                      *)
Boot ==
  /\ stage \in {"filtered", "sealed", "running"} => loaded
  /\ stage \in {"configured", "filtered", "sealed", "running"} =>
       ~ipv6 /\ (build.allowed # {} => localnet)
  /\ stage # "running" => \A f \in Flows : ct[f] = "none"

(* Who opened a flow may do so, and whom it was opened to is known.        *)
Opened(f) ==
  /\ ct[f] \in {"out", "outEst"} => Permitted(f)
  /\ ct[f] \in {"in", "inEst"} =>
       f.proto = "tcp" /\ f.addr = "remote" /\ f.port \in build.published

NetInv == TypeOK /\ Boot /\ \A f \in Flows : Opened(f)

-----------------------------------------------------------------------------
(* The chains, rule by rule.                                               *)

LEMMA RuleFields ==
  ASSUME NEW match \in BOOLEAN, NEW verdict
  PROVE  Rule(match, verdict).match = match
BY DEF Rule

LEMMA RestrictedChain ==
  ASSUME NEW f, NEW oif, build.restricted
  PROVE  Accepts(FilterChain(f, oif), Policy) <=>
           \/ oif = "lo"
           \/ f.proto = "tcp" /\ f.port \in build.published /\ Established(f)
           \/ Daddr(f) = "gateway" /\ f.proto = "tcp" /\ f.peer = ProxyPort
           \/ Daddr(f) = "gateway" /\ HostPort(f)
<1> DEFINE c == FilterChain(f, oif)
<1>1. c = <<OifLo(oif), Replies(f), ToProxy(f), ToHostPort(f)>>
  BY DEF FilterChain
<1>2. DOMAIN c = {1, 2, 3, 4}
  BY <1>1
<1>3. /\ c[1].match <=> oif = "lo"
      /\ c[2].match <=>
           f.proto = "tcp" /\ f.port \in build.published /\ Established(f)
      /\ c[3].match <=>
           Daddr(f) = "gateway" /\ f.proto = "tcp" /\ f.peer = ProxyPort
      /\ c[4].match <=> Daddr(f) = "gateway" /\ HostPort(f)
  <2>1. /\ c[1] = OifLo(oif) /\ c[2] = Replies(f)
        /\ c[3] = ToProxy(f) /\ c[4] = ToHostPort(f)
    BY <1>1
  <2> QED BY <2>1, RuleFields DEF OifLo, Replies, ToProxy, ToHostPort
<1>4. \A i \in {1, 2, 3, 4} : c[i].verdict = "accept"
  BY <1>1 DEF Rule, OifLo, Replies, ToProxy, ToHostPort
<1>5. Policy = "drop"
  BY DEF Policy
<1> HIDE DEF c
<1>6. Accepts(c, Policy) <=>
        c[1].match \/ c[2].match \/ c[3].match \/ c[4].match
  <2>1. Accepts(c, Policy) <=>
          \E i \in {1, 2, 3, 4} :
            c[i].match /\ \A j \in {1, 2, 3, 4} : j < i => ~c[j].match
    BY <1>2, <1>4, <1>5 DEF Accepts
  <2> QED BY <2>1
<1> QED BY <1>3, <1>6 DEF c

LEMMA OpenChain ==
  ASSUME NEW f, NEW oif, ~build.restricted
  PROVE  Accepts(FilterChain(f, oif), Policy) <=>
           Daddr(f) # "gateway" \/ HostPort(f)
<1> DEFINE c == FilterChain(f, oif)
<1>1. c = <<ToHostPort(f), ToGateway(f)>>
  BY DEF FilterChain
<1>2. DOMAIN c = {1, 2}
  BY <1>1
<1>3. /\ c[1].match <=> Daddr(f) = "gateway" /\ HostPort(f)
      /\ c[2].match <=> Daddr(f) = "gateway"
  <2>1. c[1] = ToHostPort(f) /\ c[2] = ToGateway(f)
    BY <1>1
  <2> QED BY <2>1, RuleFields DEF ToHostPort, ToGateway
<1>4. c[1].verdict = "accept" /\ c[2].verdict = "drop"
  BY <1>1 DEF Rule, ToHostPort, ToGateway
<1>5. Policy = "accept"
  BY DEF Policy
<1> HIDE DEF c
<1>6. Accepts(c, Policy) <=> c[1].match \/ ~c[2].match
  <2>1. Accepts(c, Policy) <=>
          \/ c[1].match
          \/ ~c[1].match /\ ~c[2].match
    BY <1>2, <1>4, <1>5 DEF Accepts
  <2> QED BY <1>3, <2>1
<1> QED BY <1>3, <1>6 DEF c

(* A packet of an untracked flow that leaves opens a permitted flow.       *)
LEMMA OnlyPermittedLeaves ==
  ASSUME NetInv, NEW f \in Flows, stage = "running", Leaves(f),
         ct[f] \notin {"in", "inEst", "outEst"}
  PROVE  Permitted(f)
<1>1. PICK oif \in Oif(f) : Passes(f, oif)
  BY DEF Leaves
<1>2. ~ipv6 /\ loaded
  BY DEF NetInv, Boot
<1>3. f.addr # "v6" /\ Accepts(FilterChain(f, oif), Policy)
  BY <1>1, <1>2 DEF Passes
<1>4. Daddr(f) \in {"gateway", "remote"}
  BY <1>3 DEF Leaves, Daddr, Flows, Addresses
<1>5. CASE build.restricted
  <2>1. ~Established(f)
    BY DEF Established
  <2>2. CASE oif = "lo"
    <3>1. Dnat(f)
      BY <1>1, <1>4, <2>2 DEF Oif, Daddr
    <3> QED BY <3>1 DEF Permitted, Daddr, Dnat
  <2> QED BY <1>3, <1>5, <2>1, <2>2, RestrictedChain DEF Permitted
<1>6. CASE ~build.restricted
  BY <1>3, <1>4, <1>6, OpenChain DEF Permitted
<1> QED BY <1>5, <1>6

-----------------------------------------------------------------------------
LEMMA NetInit == NetworkInit => NetInv
<1> SUFFICES ASSUME NetworkInit PROVE NetInv
  OBVIOUS
<1>1. TypeOK
  BY DEF NetworkInit, TypeOK, Stages, Tracked
<1>2. Boot
  BY DEF NetworkInit, Boot
<1>3. \A f \in Flows : Opened(f)
  BY DEF NetworkInit, Opened
<1> QED BY <1>1, <1>2, <1>3 DEF NetInv

(* A step of the boot leaves the flows alone.                              *)
LEMMA BootStep ==
  ASSUME NetInv, BootNext
  PROVE  NetInv'
<1> USE DEF NetInv
<1>1. /\ ct' = ct /\ build' = build
      /\ \A f \in Flows : ct[f] = "none"
  BY DEF BootNext, Fail, WriteSysctls, LoadRules, OpenFilter, Exec, Step, Boot
<1>2. \A f \in Flows : Opened(f)'
  BY <1>1 DEF Opened
<1>3. CASE Fail
  BY <1>1, <1>2, <1>3 DEF Fail, TypeOK, Boot, Stages
<1>4. CASE WriteSysctls
  BY <1>1, <1>2, <1>4 DEF WriteSysctls, NeedsLocalnet, Step, TypeOK, Boot, Stages
<1>5. CASE LoadRules
  BY <1>1, <1>2, <1>5 DEF LoadRules, Step, TypeOK, Boot, Stages
<1>6. CASE OpenFilter
  BY <1>1, <1>2, <1>6 DEF OpenFilter, Step, TypeOK, Boot, Stages
<1>7. CASE Exec
  BY <1>1, <1>2, <1>7 DEF Exec, Step, TypeOK, Boot, Stages
<1> QED BY <1>3, <1>4, <1>5, <1>6, <1>7 DEF BootNext

(* One flow changes, to a value its new state allows.                      *)
LEMMA TrackStep ==
  ASSUME NetInv, NEW f \in Flows, NEW to \in Tracked,
         to # "none" => stage = "running",
         to \in {"out", "outEst"} => Permitted(f),
         to \in {"in", "inEst"} =>
           f.proto = "tcp" /\ f.addr = "remote" /\ f.port \in build.published,
         ct' = [ct EXCEPT ![f] = to],
         UNCHANGED <<build, stage, localnet, ipv6, loaded, fd3>>
  PROVE  NetInv'
<1> USE DEF NetInv
<1>1. TypeOK'
  BY DEF TypeOK
<1>2. \A g \in Flows : ct'[g] = IF g = f THEN to ELSE ct[g]
  BY DEF TypeOK
<1>3. Boot'
  BY <1>2 DEF Boot
<1>4. ASSUME NEW g \in Flows PROVE Opened(g)'
  <2>1. Permitted(g)' <=> Permitted(g)
    BY DEF Permitted, Daddr, Dnat, HostPort
  <2> QED BY <1>2, <2>1 DEF Opened
<1> QED BY <1>1, <1>3, <1>4

LEMMA FlowStep ==
  ASSUME NetInv, NEW f \in Flows, Send(f) \/ Answer(f) \/ CallIn(f) \/ Forget(f)
  PROVE  NetInv'
<1>1. ct[f] \in Tracked /\ Opened(f) /\ (ct[f] # "none" => stage = "running")
  BY DEF NetInv, TypeOK, Boot
<1>2. CASE Send(f)
  <2>1. CASE ct[f] \in {"none", "out"}
    <3>1. Permitted(f)
      BY <1>2, <2>1, OnlyPermittedLeaves DEF Send
    <3>2. ct' = [ct EXCEPT ![f] = "out"]
      BY <1>2, <2>1 DEF Send
    <3> QED BY <1>2, <3>1, <3>2, TrackStep DEF Send, Tracked
  <2>2. CASE ct[f] \in {"in", "inEst"}
    <3>1. ct' = [ct EXCEPT ![f] = "inEst"]
      BY <1>2, <2>2 DEF Send
    <3> QED BY <1>1, <1>2, <2>2, <3>1, TrackStep DEF Send, Tracked, Opened
  <2>3. CASE ct[f] = "outEst"
    <3>1. ct' = [ct EXCEPT ![f] = "outEst"]
      BY <1>2, <2>3 DEF Send
    <3> QED BY <1>1, <1>2, <2>3, <3>1, TrackStep DEF Send, Tracked, Opened
  <2> QED BY <1>1, <2>1, <2>2, <2>3 DEF Tracked
<1>3. CASE Answer(f)
  BY <1>1, <1>3, TrackStep DEF Answer, Tracked, Opened
<1>4. CASE CallIn(f)
  BY <1>4, TrackStep DEF CallIn, Tracked
<1>5. CASE Forget(f)
  BY <1>5, TrackStep DEF Forget, Tracked
<1> QED BY <1>2, <1>3, <1>4, <1>5

LEMMA NetStep == NetInv /\ [NetworkNext]_networkVars => NetInv'
<1> SUFFICES ASSUME NetInv, [NetworkNext]_networkVars PROVE NetInv'
  OBVIOUS
<1>1. CASE UNCHANGED networkVars
  BY <1>1 DEF networkVars, NetInv, TypeOK, Boot, Opened, Permitted, Daddr, Dnat, HostPort
<1> QED BY <1>1, BootStep, FlowStep DEF NetworkNext

(* The inductive invariant of the network.                                 *)
THEOREM NetInvariant == NetworkSpec => []NetInv
BY NetInit, NetStep, PTL DEF NetworkSpec

(* For any ports, settings and history of calls: what leaves the sandbox   *)
(* was permitted, or answers a peer of a published port.                   *)
THEOREM EgressAlwaysWithinPolicy == NetworkSpec => []EgressWithinPolicy
<1>1. NetInv => EgressWithinPolicy
  BY DEF NetInv, Opened, EgressWithinPolicy
<1> QED BY <1>1, NetInvariant, PTL

(* For any ports and settings: what is granted gets through, and back.     *)
THEOREM GrantedAlwaysPasses == NetworkSpec => []GrantedPasses
<1>1. NetInv => GrantedPasses
  <2> SUFFICES ASSUME NetInv, stage = "running", NEW f \in Flows, Granted(f),
                      NEW oif \in Oif(f)
               PROVE  Saddr(f) = "self" /\ Passes(f, oif)
    BY DEF GrantedPasses, Oif
  <2>1. ~ipv6 /\ loaded /\ (build.allowed # {} => localnet)
    BY DEF NetInv, Boot
  <2>2. /\ f.addr # "v6" /\ (f.addr = "lo" => Dnat(f))
        /\ \/ Daddr(f) = "gateway" /\ HostPort(f)
           \/ /\ build.restricted /\ Daddr(f) = "gateway"
              /\ f.proto = "tcp" /\ f.peer = ProxyPort
           \/ /\ f.addr = "remote" /\ ct[f] \in {"in", "inEst"}
              /\ f.proto = "tcp" /\ f.port \in build.published
    BY DEF Granted, NetInv, Opened, Daddr, Dnat
  <2>3. Saddr(f) = "self"
    BY <2>2 DEF Saddr, Masquerade
  <2>4. Dnat(f) => localnet
    BY <2>1 DEF Dnat, HostPort
  <2>5. Accepts(FilterChain(f, oif), Policy)
    <3>1. CASE build.restricted
      BY <2>2, <3>1, RestrictedChain DEF Established
    <3>2. CASE ~build.restricted
      <4>1. Daddr(f) # "gateway" \/ HostPort(f)
        BY <2>2, <3>2 DEF Daddr, Dnat
      <4> QED BY <3>2, <4>1, OpenChain
    <3> QED BY <3>1, <3>2
  <2> QED BY <2>1, <2>2, <2>3, <2>4, <2>5 DEF Passes
<1> QED BY <1>1, NetInvariant, PTL

=============================================================================
