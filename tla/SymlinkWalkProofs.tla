-------------------------- MODULE SymlinkWalkProofs --------------------------
(***************************************************************************)
(* What a walk records, for paths of any length, any links and any budget  *)
(* of follows: real names, the kernel's, and enough to walk again.         *)
(***************************************************************************)
EXTENDS SymlinkWalk, HostPathsProofs

-----------------------------------------------------------------------------
(* The names of a walk.                                                    *)

(* A path with the names of `rest` still to walk: what was walked is a     *)
(* prefix of it, ...                                                       *)
LEMMA WalkedPrefix ==
  ASSUME NEW done \in Paths, NEW rest \in Paths
  PROVE  /\ done \o rest \in Paths /\ Len(done \o rest) = Len(done) + Len(rest)
         /\ \A k \in 1..Len(done) : SubSeq(done \o rest, 1, k) = SubSeq(done, 1, k)
<1>1. /\ done \o rest \in Paths /\ Len(done \o rest) = Len(done) + Len(rest)
  BY ConcatProperties DEF Paths
<1>2. \A k \in 1..Len(done) : SubSeq(done \o rest, 1, k) = SubSeq(done, 1, k)
  BY SubSeqOfConcat1 DEF Paths
<1> QED BY <1>1, <1>2

(* ... and so is the next name.                                            *)
LEMMA NextPrefix ==
  ASSUME NEW done \in Paths, NEW rest \in Paths, rest # <<>>,
         NEW cur, cur = Append(done, Head(rest))
  PROVE  /\ cur \in Paths /\ Len(cur) = Len(done) + 1
         /\ Tail(rest) \in Paths /\ Len(Tail(rest)) = Len(rest) - 1
         /\ done \o rest = cur \o Tail(rest)
         /\ SubSeq(done \o rest, 1, Len(done) + 1) = cur
         /\ SubSeq(done \o rest, Len(done) + 2, Len(done \o rest)) = Tail(rest)
<1>1. /\ Head(rest) \in FileNames /\ Tail(rest) \in Paths
      /\ Len(Tail(rest)) = Len(rest) - 1 /\ Len(rest) \in Nat \ {0} /\ Len(done) \in Nat
  BY HeadTailProperties DEF Paths
<1>2. cur \in Paths /\ Len(cur) = Len(done) + 1
  BY <1>1, AppendProperties DEF Paths
<1>3. done \o rest = cur \o Tail(rest)
  <2>1. /\ cur \o Tail(rest) \in Paths /\ done \o rest \in Paths
        /\ Len(cur \o Tail(rest)) = Len(done \o rest)
    BY <1>1, <1>2, ConcatProperties DEF Paths
  <2>2. \A k \in 1..Len(done \o rest) : (done \o rest)[k] = (cur \o Tail(rest))[k]
    BY <1>1, <1>2 DEF Paths
  <2> QED BY <2>1, <2>2, SeqEqual DEF Paths
<1>4. SubSeq(cur \o Tail(rest), 1, Len(cur)) = cur
  <2>1. SubSeq(cur \o Tail(rest), 1, Len(cur)) = SubSeq(cur, 1, Len(cur))
    BY <1>1, <1>2, SubSeqOfConcat1 DEF Paths
  <2> QED BY <1>2, <2>1, SubSeqFull DEF Paths
<1>5. SubSeq(cur \o Tail(rest), Len(cur) + 1, Len(cur) + Len(Tail(rest))) = Tail(rest)
  <2>1. CASE Tail(rest) = <<>>
    BY <1>2, <2>1, SubSeqEmpty, ConcatEmptySeq DEF Paths
  <2>2. CASE Tail(rest) # <<>>
    <3>1. SubSeq(cur \o Tail(rest), Len(cur) + 1, Len(cur) + Len(Tail(rest)))
            = SubSeq(Tail(rest), 1, Len(Tail(rest)))
      BY <1>1, <1>2, <2>2, SubSeqOfConcat2 DEF Paths
    <3> QED BY <1>1, <3>1, SubSeqFull DEF Paths
  <2> QED BY <2>1, <2>2
<1>6. Len(cur) + Len(Tail(rest)) = Len(done \o rest) /\ Len(cur) + 1 = Len(done) + 2
  BY <1>1, <1>2, WalkedPrefix
<1> QED BY <1>1, <1>2, <1>3, <1>4, <1>5, <1>6

-----------------------------------------------------------------------------
(* No name on the way to p is a link; nor is p itself.                     *)
Real(p) == \A dir \in Ancestors(p) : dir \notin DOMAIN links
Met == [path : Paths, to : Paths]
Walked(p) == \A k \in 1..Len(p) : SubSeq(p, 1, k) \notin DOMAIN links

(* What was walked has no link in it, whatever it was reached through.     *)
WalkInv ==
  /\ path \in Paths
  /\ \A q \in DOMAIN links : links[q] \in Paths
  /\ resolved \in Paths /\ remaining \in Paths /\ hops \in Seq(Paths)
  /\ parents \in Seq(Met)
  /\ Walked(resolved)
  /\ physical # NoPath => Real(physical)
  /\ \A k \in 1..Len(hops) : Real(hops[k])

-----------------------------------------------------------------------------
(* The next name has been reached by way of directories.                   *)
LEMMA CurrentReal ==
  ASSUME WalkInv, remaining # <<>>
  PROVE  /\ Current \in Paths /\ Len(Current) = Len(resolved) + 1
         /\ Tail(remaining) \in Paths /\ Real(Current)
         /\ Current \notin DOMAIN links => Walked(Current)
<1>1. /\ Current \in Paths /\ Len(Current) = Len(resolved) + 1 /\ Len(resolved) \in Nat
      /\ Tail(remaining) \in Paths
  BY NextPrefix DEF WalkInv, Current, Paths
<1>2. \A k \in 1..Len(resolved) : SubSeq(Current, 1, k) \notin DOMAIN links
  <2> TAKE k \in 1..Len(resolved)
  <2>1. SubSeq(resolved \o remaining, 1, k) = SubSeq(resolved, 1, k)
    BY WalkedPrefix DEF WalkInv
  <2>2. SubSeq(Current \o Tail(remaining), 1, k) = SubSeq(Current, 1, k)
    BY <1>1, WalkedPrefix
  <2>3. resolved \o remaining = Current \o Tail(remaining)
    BY NextPrefix DEF WalkInv, Current
  <2> QED BY <2>1, <2>2, <2>3 DEF WalkInv, Walked
<1>3. Real(Current)
  <2>1. \A k \in 1..(Len(Current) - 1) : k \in 1..Len(resolved)
    BY <1>1
  <2> QED BY <1>2, <2>1 DEF Real, Ancestors
<1>4. SubSeq(Current, 1, Len(Current)) = Current
  BY <1>1, SubSeqFull DEF Paths
<1>5. Current \notin DOMAIN links => Walked(Current)
  <2>1. \A k \in 1..Len(Current) : k \in 1..Len(resolved) \/ k = Len(Current)
    BY <1>1
  <2> QED BY <1>2, <1>4, <2>1 DEF Walked
<1> QED BY <1>1, <1>3, <1>5

(* Whichever way a name is left, what is recorded of it is real.           *)
LEMMA RecordKeeps ==
  ASSUME WalkInv, remaining # <<>>, UNCHANGED <<links, path>>,
         resolved' \in Paths, Walked(resolved)', remaining' \in Paths,
         physical' \in {Current, physical},
         hops' \in {hops, Append(hops, Current)},
         parents' \in Seq(Met)
  PROVE  WalkInv'
<1>1. Current \in Paths /\ Real(Current)
  BY CurrentReal
<1>2. \A p : Real(p) = Real(p)'
  BY DEF Real
<1>3. physical' # NoPath => Real(physical)'
  BY <1>1, <1>2 DEF WalkInv, Real
<1>4. hops' \in Seq(Paths) /\ \A k \in 1..Len(hops') : Real(hops'[k])
  <2>1. CASE hops' = hops
    BY <2>1 DEF WalkInv
  <2>2. CASE hops' = Append(hops, Current)
    <3>1. /\ hops' \in Seq(Paths) /\ Len(hops') = Len(hops) + 1 /\ Len(hops) \in Nat
          /\ hops'[Len(hops) + 1] = Current
          /\ \A k \in 1..Len(hops) : hops'[k] = hops[k]
      BY <1>1, <2>2, AppendProperties DEF WalkInv
    <3>2. \A k \in 1..Len(hops') : k \in 1..Len(hops) \/ k = Len(hops) + 1
      BY <3>1
    <3> QED BY <1>1, <3>1, <3>2 DEF WalkInv
  <2> QED BY <2>1, <2>2
<1>5. \A k \in 1..Len(hops') : Real(hops[k])'
  BY <1>4 DEF Real
<1> QED BY <1>3, <1>4, <1>5 DEF WalkInv

LEMMA InitWalkInv ==
  ASSUME PathsAssumption, Init
  PROVE  WalkInv
BY DEF PathsAssumption, Init, WalkInv, Walked, Paths

LEMMA StepKeepsWalkInv ==
  ASSUME WalkInv, [Next]_vars
  PROVE  WalkInv'
<1>1. remaining # <<>> => Current \in Paths /\ Tail(remaining) \in Paths
  BY CurrentReal DEF WalkInv, Paths
<1>2. CASE Step
  <2>1. /\ remaining # <<>> /\ UNCHANGED <<links, path>> /\ resolved' = Current
        /\ remaining' = Tail(remaining) /\ Current \notin DOMAIN links
        /\ physical' \in {Current, physical} /\ hops' \in {hops, Append(hops, Current)}
    BY <1>2 DEF Step, Reach, AtLinkNow
  <2>2. Walked(resolved)'
    BY <2>1, CurrentReal DEF Walked
  <2>3. parents' \in Seq(Met)
    BY <1>2 DEF Step, WalkInv
  <2> QED BY <1>1, <2>1, <2>2, <2>3, RecordKeeps
<1>3. CASE Follow
  <2>1. /\ remaining # <<>> /\ UNCHANGED <<links, path>> /\ resolved' = <<>>
        /\ remaining' = links[Current] \o Tail(remaining) /\ Current \in DOMAIN links
        /\ physical' \in {Current, physical} /\ hops' \in {hops, Append(hops, Current)}
    BY <1>3 DEF Follow, Reach, AtLinkNow
  <2>2. resolved' \in Paths /\ Walked(resolved)'
    BY <2>1 DEF Walked, Paths
  <2>3. remaining' \in Paths
    BY <1>1, <2>1 DEF WalkInv, Paths
  <2>4. parents' \in Seq(Met)
    <3>1. [path |-> Current, to |-> links[Current]] \in Met
      BY <2>1, CurrentReal DEF WalkInv, Met
    <3>2. Append(parents, [path |-> Current, to |-> links[Current]]) \in Seq(Met)
      BY <3>1, AppendProperties DEF WalkInv
    <3> QED BY <1>3, <3>2 DEF Follow, WalkInv
  <2> QED BY <2>1, <2>2, <2>3, <2>4, RecordKeeps
<1>4. CASE Stop("unreadable") \/ Stop("too many links")
  <2>1. /\ remaining # <<>> /\ UNCHANGED <<links, path, resolved, remaining>>
        /\ physical' \in {Current, physical} /\ hops' \in {hops, Append(hops, Current)}
    BY <1>4 DEF Stop
  <2>2. resolved' \in Paths /\ Walked(resolved)' /\ remaining' \in Paths
    BY <2>1 DEF WalkInv, Walked
  <2>3. parents' \in Seq(Met)
    BY <1>4 DEF Stop, WalkInv
  <2> QED BY <2>1, <2>2, <2>3, RecordKeeps
<1>5. CASE Finish
  <2>1. /\ UNCHANGED <<links, path, resolved, remaining, hops, parents>>
        /\ physical' \in {resolved, physical}
    BY <1>5 DEF Finish
  <2>2. Real(resolved)
    <3>1. \A k \in 1..(Len(resolved) - 1) : k \in 1..Len(resolved)
      BY DEF WalkInv, Paths
    <3> QED BY <3>1 DEF WalkInv, Walked, Real, Ancestors
  <2> QED BY <2>1, <2>2 DEF WalkInv, Walked, Real
<1>6. CASE UNCHANGED vars
  BY <1>6 DEF vars, WalkInv, Walked, Real
<1> QED BY <1>2, <1>3, <1>4, <1>5, <1>6 DEF Next

(* No directory on the way to a physical name or a landing is a link, in a *)
(* walk that is whole and in one that stopped (symlinks.py:83-86).         *)
THEOREM AlwaysRealNames == Spec => []RecordsRealNames
<1>1. Init => WalkInv
  BY InitWalkInv, PathsAssumption
<1>2. WalkInv /\ [Next]_vars => WalkInv'
  BY StepKeepsWalkInv
<1>3. WalkInv => RecordsRealNames
  BY DEF WalkInv, Real, RecordsRealNames, FinalNames, Range1
<1> QED BY <1>1, <1>2, <1>3, PTL DEF Spec

-----------------------------------------------------------------------------
(* The walk, follow by follow, against the kernel's: where it is, and what *)
(* it has recorded of the names the kernel's walk has come to so far.      *)
TrailNow == Trail(path, links)
ParentsNow == Gathered(ParentSteps(path, links))
HopsNow == Gathered(HopSteps(path, links))

AgreeInv ==
  result = "walking" =>
    /\ follows \in 0..MaxFollows
    /\ TrailNow[follows] = resolved \o remaining
    /\ \A n \in 0..(follows - 1) : FirstLink(TrailNow[n], links) # 0
    /\ parents = ParentsNow[follows]
    /\ awaiting <=> \E n \in 0..(follows - 1) : AtFinal(TrailNow[n], links)
    /\ physical = NoPath =>
         /\ \A n \in 0..(follows - 1) : ~AtFinal(TrailNow[n], links)
         /\ remaining = <<>> => resolved = <<>>
    /\ physical # NoPath =>
         \E n \in 0..follows :
           /\ AtFinal(TrailNow[n], links) /\ physical = TrailNow[n]
           /\ \A m \in 0..(n - 1) : ~AtFinal(TrailNow[m], links)
           /\ n = follows => remaining = <<>>
    /\ hops = IF remaining = <<>> THEN HopsNow[follows]
              ELSE IF follows = 0 THEN <<>> ELSE HopsNow[follows - 1]

(* A path walked up to a link: the kernel finds that link, ...             *)
LEMMA LinkAt ==
  ASSUME NEW done \in Paths, NEW rest \in Paths, rest # <<>>, NEW map,
         \A k \in 1..Len(done) : SubSeq(done, 1, k) \notin DOMAIN map,
         NEW cur, cur = Append(done, Head(rest)), cur \in DOMAIN map
  PROVE  /\ FirstLink(done \o rest, map) # 0
         /\ AtLink(done \o rest, map) = cur
         /\ Followed(done \o rest, map) = map[cur] \o Tail(rest)
         /\ AtFinal(done \o rest, map) <=> Len(rest) = 1
<1>1. PICK q \in Paths, a \in Nat, b \in Nat \ {0} :
        q = done \o rest /\ a = Len(done) /\ b = Len(rest)
  <2>1. done \o rest \in Paths
    BY WalkedPrefix
  <2>2. Len(done) \in Nat /\ Len(rest) \in Nat \ {0}
    BY EmptySeq, LenProperties DEF Paths
  <2> QED BY <2>1, <2>2
<1>2. Len(q) = a + b /\ \A k \in 1..a : SubSeq(q, 1, k) \notin DOMAIN map
  BY <1>1, WalkedPrefix
<1>3. SubSeq(q, 1, a + 1) = cur /\ SubSeq(q, a + 2, Len(q)) = Tail(rest)
  BY <1>1, NextPrefix
<1>4. FirstLink(q, map) = a + 1
  <2>1. a + 1 \in 1..Len(q) /\ \A k \in 1..((a + 1) - 1) : k \in 1..a
    BY <1>2
  <2>2. SubSeq(q, 1, a + 1) \in DOMAIN map
    BY <1>3
  <2>3. \A k \in 1..((a + 1) - 1) : SubSeq(q, 1, k) \notin DOMAIN map
    BY <1>2, <2>1
  <2> QED BY <2>1, <2>2, <2>3, FirstLinkUnique
<1>5. AtLink(q, map) = cur
  BY <1>3, <1>4 DEF AtLink
<1>6. Followed(q, map) = map[cur] \o Tail(rest)
  <2>1. FirstLink(q, map) + 1 = a + 2
    BY <1>4
  <2> QED BY <1>3, <1>5, <2>1 DEF Followed
<1>7. AtFinal(q, map) <=> b = 1
  <2>1. AtFinal(q, map) <=> a + 1 \in {0, a + b}
    BY <1>2, <1>4 DEF AtFinal
  <2> QED BY <2>1
<1> QED BY <1>1, <1>4, <1>5, <1>6, <1>7

(* ... and one on which there is none is at its final name.                *)
LEMMA NoLinkAt ==
  ASSUME NEW q \in Paths, NEW map,
         \A k \in 1..Len(q) : SubSeq(q, 1, k) \notin DOMAIN map
  PROVE  FirstLink(q, map) = 0 /\ AtFinal(q, map)
<1>1. FirstLink(q, map) = 0
  BY FirstLinkIsFirst
<1> QED BY <1>1 DEF AtFinal

(* Where the walk is, the kernel finds the same link, or none.             *)
LEMMA LinkHere ==
  ASSUME WalkInv, remaining # <<>>, NEW q, q = resolved \o remaining
  PROVE  /\ q \in Paths /\ q # <<>> /\ q = Current \o Tail(remaining)
         /\ Current \in Paths /\ Tail(remaining) \in Paths
         /\ AtLinkNow =>
              /\ FirstLink(q, links) # 0
              /\ AtLink(q, links) = Current
              /\ Followed(q, links) = links[Current] \o Tail(remaining)
              /\ AtFinal(q, links) <=> AtFinalComponent
         /\ AtFinalComponent =>
              Tail(remaining) = <<>> /\ q = Current /\ AtFinal(q, links)
         /\ ~AtFinalComponent => Tail(remaining) # <<>>
<1>1. /\ resolved \in Paths /\ remaining \in Paths
      /\ \A k \in 1..Len(resolved) : SubSeq(resolved, 1, k) \notin DOMAIN links
  BY DEF WalkInv, Walked
<1>2. /\ q \in Paths /\ q = Current \o Tail(remaining)
      /\ Current \in Paths /\ Tail(remaining) \in Paths
      /\ Len(Tail(remaining)) = Len(remaining) - 1 /\ Len(remaining) \in Nat
  BY <1>1, WalkedPrefix, NextPrefix DEF Current, Paths
<1>3. q # <<>>
  BY <1>1, ConcatEqualIffEmpty, WalkedPrefix DEF Paths
<1>4. ASSUME AtLinkNow
      PROVE  /\ FirstLink(q, links) # 0
             /\ AtLink(q, links) = Current
             /\ Followed(q, links) = links[Current] \o Tail(remaining)
             /\ AtFinal(q, links) <=> AtFinalComponent
  BY <1>1, <1>4, LinkAt DEF AtLinkNow, Current, AtFinalComponent
<1>5. Tail(remaining) = <<>> <=> AtFinalComponent
  <2>1. Tail(remaining) = <<>> => Len(Tail(remaining)) = 0
    BY EmptySeq
  <2>2. Tail(remaining) # <<>> => Len(Tail(remaining)) \in Nat \ {0}
    BY <1>2, EmptySeq DEF Paths
  <2> QED BY <1>2, <2>1, <2>2 DEF AtFinalComponent
<1>6. ASSUME AtFinalComponent
      PROVE  q = Current /\ AtFinal(q, links)
  <2>1. q = Current
    BY <1>2, <1>5, <1>6, ConcatEmptySeq DEF Paths
  <2>2. CASE AtLinkNow
    BY <1>4, <1>6, <2>1, <2>2
  <2>3. CASE ~AtLinkNow
    BY <1>2, <2>1, <2>3, CurrentReal, NoLinkAt DEF AtLinkNow, Walked
  <2> QED BY <2>1, <2>2, <2>3
<1> QED BY <1>2, <1>3, <1>4, <1>5, <1>6

(* A path walked to its end has no link on it.                             *)
LEMMA WalkedToEnd ==
  ASSUME WalkInv, remaining = <<>>
  PROVE  /\ resolved \o remaining = resolved
         /\ FirstLink(resolved, links) = 0 /\ AtFinal(resolved, links)
<1>1. resolved \o remaining = resolved
  BY ConcatEmptySeq DEF WalkInv, Paths
<1> QED BY <1>1, NoLinkAt DEF WalkInv, Walked

-----------------------------------------------------------------------------
(* The records a follow further.                                           *)
LEMMA ParentsFurther ==
  ASSUME NEW n \in 1..MaxFollows, NEW q, q = TrailNow[n - 1]
  PROVE  ParentsNow[n] = ParentsNow[n - 1] \o
           IF AtFinal(q, links) THEN <<>>
           ELSE <<[path |-> AtLink(q, links), to |-> links[AtLink(q, links)]]>>
<1>1. ParentsNow[n] = ParentsNow[n - 1] \o ParentSteps(path, links)[n]
  BY GatheredRecursion DEF ParentsNow
<1>2. ParentSteps(path, links)[n] =
        IF AtFinal(q, links) THEN <<>>
        ELSE <<[path |-> AtLink(q, links), to |-> links[AtLink(q, links)]]>>
  BY DEF ParentSteps, TrailNow
<1> QED BY <1>1, <1>2

LEMMA HopsFurther ==
  ASSUME NEW n \in 1..MaxFollows
  PROVE  HopsNow[n] = HopsNow[n - 1] \o
           IF IsHop(path, links, n) THEN <<TrailNow[n]>> ELSE <<>>
<1>1. HopsNow[n] = HopsNow[n - 1] \o HopSteps(path, links)[n]
  BY GatheredRecursion DEF HopsNow
<1> QED BY <1>1 DEF HopSteps, TrailNow

(* The landing recorded at a final name is the kernel's next, or there is  *)
(* none to record.                                                         *)
LEMMA HopsHere ==
  ASSUME WalkInv, AgreeInv, result = "walking", remaining # <<>>,
         AtLinkNow \/ AtFinalComponent
  PROVE  HopsNow[follows] =
           IF AtFinalComponent /\ awaiting THEN Append(hops, Current) ELSE hops
<1>1. /\ follows \in 0..MaxFollows
      /\ TrailNow[follows] = resolved \o remaining
      /\ \A n \in 0..(follows - 1) : FirstLink(TrailNow[n], links) # 0
      /\ awaiting <=> \E n \in 0..(follows - 1) : AtFinal(TrailNow[n], links)
      /\ hops = IF follows = 0 THEN <<>> ELSE HopsNow[follows - 1]
      /\ hops \in Seq(Paths)
  BY DEF AgreeInv, WalkInv
<1>2. CASE follows = 0
  <2>1. 0..(follows - 1) = {}
    BY <1>2
  <2>2. ~awaiting
    BY <1>1, <2>1
  <2>3. HopsNow[0] = <<>>
    BY GatheredRecursion DEF HopsNow
  <2> QED BY <1>1, <1>2, <2>2, <2>3
<1>3. CASE follows # 0
  <2>1. follows \in 1..MaxFollows /\ follows - 1 \in 0..(follows - 1)
    BY <1>1, <1>3, FollowsAssumption
  <2>2. HopsNow[follows] =
          hops \o IF IsHop(path, links, follows) THEN <<TrailNow[follows]>> ELSE <<>>
    BY <1>1, <1>3, <2>1, HopsFurther
  <2>3. IsHop(path, links, follows) <=> AtFinalComponent /\ awaiting
    <3>1. TrailNow[follows] # <<>>
      BY <1>1, LinkHere
    <3>2. AtFinal(TrailNow[follows], links) <=> AtFinalComponent
      BY <1>1, LinkHere
    <3>3. FirstLink(TrailNow[follows - 1], links) # 0
      BY <1>1, <2>1
    <3> QED BY <1>1, <3>1, <3>2, <3>3 DEF IsHop, TrailNow
  <2>4. AtFinalComponent => TrailNow[follows] = Current /\ Current \in Paths
    BY <1>1, LinkHere
  <2>5. CASE AtFinalComponent /\ awaiting
    BY <1>1, <2>2, <2>3, <2>4, <2>5, AppendIsConcat
  <2>6. CASE ~(AtFinalComponent /\ awaiting)
    BY <1>1, <2>2, <2>3, <2>6, ConcatEmptySeq
  <2> QED BY <2>5, <2>6
<1> QED BY <1>2, <1>3

(* Whatever the step, what it compares with the kernel stays the same.     *)
LEMMA SameKernel ==
  ASSUME UNCHANGED <<links, path>>
  PROVE  TrailNow' = TrailNow /\ ParentsNow' = ParentsNow /\ HopsNow' = HopsNow
BY DEF TrailNow, ParentsNow, HopsNow

(* A step keeps the walk with the kernel's, ...                            *)
LEMMA StepAgrees ==
  ASSUME WalkInv, WalkInv', AgreeInv, Step
  PROVE  AgreeInv'
<1>1. /\ result = "walking" /\ remaining # <<>> /\ ~AtLinkNow
      /\ resolved' = Current /\ remaining' = Tail(remaining)
      /\ UNCHANGED <<links, path, follows, parents, awaiting, result>>
      /\ physical' = IF AtFinalComponent /\ physical = NoPath THEN Current ELSE physical
      /\ hops' = IF AtFinalComponent /\ awaiting THEN Append(hops, Current) ELSE hops
  BY DEF Step, Reach
<1>2. TrailNow' = TrailNow /\ ParentsNow' = ParentsNow /\ HopsNow' = HopsNow
  BY <1>1, SameKernel
<1>3. /\ follows \in 0..MaxFollows
      /\ TrailNow[follows] = resolved \o remaining
      /\ \A n \in 0..(follows - 1) : FirstLink(TrailNow[n], links) # 0
      /\ parents = ParentsNow[follows]
      /\ awaiting <=> \E n \in 0..(follows - 1) : AtFinal(TrailNow[n], links)
      /\ hops = IF follows = 0 THEN <<>> ELSE HopsNow[follows - 1]
  BY <1>1 DEF AgreeInv
<1>4. /\ TrailNow[follows] = Current \o Tail(remaining)
      /\ Current \in Paths /\ Current # NoPath
      /\ AtFinalComponent <=> Tail(remaining) = <<>>
      /\ AtFinalComponent => /\ TrailNow[follows] = Current
                             /\ AtFinal(TrailNow[follows], links)
  BY <1>1, <1>3, LinkHere, NoPathIsNone
<1>5. physical = NoPath => \A n \in 0..(follows - 1) : ~AtFinal(TrailNow[n], links)
  BY <1>1 DEF AgreeInv
<1>6. physical # NoPath =>
        \E n \in 0..(follows - 1) :
          /\ AtFinal(TrailNow[n], links) /\ physical = TrailNow[n]
          /\ \A m \in 0..(n - 1) : ~AtFinal(TrailNow[m], links)
  <2>1. \A n \in 0..follows : n # follows => n \in 0..(follows - 1)
    BY <1>3
  <2> QED BY <1>1, <2>1 DEF AgreeInv
<1>7. physical' = NoPath =>
        /\ \A n \in 0..(follows - 1) : ~AtFinal(TrailNow[n], links)
        /\ remaining' = <<>> => resolved' = <<>>
  BY <1>1, <1>4, <1>5
<1>8. physical' # NoPath =>
        \E n \in 0..follows :
          /\ AtFinal(TrailNow[n], links) /\ physical' = TrailNow[n]
          /\ \A m \in 0..(n - 1) : ~AtFinal(TrailNow[m], links)
          /\ n = follows => remaining' = <<>>
  <2>1. CASE AtFinalComponent /\ physical = NoPath
    <3>1. physical' = TrailNow[follows] /\ remaining' = <<>> /\ follows \in 0..follows
      BY <1>1, <1>3, <1>4, <2>1
    <3> QED BY <1>4, <1>5, <2>1, <3>1
  <2>2. CASE ~(AtFinalComponent /\ physical = NoPath)
    <3>1. physical' = physical
      BY <1>1, <2>2
    <3>2. \A n \in 0..(follows - 1) : n \in 0..follows /\ n # follows
      BY <1>3
    <3> QED BY <1>6, <3>1, <3>2
  <2> QED BY <2>1, <2>2
<1>9. hops' = IF remaining' = <<>> THEN HopsNow[follows]
              ELSE IF follows = 0 THEN <<>> ELSE HopsNow[follows - 1]
  <2>1. CASE AtFinalComponent
    BY <1>1, <1>4, <2>1, HopsHere
  <2>2. CASE ~AtFinalComponent
    BY <1>1, <1>3, <1>4, <2>2
  <2> QED BY <2>1, <2>2
<1> QED BY <1>1, <1>2, <1>3, <1>4, <1>7, <1>8, <1>9 DEF AgreeInv

-----------------------------------------------------------------------------
(* ... and so does a follow.                                               *)
LEMMA FollowAgrees ==
  ASSUME WalkInv, WalkInv', AgreeInv, Follow
  PROVE  AgreeInv'
<1> DEFINE here == TrailNow[follows]
           link == [path |-> Current, to |-> links[Current]]
<1>1. /\ result = "walking" /\ remaining # <<>> /\ AtLinkNow
      /\ follows < MaxFollows /\ follows' = follows + 1
      /\ resolved' = <<>> /\ remaining' = links[Current] \o Tail(remaining)
      /\ UNCHANGED <<links, path, result>>
      /\ awaiting' = (awaiting \/ AtFinalComponent)
      /\ parents' = IF AtFinalComponent THEN parents ELSE Append(parents, link)
      /\ physical' = IF AtFinalComponent /\ physical = NoPath THEN Current ELSE physical
      /\ hops' = IF AtFinalComponent /\ awaiting THEN Append(hops, Current) ELSE hops
  BY DEF Follow, Reach
<1>2. TrailNow' = TrailNow /\ ParentsNow' = ParentsNow /\ HopsNow' = HopsNow
  BY <1>1, SameKernel
<1>3. /\ follows \in 0..MaxFollows
      /\ here = resolved \o remaining
      /\ \A n \in 0..(follows - 1) : FirstLink(TrailNow[n], links) # 0
      /\ parents = ParentsNow[follows]
      /\ awaiting <=> \E n \in 0..(follows - 1) : AtFinal(TrailNow[n], links)
  BY <1>1 DEF AgreeInv
<1>4. /\ Current \in Paths /\ Current # NoPath
      /\ FirstLink(here, links) # 0 /\ AtLink(here, links) = Current
      /\ Followed(here, links) = remaining'
      /\ AtFinal(here, links) <=> AtFinalComponent
      /\ AtFinalComponent => here = Current
  BY <1>1, <1>3, LinkHere, NoPathIsNone
<1>5. /\ follows + 1 \in 1..MaxFollows /\ (follows + 1) - 1 = follows
      /\ \A n \in 0..follows : n \in 0..(follows - 1) \/ n = follows
      /\ \A n \in 0..(follows - 1) : n \in 0..follows
      /\ follows \in 0..follows
  BY <1>1, <1>3, FollowsAssumption
<1> HIDE DEF here, link
<1>6. TrailNow[follows + 1] = resolved' \o remaining'
  <2>1. TrailNow[follows + 1] = remaining'
    BY <1>4, <1>5, TrailRecursion DEF TrailNow, here
  <2>2. <<>> \o remaining' = remaining'
    BY ConcatEmptySeq DEF WalkInv, Paths
  <2> QED BY <1>1, <2>1, <2>2
<1>7. \A n \in 0..follows : FirstLink(TrailNow[n], links) # 0
  BY <1>3, <1>4, <1>5 DEF here
<1>8. parents' = ParentsNow[follows + 1]
  <2>1. ParentsNow[follows + 1] = parents \o IF AtFinalComponent THEN <<>> ELSE <<link>>
    BY <1>3, <1>4, <1>5, ParentsFurther DEF here, link
  <2>2. CASE AtFinalComponent
    BY <1>1, <2>1, <2>2, ConcatEmptySeq DEF WalkInv
  <2>3. CASE ~AtFinalComponent
    <3>1. link \in Met
      BY <1>1, <1>4 DEF WalkInv, AtLinkNow, Met, link
    <3> QED BY <1>1, <2>1, <2>3, <3>1, AppendIsConcat DEF WalkInv
  <2> QED BY <2>2, <2>3
<1>9. awaiting' <=> \E n \in 0..follows : AtFinal(TrailNow[n], links)
  BY <1>1, <1>3, <1>4, <1>5 DEF here
<1>10. physical' = NoPath => \A n \in 0..follows : ~AtFinal(TrailNow[n], links)
  <2>1. physical' = NoPath => physical = NoPath /\ ~AtFinalComponent
    BY <1>1, <1>4
  <2>2. physical = NoPath => \A n \in 0..(follows - 1) : ~AtFinal(TrailNow[n], links)
    BY <1>1 DEF AgreeInv
  <2> QED BY <1>4, <1>5, <2>1, <2>2 DEF here
<1>11. physical' # NoPath =>
         \E n \in 0..follows :
           /\ AtFinal(TrailNow[n], links) /\ physical' = TrailNow[n]
           /\ \A m \in 0..(n - 1) : ~AtFinal(TrailNow[m], links)
  <2>1. CASE AtFinalComponent /\ physical = NoPath
    <3>1. physical' = here /\ AtFinal(here, links)
      BY <1>1, <1>4, <2>1
    <3>2. \A n \in 0..(follows - 1) : ~AtFinal(TrailNow[n], links)
      BY <1>1, <2>1 DEF AgreeInv
    <3> QED BY <1>5, <3>1, <3>2 DEF here
  <2>2. CASE ~(AtFinalComponent /\ physical = NoPath)
    <3>1. physical' = physical
      BY <1>1, <2>2
    <3> QED BY <1>1, <3>1 DEF AgreeInv
  <2> QED BY <2>1, <2>2
<1>12. hops' = HopsNow[follows]
  BY <1>1, HopsHere
<1>13. remaining' = <<>> => hops' = HopsNow[follows + 1]
  <2>1. ASSUME remaining' = <<>> PROVE ~IsHop(path, links, follows + 1)
    <3>0. <<>> \o remaining' = remaining'
      BY ConcatEmptySeq DEF WalkInv, Paths
    <3>1. TrailNow[follows + 1] = <<>>
      BY <1>1, <1>6, <2>1, <3>0
    <3> QED BY <3>1 DEF IsHop, TrailNow
  <2>2. ~IsHop(path, links, follows + 1) => HopsNow[follows + 1] = HopsNow[follows] \o <<>>
    BY <1>5, HopsFurther
  <2>3. hops' \o <<>> = hops'
    BY ConcatEmptySeq DEF WalkInv
  <2> QED BY <1>12, <2>1, <2>2, <2>3
<1>14. \A n \in 0..follows : n \in 0..(follows + 1) /\ n # follows + 1
  BY <1>3
<1>15. follows' \in 0..MaxFollows /\ follows' - 1 = follows /\ follows' # 0
  BY <1>1, <1>3, <1>5
<1>16. AgreeInv'
  BY <1>1, <1>2, <1>6, <1>7, <1>8, <1>9, <1>10, <1>11, <1>12, <1>13, <1>14, <1>15
     DEF AgreeInv
<1> QED BY <1>16

(* A walk that runs to its end agrees with the kernel's.                   *)
LEMMA FinishAgrees ==
  ASSUME WalkInv, AgreeInv, Finish
  PROVE  AgreesWithKernel'
<1>1. /\ result = "walking" /\ remaining = <<>> /\ result' = "whole"
      /\ physical' = IF physical = NoPath THEN resolved ELSE physical
      /\ UNCHANGED <<links, path, resolved, parents, hops>>
  BY DEF Finish
<1>2. /\ follows \in 0..MaxFollows
      /\ TrailNow[follows] = resolved
      /\ FirstLink(resolved, links) = 0 /\ AtFinal(resolved, links)
      /\ parents = ParentsNow[follows] /\ hops = HopsNow[follows]
  BY <1>1, WalkedToEnd DEF AgreeInv
<1>3. \A n \in follows..MaxFollows : TrailNow[n] = resolved
  BY <1>2, TrailSettled DEF TrailNow
<1>4. Landing(path, links) = resolved /\ Whole(path, links)
  BY <1>2, <1>3, FollowsAssumption DEF Landing, Whole, TrailNow
<1>5. physical' = PhysicalPath(path, links)
  <2> DEFINE finals == {n \in 0..MaxFollows : AtFinal(TrailNow[n], links)}
  <2>1. \E n \in 0..follows : /\ AtFinal(TrailNow[n], links) /\ physical' = TrailNow[n]
                              /\ \A m \in 0..(n - 1) : ~AtFinal(TrailNow[m], links)
    <3>1. CASE physical = NoPath
      <4>1. follows \in 0..follows
        BY <1>2
      <4> QED BY <1>1, <1>2, <3>1, <4>1 DEF AgreeInv
    <3>2. CASE physical # NoPath
      BY <1>1, <3>2 DEF AgreeInv
    <3> QED BY <3>1, <3>2
  <2>2. PICK n \in 0..follows : /\ AtFinal(TrailNow[n], links) /\ physical' = TrailNow[n]
                                /\ \A m \in 0..(n - 1) : ~AtFinal(TrailNow[m], links)
    BY <2>1
  <2>3. finals \in SUBSET Nat /\ n \in finals
    BY <1>2, <2>2, FollowsAssumption
  <2>4. \A m \in finals : n <= m
    <3>1. \A m \in finals : m \in Nat /\ m \notin 0..(n - 1)
      BY <2>2
    <3> QED BY <1>2, <3>1
  <2>5. LeastOf(finals) = n
    <3> HIDE DEF finals
    <3> QED BY <2>3, <2>4, LeastOfUnique
  <2> QED BY <2>2, <2>5 DEF PhysicalPath, TrailNow
<1>6. parents = ParentLinks(path, links)
  <2>1. \A n \in (follows + 1)..MaxFollows : ParentSteps(path, links)[n] = <<>>
    <3> TAKE n \in (follows + 1)..MaxFollows
    <3>1. n \in 1..MaxFollows /\ n - 1 \in follows..MaxFollows
      BY <1>2, FollowsAssumption
    <3>2. AtFinal(Trail(path, links)[n - 1], links)
      BY <1>2, <1>3, <3>1 DEF TrailNow
    <3> QED BY <3>1, <3>2 DEF ParentSteps
  <2>2. ParentsNow[MaxFollows] = ParentsNow[follows]
    BY <1>2, <2>1, GatheredSettled DEF ParentsNow, WalkInv
  <2> QED BY <1>2, <2>2 DEF ParentLinks, ParentsNow
<1>7. hops = Hops(path, links)
  <2>1. \A n \in (follows + 1)..MaxFollows : HopSteps(path, links)[n] = <<>>
    <3> TAKE n \in (follows + 1)..MaxFollows
    <3>1. n \in 1..MaxFollows /\ n - 1 \in follows..MaxFollows
      BY <1>2, FollowsAssumption
    <3>2. ~IsHop(path, links, n)
      BY <1>2, <1>3, <3>1 DEF IsHop, TrailNow
    <3> QED BY <3>1, <3>2 DEF HopSteps
  <2>2. HopsNow[MaxFollows] = HopsNow[follows]
    BY <1>2, <2>1, GatheredSettled DEF HopsNow, WalkInv
  <2> QED BY <1>2, <2>2 DEF Hops, HopsNow
<1> QED BY <1>1, <1>2, <1>4, <1>5, <1>6, <1>7 DEF AgreesWithKernel

LEMMA BudgetSpent ==
  ASSUME NEW n \in 0..MaxFollows, n >= MaxFollows
  PROVE  n = MaxFollows
BY FollowsAssumption

(* A walk that gives up for the number of links has used the whole budget. *)
LEMMA StopAgrees ==
  ASSUME WalkInv, AgreeInv, Stop("too many links")
  PROVE  AgreesWithKernel'
<1>1. /\ result = "walking" /\ remaining # <<>> /\ AtLinkNow /\ follows >= MaxFollows
      /\ result' = "too many links" /\ UNCHANGED <<links, path>>
  BY DEF Stop
<1>2. follows = MaxFollows /\ TrailNow[follows] = resolved \o remaining
  <2>1. follows \in 0..MaxFollows /\ TrailNow[follows] = resolved \o remaining
    BY <1>1 DEF AgreeInv
  <2> QED BY <1>1, <2>1, BudgetSpent
<1>3. FirstLink(TrailNow[MaxFollows], links) # 0
  BY <1>1, <1>2, LinkHere
<1>4. ~Whole(path, links)
  BY <1>3 DEF Whole, Landing, TrailNow
<1> QED BY <1>1, <1>4 DEF AgreesWithKernel

(* resolve_path walks as the kernel does, for paths of any length, any     *)
(* links and any budget of follows: it comes to the same place with the    *)
(* same links recorded, or gives up where the kernel would refuse          *)
(* (symlinks.py:53-55).                                                    *)
THEOREM WalkAgrees == Spec => []AgreesWithKernel
<1>1. Init => WalkInv /\ AgreeInv /\ AgreesWithKernel
  <2> SUFFICES ASSUME Init PROVE WalkInv /\ AgreeInv /\ AgreesWithKernel
    OBVIOUS
  <2>1. WalkInv
    BY InitWalkInv, PathsAssumption
  <2>2. /\ follows = 0 /\ resolved = <<>> /\ remaining = path /\ parents = <<>>
        /\ hops = <<>> /\ ~awaiting /\ physical = NoPath /\ result = "walking"
    BY DEF Init
  <2>3. TrailNow[0] = path /\ ParentsNow[0] = <<>> /\ HopsNow[0] = <<>>
    BY TrailRecursion, GatheredRecursion DEF TrailNow, ParentsNow, HopsNow
  <2>4. <<>> \o remaining = remaining
    BY <2>1, ConcatEmptySeq DEF WalkInv, Paths
  <2>5. 0 \in 0..MaxFollows /\ 0..(0 - 1) = {}
    BY FollowsAssumption
  <2>6. AgreeInv
    BY <2>2, <2>3, <2>4, <2>5 DEF AgreeInv
  <2> QED BY <2>1, <2>2, <2>6 DEF AgreesWithKernel
<1>2. /\ WalkInv /\ AgreeInv /\ AgreesWithKernel /\ [Next]_vars
      => WalkInv' /\ AgreeInv' /\ AgreesWithKernel'
  <2> SUFFICES ASSUME WalkInv, AgreeInv, AgreesWithKernel, [Next]_vars
               PROVE  WalkInv' /\ AgreeInv' /\ AgreesWithKernel'
    OBVIOUS
  <2>1. WalkInv'
    BY StepKeepsWalkInv
  <2>2. CASE Step
    <3>1. result' = "walking"
      BY <2>2 DEF Step, Reach
    <3> QED BY <2>1, <2>2, <3>1, StepAgrees DEF AgreesWithKernel
  <2>3. CASE Follow
    <3>1. result' = "walking"
      BY <2>3 DEF Follow, Reach
    <3> QED BY <2>1, <2>3, <3>1, FollowAgrees DEF AgreesWithKernel
  <2>4. CASE Stop("unreadable")
    <3>1. result' = "unreadable"
      BY <2>4 DEF Stop
    <3> QED BY <2>1, <3>1 DEF AgreesWithKernel, AgreeInv
  <2>5. CASE Stop("too many links")
    <3>1. result' = "too many links"
      BY <2>5 DEF Stop
    <3> QED BY <2>1, <2>5, <3>1, StopAgrees DEF AgreeInv
  <2>6. CASE Finish
    <3>1. result' = "whole"
      BY <2>6 DEF Finish
    <3> QED BY <2>1, <2>6, <3>1, FinishAgrees DEF AgreeInv
  <2>7. CASE UNCHANGED vars
    BY <2>1, <2>7 DEF vars, AgreeInv, AgreesWithKernel, TrailNow, ParentsNow, HopsNow
  <2> QED BY <2>2, <2>3, <2>4, <2>5, <2>6, <2>7 DEF Next
<1> QED BY <1>1, <1>2, PTL DEF Spec

-----------------------------------------------------------------------------
(* The replay.                                                             *)

(* Fewer links, those the walk meets at q among them: the same is found.   *)
LEMMA SameLink ==
  ASSUME NEW q \in Paths, NEW map, NEW sub, DOMAIN sub \subseteq DOMAIN map,
         \A x \in DOMAIN sub : sub[x] = map[x],
         FirstLink(q, map) # 0 => AtLink(q, map) \in DOMAIN sub
  PROVE  /\ FirstLink(q, sub) = FirstLink(q, map)
         /\ FirstLink(q, map) # 0 => Followed(q, sub) = Followed(q, map)
<1>1. CASE FirstLink(q, map) = 0
  <2>1. \A k \in 1..Len(q) : SubSeq(q, 1, k) \notin DOMAIN sub
    BY <1>1, FirstLinkIsFirst
  <2> QED BY <1>1, <2>1, FirstLinkIsFirst
<1>2. CASE FirstLink(q, map) # 0
  <2>1. PICK k \in 1..Len(q) : k = FirstLink(q, map)
    <3>1. FirstLink(q, map) \in 0..Len(q) /\ Len(q) \in Nat
      BY FirstLinkIsFirst, LenProperties DEF Paths
    <3> QED BY <1>2, <3>1
  <2>2. /\ SubSeq(q, 1, k) \in DOMAIN sub
        /\ \A j \in 1..(k - 1) : SubSeq(q, 1, j) \notin DOMAIN sub
    BY <1>2, <2>1, FirstLinkIsFirst DEF AtLink
  <2>3. FirstLink(q, sub) = k
    BY <2>2, FirstLinkUnique
  <2>4. sub[SubSeq(q, 1, k)] = map[SubSeq(q, 1, k)]
    BY <2>2
  <2> QED BY <2>1, <2>3, <2>4 DEF Followed, AtLink
<1> QED BY <1>1, <1>2

(* A walk over the links that the first K follows of the kernel's take     *)
(* goes along with it that far.                                            *)
LEMMA SameTrail ==
  ASSUME NEW p \in Paths, NEW map, \A q \in DOMAIN map : map[q] \in Paths,
         NEW sub, DOMAIN sub \subseteq DOMAIN map, \A x \in DOMAIN sub : sub[x] = map[x],
         NEW K \in 0..MaxFollows,
         \A n \in 0..(K - 1) : FirstLink(Trail(p, map)[n], map) # 0
                               => AtLink(Trail(p, map)[n], map) \in DOMAIN sub
  PROVE  \A n \in 0..K : Trail(p, sub)[n] = Trail(p, map)[n]
<1> DEFINE Same == {n \in 0..K : Trail(p, sub)[n] = Trail(p, map)[n]}
<1>1. 0 \in Same
  BY TrailRecursion, FollowsAssumption
<1>2. ASSUME NEW n \in 0..K, n \in Same, n < K
      PROVE  n + 1 \in Same
  <2>1. /\ n + 1 \in 0..K /\ n + 1 \in 1..MaxFollows /\ (n + 1) - 1 = n
        /\ n \in 0..(K - 1) /\ n \in 0..MaxFollows
    BY <1>2, FollowsAssumption
  <2>2. PICK q \in Paths : q = Trail(p, map)[n] /\ q = Trail(p, sub)[n]
    BY <1>2, <2>1, TrailIsPaths
  <2>3. Trail(p, map)[n + 1] = IF FirstLink(q, map) = 0 THEN q ELSE Followed(q, map)
    <3>1. \A m \in 1..MaxFollows :
            Trail(p, map)[m] = IF FirstLink(Trail(p, map)[m - 1], map) = 0
                               THEN Trail(p, map)[m - 1]
                               ELSE Followed(Trail(p, map)[m - 1], map)
      BY TrailRecursion
    <3> QED BY <2>1, <2>2, <3>1
  <2>5. Trail(p, sub)[n + 1] = IF FirstLink(q, sub) = 0 THEN q ELSE Followed(q, sub)
    BY <2>1, <2>2, TrailRecursion
  <2>4. FirstLink(q, map) # 0 => AtLink(q, map) \in DOMAIN sub
    BY <2>1, <2>2
  <2> QED BY <2>1, <2>3, <2>4, <2>5, SameLink
<1>3. \A n \in 0..K : n \in Same
  <2> HIDE DEF Same
  <2>1. K \in Nat
    BY FollowsAssumption
  <2> QED BY <1>1, <1>2, <2>1, CountUp
<1> QED BY <1>3

(* What a step adds is in the record.                                      *)
LEMMA GatheredHas ==
  ASSUME NEW S, NEW steps, \A n \in 1..MaxFollows : steps[n] \in Seq(S),
         NEW n \in 1..MaxFollows, NEW x \in S, steps[n] = <<x>>
  PROVE  \E k \in 1..Len(Gathered(steps)[MaxFollows]) : Gathered(steps)[MaxFollows][k] = x
<1> DEFINE Has(s) == \E k \in 1..Len(s) : s[k] = x
           Kept == {m \in 0..MaxFollows : /\ Gathered(steps)[m] \in Seq(S)
                                          /\ m >= n => Has(Gathered(steps)[m])}
<1>1. 0 \in Kept
  <2>1. Gathered(steps)[0] \in Seq(S)
    BY GatheredRecursion, EmptySeq
  <2> HIDE DEF Has
  <2> QED BY <2>1, FollowsAssumption
<1>2. ASSUME NEW m \in 0..MaxFollows, m \in Kept, m < MaxFollows
      PROVE  m + 1 \in Kept
  <2>1. m + 1 \in 0..MaxFollows /\ m + 1 \in 1..MaxFollows /\ (m + 1) - 1 = m
    BY <1>2, FollowsAssumption
  <2>2. PICK s \in Seq(S), t \in Seq(S) :
          s = Gathered(steps)[m] /\ t = steps[m + 1]
    BY <1>2, <2>1
  <2>3. Gathered(steps)[m + 1] = s \o t
    BY <2>1, <2>2, GatheredRecursion
  <2>4. s \o t \in Seq(S) /\ Len(s \o t) = Len(s) + Len(t)
    BY ConcatProperties
  <2>5. Has(s) => Has(s \o t)
    <3> SUFFICES ASSUME NEW k \in 1..Len(s), s[k] = x PROVE Has(s \o t)
      OBVIOUS
    <3>1. k \in 1..Len(s \o t) /\ (s \o t)[k] = x
      BY <2>4, ConcatProperties, LenProperties
    <3> QED BY <3>1
  <2>6. t = <<x>> => Has(s \o t)
    <3> SUFFICES ASSUME t = <<x>> PROVE Has(s \o t)
      OBVIOUS
    <3>1. Len(t) = 1 /\ t[1] = x
      OBVIOUS
    <3>2. Len(s) \in Nat
      BY LenProperties
    <3>3. Len(s) + 1 \in 1..Len(s \o t) /\ (s \o t)[Len(s) + 1] = t[1]
      BY <2>4, <3>1, <3>2, ConcatProperties
    <3> QED BY <3>1, <3>3
  <2>7. m + 1 >= n => m >= n \/ m + 1 = n
    BY <2>1
  <2> HIDE DEF Has
  <2> QED BY <1>2, <2>1, <2>2, <2>3, <2>4, <2>5, <2>6, <2>7
<1>3. MaxFollows \in Kept
  <2> HIDE DEF Kept
  <2>1. MaxFollows \in Nat /\ MaxFollows \in 0..MaxFollows
    BY FollowsAssumption
  <2>2. \A m \in 0..MaxFollows : m \in Kept
    BY <1>1, <1>2, <2>1, CountUp
  <2> QED BY <2>1, <2>2
<1> HIDE DEF Has
<1>4. MaxFollows >= n
  BY FollowsAssumption
<1> QED BY <1>3, <1>4 DEF Has

(* The links a whole walk records are those its trail was led by.          *)
LEMMA ParentsPlanted ==
  ASSUME WalkInv, parents = ParentLinks(path, links),
         NEW n \in 0..(MaxFollows - 1), ~AtFinal(TrailNow[n], links)
  PROVE  AtLink(TrailNow[n], links) \in DOMAIN Planted
<1> DEFINE steps == ParentSteps(path, links)
           link(q) == [path |-> AtLink(q, links), to |-> links[AtLink(q, links)]]
<1>1. \A m \in 1..MaxFollows :
        steps[m] = IF AtFinal(TrailNow[m - 1], links) THEN <<>> ELSE <<link(TrailNow[m - 1])>>
  BY DEF ParentSteps, TrailNow
<1>2. \A m \in 0..MaxFollows : TrailNow[m] \in Paths
  BY TrailIsPaths DEF WalkInv, TrailNow
<1>3. \A m \in 1..MaxFollows : steps[m] \in Seq(Met)
  <2> TAKE m \in 1..MaxFollows
  <2>1. PICK q \in Paths : q = TrailNow[m - 1]
    <3>1. m - 1 \in 0..MaxFollows
      BY FollowsAssumption
    <3> QED BY <1>2, <3>1
  <2>2. CASE AtFinal(q, links)
    <3>1. steps[m] = <<>>
      BY <1>1, <2>1, <2>2
    <3> QED BY <3>1, EmptySeq
  <2>3. CASE ~AtFinal(q, links)
    <3>1. AtLink(q, links) \in DOMAIN links /\ AtLink(q, links) \in Paths
      <4>1. FirstLink(q, links) # 0 /\ FirstLink(q, links) \in 0..Len(q)
        BY <2>3, FirstLinkIsFirst DEF AtFinal
      <4> QED BY <4>1, FirstLinkIsFirst, SubSeqProperties DEF AtLink, Paths
    <3>2. link(q) \in Met
      BY <3>1 DEF WalkInv, Met
    <3>3. steps[m] = <<link(q)>>
      BY <1>1, <2>1, <2>3
    <3> HIDE DEF link
    <3> QED BY <3>2, <3>3
  <2> QED BY <2>2, <2>3
<1>4. n + 1 \in 1..MaxFollows /\ (n + 1) - 1 = n
  BY FollowsAssumption
<1>5. steps[n + 1] = <<link(TrailNow[n])>>
  BY <1>1, <1>4
<1>6. link(TrailNow[n]) \in Met
  <2> HIDE DEF link, steps
  <2>1. <<link(TrailNow[n])>> \in Seq(Met)
    BY <1>3, <1>4, <1>5
  <2>2. <<link(TrailNow[n])>>[1] = link(TrailNow[n]) /\ Len(<<link(TrailNow[n])>>) = 1
    OBVIOUS
  <2> QED BY <2>1, <2>2, ElementOfSeq
<1>7. PICK k \in 1..Len(parents) : parents[k] = link(TrailNow[n])
  <2> HIDE DEF link, steps
  <2>1. \E k \in 1..Len(Gathered(steps)[MaxFollows]) :
          Gathered(steps)[MaxFollows][k] = link(TrailNow[n])
    BY <1>3, <1>4, <1>5, <1>6, GatheredHas
  <2>2. parents = Gathered(steps)[MaxFollows]
    BY DEF ParentLinks, steps
  <2> QED BY <2>1, <2>2
<1>8. parents[k].path = AtLink(TrailNow[n], links)
  BY <1>7
<1> QED BY <1>7, <1>8 DEF Planted

(* The landings of a whole walk are final names.                          *)
LEMMA LandingsHeld ==
  ASSUME WalkInv, hops = Hops(path, links),
         NEW n \in 1..MaxFollows, IsHop(path, links, n)
  PROVE  TrailNow[n] \in FinalNames
<1> DEFINE steps == HopSteps(path, links)
<1>1. \A m \in 0..MaxFollows : TrailNow[m] \in Paths
  BY TrailIsPaths DEF WalkInv, TrailNow
<1>2. \A m \in 1..MaxFollows : steps[m] \in Seq(Paths)
  <2> TAKE m \in 1..MaxFollows
  <2>1. steps[m] = IF IsHop(path, links, m) THEN <<TrailNow[m]>> ELSE <<>>
    BY DEF HopSteps, TrailNow
  <2>2. TrailNow[m] \in Paths
    BY <1>1, FollowsAssumption
  <2> HIDE DEF steps
  <2> QED BY <2>1, <2>2, EmptySeq
<1>3. steps[n] = <<TrailNow[n]>> /\ TrailNow[n] \in Paths
  BY <1>1, FollowsAssumption DEF HopSteps, TrailNow
<1>4. PICK k \in 1..Len(hops) : hops[k] = TrailNow[n]
  <2> HIDE DEF steps
  <2>1. \E k \in 1..Len(Gathered(steps)[MaxFollows]) :
          Gathered(steps)[MaxFollows][k] = TrailNow[n]
    BY <1>2, <1>3, GatheredHas
  <2>2. hops = Gathered(steps)[MaxFollows]
    BY DEF Hops, steps
  <2> QED BY <2>1, <2>2
<1> QED BY <1>4 DEF FinalNames, Range1

(* The physical name is the first the trail comes to with every parent     *)
(* followed.                                                               *)
LEMMA PhysicalFirst ==
  ASSUME Whole(path, links), NEW q, q = PhysicalPath(path, links)
  PROVE  \E F \in 0..MaxFollows :
           /\ q = TrailNow[F] /\ AtFinal(TrailNow[F], links)
           /\ \A n \in 0..(F - 1) : ~AtFinal(TrailNow[n], links)
<1> DEFINE finals == {n \in 0..MaxFollows : AtFinal(TrailNow[n], links)}
<1>1. MaxFollows \in finals
  BY FollowsAssumption DEF Whole, Landing, AtFinal, TrailNow
<1>2. finals \in SUBSET Nat
  OBVIOUS
<1>3. q = TrailNow[LeastOf(finals)]
  BY DEF PhysicalPath, TrailNow
<1>4. PICK F \in finals : F = LeastOf(finals) /\ \A n \in finals : F <= n
  <2> HIDE DEF finals
  <2> QED BY <1>1, <1>2, LeastOfIsLeast
<1>5. \A n \in 0..(F - 1) : n \in 0..MaxFollows /\ ~(F <= n)
  BY <1>4, FollowsAssumption
<1> QED BY <1>3, <1>4, <1>5

(* Where no directory on the way is a link, the path itself is the only    *)
(* link there can be.                                                      *)
LEMMA FinalLink ==
  ASSUME NEW q \in Paths, NEW map, AtFinal(q, map), FirstLink(q, map) # 0
  PROVE  AtLink(q, map) = q /\ q \in DOMAIN map /\ q # <<>>
<1>1. FirstLink(q, map) = Len(q) /\ FirstLink(q, map) \in 0..Len(q)
  BY FirstLinkIsFirst DEF AtFinal
<1>2. AtLink(q, map) = q
  BY <1>1, SubSeqFull DEF AtLink, Paths
<1>3. q # <<>>
  BY <1>1, EmptySeq
<1> QED BY <1>2, <1>3, FirstLinkIsFirst

(* Over the links recorded among the parents the walk stops at the         *)
(* physical name ...                                                       *)
LEMMA PlantedStopsThere ==
  ASSUME WalkInv, Whole(path, links), parents = ParentLinks(path, links),
         physical = PhysicalPath(path, links), physical \notin DOMAIN Planted,
         DOMAIN Planted \subseteq DOMAIN links
  PROVE  Landing(path, Planted) = physical
<1>1. PICK F \in 0..MaxFollows :
        /\ physical = TrailNow[F] /\ AtFinal(TrailNow[F], links)
        /\ \A n \in 0..(F - 1) : ~AtFinal(TrailNow[n], links)
  BY PhysicalFirst
<1>2. \A x \in DOMAIN Planted : Planted[x] = links[x]
  BY DEF Planted
<1>3. \A n \in 0..(F - 1) : AtLink(TrailNow[n], links) \in DOMAIN Planted
  <2>1. \A n \in 0..(F - 1) : n \in 0..(MaxFollows - 1)
    BY <1>1, FollowsAssumption
  <2> QED BY <1>1, <2>1, ParentsPlanted
<1>4. path \in Paths /\ \A q \in DOMAIN links : links[q] \in Paths
  BY DEF WalkInv
<1> DEFINE sub == Planted
<1> HIDE DEF sub
<1>5. Trail(path, sub)[F] = TrailNow[F]
  <2>1. \A n \in 0..F : Trail(path, sub)[n] = Trail(path, links)[n]
    BY <1>2, <1>3, <1>4, SameTrail DEF sub, TrailNow
  <2>2. F \in 0..F
    BY <1>1
  <2> QED BY <2>1, <2>2 DEF TrailNow
<1>6. physical \in Paths
  BY <1>1, <1>4, TrailIsPaths DEF TrailNow
<1>7. FirstLink(physical, sub) = 0
  <2>1. ASSUME NEW k \in 1..Len(physical), SubSeq(physical, 1, k) \in DOMAIN sub
        PROVE  FALSE
    <3>1. SubSeq(physical, 1, k) \in DOMAIN links /\ SubSeq(physical, 1, k) # physical
      BY <2>1 DEF sub
    <3>2. FirstLink(physical, links) # 0
      BY <1>6, <3>1, FirstLinkIsFirst
    <3>3. FirstLink(physical, links) = Len(physical)
      BY <1>1, <3>2 DEF AtFinal
    <3>4. k # Len(physical)
      BY <1>6, <3>1, SubSeqFull DEF Paths
    <3>5. k \in 1..(FirstLink(physical, links) - 1)
      BY <1>6, <3>3, <3>4, LenProperties DEF Paths
    <3> QED BY <1>6, <3>1, <3>2, <3>5, FirstLinkIsFirst
  <2> QED BY <1>6, <2>1, FirstLinkIsFirst
<1>8. Trail(path, sub)[MaxFollows] = physical
  <2>1. MaxFollows \in F..MaxFollows
    BY <1>1, FollowsAssumption
  <2>2. \A n \in F..MaxFollows : Trail(path, sub)[n] = Trail(path, sub)[F]
    BY <1>1, <1>5, <1>7, TrailSettled
  <2> QED BY <1>1, <1>5, <2>1, <2>2
<1> QED BY <1>8 DEF Landing, sub

(* ... and with the final names links too, where the kernel's does.        *)
LEMMA FinalsGoOn ==
  ASSUME WalkInv, Whole(path, links), parents = ParentLinks(path, links),
         physical = PhysicalPath(path, links), hops = Hops(path, links),
         DOMAIN Planted \subseteq DOMAIN links,
         NEW sub, sub = [q \in DOMAIN Planted \cup (FinalNames \cap DOMAIN links) |-> links[q]]
  PROVE  Landing(path, sub) = Landing(path, links)
<1>1. PICK F \in 0..MaxFollows :
        /\ physical = TrailNow[F] /\ AtFinal(TrailNow[F], links)
        /\ \A n \in 0..(F - 1) : ~AtFinal(TrailNow[n], links)
  BY PhysicalFirst
<1>2. /\ DOMAIN sub \subseteq DOMAIN links /\ \A x \in DOMAIN sub : sub[x] = links[x]
      /\ DOMAIN Planted \subseteq DOMAIN sub
      /\ FinalNames \cap DOMAIN links \subseteq DOMAIN sub
  OBVIOUS
<1>3. path \in Paths /\ \A q \in DOMAIN links : links[q] \in Paths
  BY DEF WalkInv
<1>4. ASSUME NEW n \in 0..(MaxFollows - 1), FirstLink(TrailNow[n], links) # 0
      PROVE  AtLink(TrailNow[n], links) \in DOMAIN sub
  <2>1. n \in 0..MaxFollows /\ TrailNow[n] \in Paths
    BY <1>3, TrailIsPaths, FollowsAssumption DEF TrailNow
  <2>2. CASE ~AtFinal(TrailNow[n], links)
    BY <1>2, <2>2, ParentsPlanted
  <2>3. CASE AtFinal(TrailNow[n], links)
    <3>1. /\ AtLink(TrailNow[n], links) = TrailNow[n]
          /\ TrailNow[n] \in DOMAIN links /\ TrailNow[n] # <<>>
      BY <1>4, <2>1, <2>3, FinalLink
    <3>2. n >= F
      BY <1>1, <2>3
    <3>3. CASE n = F
      BY <1>1, <1>2, <3>1, <3>3 DEF FinalNames
    <3>4. CASE n # F
      <4>1. n \in 1..MaxFollows /\ n - 1 \in 0..MaxFollows /\ F \in 0..(n - 1)
        BY FollowsAssumption, <1>1, <2>1, <3>2, <3>4
      <4>2. FirstLink(TrailNow[n - 1], links) # 0
        <5>1. SUFFICES ASSUME FirstLink(TrailNow[n - 1], links) = 0 PROVE FALSE
          OBVIOUS
        <5>2. n \in (n - 1)..MaxFollows
          BY <4>1
        <5>3. TrailNow[n] = TrailNow[n - 1]
          BY <4>1, <5>1, <5>2, TrailSettled DEF TrailNow
        <5> QED BY <1>4, <5>1, <5>3
      <4>3. IsHop(path, links, n)
        BY <1>1, <2>3, <3>1, <4>1, <4>2 DEF IsHop, TrailNow
      <4> QED BY <1>2, <3>1, <4>1, <4>3, LandingsHeld
    <3> QED BY <3>3, <3>4
  <2> QED BY <2>2, <2>3
<1>5. MaxFollows \in 0..MaxFollows
  BY FollowsAssumption
<1>6. \A n \in 0..MaxFollows : Trail(path, sub)[n] = Trail(path, links)[n]
  <2> DEFINE map == links
  <2> HIDE DEF map
  <2> QED BY <1>2, <1>3, <1>4, <1>5, SameTrail DEF TrailNow
<1> QED BY <1>5, <1>6 DEF Landing

(* What is recorded among the parents is a link.                           *)
ParentsReal == \A k \in 1..Len(parents) : parents[k].path \in DOMAIN links

LEMMA ParentsStayReal ==
  ASSUME WalkInv, ParentsReal, [Next]_vars
  PROVE  ParentsReal'
<1>1. UNCHANGED links
  BY DEF Next, Step, Follow, Stop, Finish, Reach, vars
<1>2. CASE UNCHANGED parents
  BY <1>1, <1>2 DEF ParentsReal
<1>3. CASE Follow /\ parents' # parents
  <2> DEFINE link == [path |-> Current, to |-> links[Current]]
  <2>1. /\ parents' = Append(parents, link) /\ Current \in DOMAIN links /\ remaining # <<>>
    BY <1>3 DEF Follow, Reach, AtLinkNow
  <2>2. link \in Met /\ link.path \in DOMAIN links
    BY <2>1, CurrentReal DEF WalkInv, Met
  <2> HIDE DEF link
  <2>3. /\ Len(parents') = Len(parents) + 1 /\ Len(parents) \in Nat
        /\ parents'[Len(parents) + 1] = link
        /\ \A k \in 1..Len(parents) : parents'[k] = parents[k]
    BY <2>1, <2>2, AppendProperties DEF WalkInv
  <2>4. \A k \in 1..Len(parents') : k \in 1..Len(parents) \/ k = Len(parents) + 1
    BY <2>3
  <2> QED BY <1>1, <2>2, <2>3, <2>4 DEF ParentsReal
<1> QED BY <1>2, <1>3 DEF Next, Step, Follow, Stop, Finish, vars

(* What a whole walk records is enough to walk the declared path again:    *)
(* over the links among the parents alone it ends at the physical name,    *)
(* and with the final names links too where the kernel's walk ends         *)
(* (symlinks.py:29-41).                                                    *)
THEOREM AlwaysReplays == Spec => []ReplaysWalk
<1>1. Spec => []AgreesWithKernel
  BY WalkAgrees
<1>2. Init => WalkInv
  BY InitWalkInv, PathsAssumption
<1>3. WalkInv /\ [Next]_vars => WalkInv'
  BY StepKeepsWalkInv
<1>4. WalkInv /\ ParentsReal /\ AgreesWithKernel => ReplaysWalk
  <2> SUFFICES ASSUME WalkInv, AgreesWithKernel, ParentsReal, result = "whole"
               PROVE  /\ physical \notin DOMAIN Planted => Landing(path, Planted) = physical
                      /\ LET real == DOMAIN Planted \cup (FinalNames \cap DOMAIN links)
                         IN  Landing(path, [q \in real |-> links[q]]) = Landing(path, links)
    BY DEF ReplaysWalk
  <2>1. /\ Whole(path, links) /\ physical = PhysicalPath(path, links)
        /\ parents = ParentLinks(path, links) /\ hops = Hops(path, links)
    BY DEF AgreesWithKernel
  <2>2. DOMAIN Planted \subseteq DOMAIN links
    BY DEF ParentsReal, Planted
  <2>3. physical \notin DOMAIN Planted => Landing(path, Planted) = physical
    BY <2>1, <2>2, PlantedStopsThere
  <2>4. LET real == DOMAIN Planted \cup (FinalNames \cap DOMAIN links)
        IN  Landing(path, [q \in real |-> links[q]]) = Landing(path, links)
    BY <2>1, <2>2, FinalsGoOn
  <2> QED BY <2>3, <2>4
<1>5. Init => ParentsReal
  BY DEF Init, ParentsReal
<1>6. WalkInv /\ ParentsReal /\ [Next]_vars => ParentsReal'
  BY ParentsStayReal
<1> QED BY <1>1, <1>2, <1>3, <1>4, <1>5, <1>6, PTL DEF Spec

=============================================================================
