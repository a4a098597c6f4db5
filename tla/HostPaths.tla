------------------------------ MODULE HostPaths ------------------------------
(***************************************************************************)
(* Paths and symbolic links, as the kernel walks them: what resolve_path   *)
(* (launcher/lib/symlinks.py) is to observe of the host, and what the      *)
(* inside of the session is to reproduce.  No state.                       *)
(*                                                                         *)
(* A path is the sequence of its names, <<>> for "/".  links maps the path *)
(* of each link to its text made absolute: a relative one is relative to   *)
(* the directory it sits in, and "." and ".." are already collapsed.       *)
(***************************************************************************)
EXTENDS Naturals, Sequences, FiniteSets, SequencesExt

CONSTANTS
  FileNames,   \* the names a file may have: none is empty
  MaxFollows   \* the links one resolution may follow

ASSUME NamesAssumption == "" \notin FileNames
ASSUME FollowsAssumption == MaxFollows \in Nat

Paths == Seq(FileNames)
NoPath == <<"">>

Within(p, n) == Append(p, n)
Under(p, dir) == IsPrefix(dir, p)
Parent(p) == Front(p)
Ancestors(p) == {SubSeq(p, 1, k) : k \in 1..(Len(p) - 1)}

(* The elements of a sequence at some of its places, in their order.       *)
Selected(s, places) ==
  LET upTo[n \in 0..Len(s)] ==
        IF n = 0 THEN <<>>
        ELSE IF n \in places THEN Append(upTo[n - 1], s[n]) ELSE upTo[n - 1]
  IN  upTo[Len(s)]

LeastOf(S) == CHOOSE n \in S : \A m \in S : n <= m

(* The length of the shortest prefix that is a link, or 0.                 *)
FirstLink(p, links) ==
  LET at == {k \in 1..Len(p) : SubSeq(p, 1, k) \in DOMAIN links}
  IN  IF at = {} THEN 0 ELSE LeastOf(at)

AtLink(p, links) == SubSeq(p, 1, FirstLink(p, links))

(* Its text takes the place of the prefix.                                 *)
Followed(p, links) ==
  links[AtLink(p, links)]
    \o SubSeq(p, FirstLink(p, links) + 1, Len(p))

(* The path after each follow of the walk, the last of them repeated.      *)
Trail(p, links) ==
  LET trail[n \in 0..MaxFollows] ==
        IF n = 0 THEN p
        ELSE LET before == trail[n - 1]
             IN  IF FirstLink(before, links) = 0 THEN before
                 ELSE Followed(before, links)
  IN  trail

(* Where the walk ends, and whether it does: too many levels of links are  *)
(* an error.                                                               *)
Landing(p, links) == Trail(p, links)[MaxFollows]
Whole(p, links) == FirstLink(Landing(p, links), links) = 0

(* The walk is at its final name: nothing before that name is a link.      *)
AtFinal(q, links) == FirstLink(q, links) \in {0, Len(q)}

(* ResolvedPath of a walk that is whole.  physical_path: every parent      *)
(* followed, and the final name as written.                                *)
PhysicalPath(p, links) ==
  LET trail == Trail(p, links)
  IN  trail[LeastOf({n \in 0..MaxFollows : AtFinal(trail[n], links)})]

(* The sequences of `steps` put together, up to each of them.              *)
Gathered(steps) ==
  LET gathered[n \in 0..MaxFollows] ==
        IF n = 0 THEN <<>> ELSE gathered[n - 1] \o steps[n]
  IN  gathered

(* parent_symlinks: the links followed before the final name, by follow.   *)
ParentSteps(p, links) ==
  LET trail == Trail(p, links)
  IN  [n \in 1..MaxFollows |->
         IF AtFinal(trail[n - 1], links) THEN <<>>
         ELSE <<[path |-> AtLink(trail[n - 1], links),
                 to |-> links[AtLink(trail[n - 1], links)]]>>]

ParentLinks(p, links) == Gathered(ParentSteps(p, links))[MaxFollows]

(* The n-th follow comes to a name that is final in turn, once a final     *)
(* name has been followed.  "/" has no name.                               *)
IsHop(p, links, n) ==
  LET trail == Trail(p, links)
  IN  /\ FirstLink(trail[n - 1], links) # 0
      /\ \E m \in 0..(n - 1) : AtFinal(trail[m], links)
      /\ AtFinal(trail[n], links) /\ trail[n] # <<>>

(* hops: where each follow of the final name comes to, by follow.          *)
HopSteps(p, links) ==
  [n \in 1..MaxFollows |->
     IF IsHop(p, links, n) THEN <<Trail(p, links)[n]>> ELSE <<>>]

Hops(p, links) == Gathered(HopSteps(p, links))[MaxFollows]

=============================================================================
