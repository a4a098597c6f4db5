----------------------------- MODULE SymlinkWalk -----------------------------
(***************************************************************************)
(* resolve_path (launcher/lib/symlinks.py): the walk of one declared path, *)
(* name by name, that records every link it goes through.  The links of    *)
(* the host do not change while it runs, except that reading one may fail. *)
(***************************************************************************)
EXTENDS HostPaths

CONSTANTS
  LinkMaps,       \* the links a host may have
  DeclaredPaths   \* the normalised paths a caller may give

ASSUME PathsAssumption ==
  /\ DeclaredPaths \subseteq Paths
  /\ \A map \in LinkMaps : \A q \in DOMAIN map : map[q] \in Paths

VARIABLES
  links, path,
  resolved,       \* the prefix walked, every link in it followed
  remaining,      \* the names still to walk
  follows,
  physical,       \* physical_path, once a final name was reached
  parents,        \* parent_symlinks
  hops,
  awaiting,       \* awaiting_hop_landing
  result          \* "walking", "whole", "unreadable" or "too many links"

vars == <<links, path, resolved, remaining, follows, physical, parents, hops,
          awaiting, result>>

Init ==
  /\ links \in LinkMaps
  /\ path \in DeclaredPaths
  /\ resolved = <<>>
  /\ remaining = path
  /\ follows = 0
  /\ physical = NoPath
  /\ parents = <<>>
  /\ hops = <<>>
  /\ awaiting = FALSE
  /\ result = "walking"

Current == Append(resolved, Head(remaining))
AtFinalComponent == Len(remaining) = 1
AtLinkNow == Current \in DOMAIN links

(* What reaching a name records, be it a link or not.                      *)
Reach ==
  /\ result = "walking" /\ remaining # <<>>
  /\ physical' = IF AtFinalComponent /\ physical = NoPath
                 THEN Current ELSE physical
  /\ hops' = IF AtFinalComponent /\ awaiting THEN Append(hops, Current) ELSE hops
  /\ UNCHANGED <<links, path>>

Step ==
  /\ Reach
  /\ ~AtLinkNow
  /\ resolved' = Current
  /\ remaining' = Tail(remaining)
  /\ UNCHANGED <<follows, parents, awaiting, result>>

(* Slip: a link among the parents of a landing cancels the landing.        *)
FollowResetting ==
  /\ Reach
  /\ AtLinkNow
  /\ follows < MaxFollows
  /\ follows' = follows + 1
  /\ awaiting' = AtFinalComponent
  /\ parents' = IF AtFinalComponent THEN parents
                ELSE Append(parents, [path |-> Current, to |-> links[Current]])
  /\ remaining' = links[Current] \o Tail(remaining)
  /\ resolved' = <<>>
  /\ UNCHANGED result

(* Slip: the target is taken to be physical already, its names not walked. *)
FollowWithoutRestart ==
  /\ Reach
  /\ AtLinkNow
  /\ follows < MaxFollows
  /\ follows' = follows + 1
  /\ awaiting' = (awaiting \/ AtFinalComponent)
  /\ parents' = IF AtFinalComponent THEN parents
                ELSE Append(parents, [path |-> Current, to |-> links[Current]])
  /\ remaining' = Tail(remaining)
  /\ resolved' = links[Current]
  /\ UNCHANGED result

(* Slip: the links among the parents of a landing are not recorded.        *)
FollowForgetful ==
  /\ Reach
  /\ AtLinkNow
  /\ follows < MaxFollows
  /\ follows' = follows + 1
  /\ awaiting' = (awaiting \/ AtFinalComponent)
  /\ parents' = IF AtFinalComponent \/ awaiting THEN parents
                ELSE Append(parents, [path |-> Current, to |-> links[Current]])
  /\ remaining' = links[Current] \o Tail(remaining)
  /\ resolved' = <<>>
  /\ UNCHANGED result

(* The walk restarts from the root of the target: its own directories may  *)
(* be links too.                                                           *)
Follow ==
  /\ Reach
  /\ AtLinkNow
  /\ follows < MaxFollows
  /\ follows' = follows + 1
  /\ awaiting' = (awaiting \/ AtFinalComponent)
  /\ parents' = IF AtFinalComponent THEN parents
                ELSE Append(parents, [path |-> Current, to |-> links[Current]])
  /\ remaining' = links[Current] \o Tail(remaining)
  /\ resolved' = <<>>
  /\ UNCHANGED result

(* Slip: the names behind the link are joined on.                          *)
StopJoined(reason) ==
  /\ result = "walking" /\ remaining # <<>>
  /\ AtLinkNow
  /\ reason = "too many links" => follows >= MaxFollows
  /\ physical' = IF physical = NoPath THEN Current \o Tail(remaining) ELSE physical
  /\ hops' = IF AtFinalComponent /\ awaiting THEN Append(hops, Current) ELSE hops
  /\ result' = reason
  /\ UNCHANGED <<links, path, resolved, remaining, follows, parents, awaiting>>

(* _stopped_walk: the link it stopped at stands for the physical path when *)
(* no final name was reached.                                              *)
Stop(reason) ==
  /\ result = "walking" /\ remaining # <<>>
  /\ AtLinkNow
  /\ reason = "too many links" => follows >= MaxFollows
  /\ physical' = IF physical = NoPath THEN Current ELSE physical
  /\ hops' = IF AtFinalComponent /\ awaiting THEN Append(hops, Current) ELSE hops
  /\ result' = reason
  /\ UNCHANGED <<links, path, resolved, remaining, follows, parents, awaiting>>

Finish ==
  /\ result = "walking" /\ remaining = <<>>
  /\ physical' = IF physical = NoPath THEN resolved ELSE physical
  /\ result' = "whole"
  /\ UNCHANGED <<links, path, resolved, remaining, follows, parents, hops, awaiting>>

Next ==
  \/ Step
  \/ Follow
  \/ Stop("unreadable")
  \/ Stop("too many links")
  \/ Finish

Spec == Init /\ [][Next]_vars

-----------------------------------------------------------------------------
(* Properties.                                                             *)

Range1(s) == {s[k] : k \in 1..Len(s)}
Planted == [q \in {parents[k].path : k \in 1..Len(parents)} |-> links[q]]
FinalNames == {physical} \cup Range1(hops)

(* The walk is the kernel's: it gives up where the kernel refuses the path *)
(* and nowhere else, and a whole walk records exactly the physical name,   *)
(* the links among the parents and the landings of the kernel's walk       *)
(* ("spending it the same way", symlinks.py:53-55).                        *)
AgreesWithKernel ==
  /\ result = "whole" =>
       /\ Whole(path, links)
       /\ resolved = Landing(path, links)
       /\ physical = PhysicalPath(path, links)
       /\ parents = ParentLinks(path, links)
       /\ hops = Hops(path, links)
  /\ result = "too many links" => ~Whole(path, links)

(* The links recorded among the parents are all that has to be planted: a  *)
(* walk of the declared path over them alone ends at the physical name,    *)
(* and, once the final names are links too, where the kernel's walk ends   *)
(* (symlinks.py:29-41).  A path that crosses its own final link on the way *)
(* (x/x, x a link to its directory) can have no such replay.               *)
ReplaysWalk ==
  result = "whole" =>
    /\ physical \notin DOMAIN Planted => Landing(path, Planted) = physical
    /\ LET real == DOMAIN Planted \cup (FinalNames \cap DOMAIN links)
       IN  Landing(path, [q \in real |-> links[q]]) = Landing(path, links)

(* A walk records only names the kernel presents: no directory on the way  *)
(* to a physical name or a landing is a link.  A stopped walk never joins  *)
(* on what lies behind its link (symlinks.py:83-86).                       *)
RecordsRealNames ==
  \A q \in FinalNames \ {NoPath} :
    \A dir \in Ancestors(q) : dir \notin DOMAIN links

=============================================================================
