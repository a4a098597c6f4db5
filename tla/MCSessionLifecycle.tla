------------------------- MODULE MCSessionLifecycle -------------------------
(* Small instances of SessionLifecycle for TLC.                            *)
EXTENDS SessionLifecycle, TLC

CONSTANTS l1, l2, l3

TwoLaunches == {l1, l2}
ThreeLaunches == {l1, l2, l3}

(* The launches are interchangeable: what tells them apart is the name     *)
(* each takes, and any of them may take any.                               *)
LaunchSymmetry == Permutations(Launches)

(* One launch settles whatever the others do, and so, as they are          *)
(* interchangeable, does every one (prepare.py:54-165, launch.sh:53-71).   *)
LaunchSettles == Settles(l1)

(* One launch is torn down whatever the others do, and so is every one     *)
(* (launch.sh:65, cleanup.py:23-54).                                       *)
TeardownEnds == TearsDown(l1)

=============================================================================
