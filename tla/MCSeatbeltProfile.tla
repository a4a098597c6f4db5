-------------------------- MODULE MCSeatbeltProfile --------------------------
(* The hosts of the Linux launches, and directories outside the home.      *)
EXTENDS SeatbeltProfile, MCLaunchHosts

MCSystemDirs == {<<"u">>}
O == <<"o">>
OD == O \o <<"d">>
AtHome == MCHome \o <<"n", "1">>

OnDarwin(hosts, sessions, unixes, proxies) ==
  {[h EXCEPT !.proxy = p, !.dirs = @ \cup {<<>>}] @@ [session |-> s, unix |-> u] :
     h \in hosts, s \in sessions, u \in unixes, p \in proxies}

(* A directory outside the home is declared within another in any modes,   *)
(* and the workspace may be one of them.                                   *)
OutsideHosts ==
  LET outside(w) == [Plain(NoRepository) EXCEPT
                       !.workspace = w, !.dirs = @ \cup {O, OD}, !.files = @ \cup {OD \o <<"f">>}]
      items == Either({O, OD}, {OD \o <<"f">>})
      threes == {<<a[1], a[2], a[3]>> : a \in items \X items \X items}
  IN  Declaring({outside(W), outside(OD)}, items)
        \cup {outside(W) @@ [declared |-> ds] : ds \in threes}

MCHosts ==
  OnDarwin(NestedHosts, {AtHome}, {"all"}, {TRUE})
    \cup OnDarwin(LinkHosts, {AtHome}, {"none"}, {TRUE})
    \cup OnDarwin(SocketHosts, {AtHome, <<"y", "1">>}, {"all", "browser", "none"}, BOOLEAN)
    \cup OnDarwin(OutsideHosts, {<<"y", "1">>, O \o <<"1">>}, {"all"}, BOOLEAN)
=============================================================================
