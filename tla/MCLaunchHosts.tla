---------------------------- MODULE MCLaunchHosts ----------------------------
(* A home with a project w, a directory e and a private file; a store with *)
(* one path in the closure and one outside it.                             *)
EXTENDS DeclaredPaths, TLC

MCFileNames == STRING \ {""}
MCHome == <<"u", "h">>
MCStore == <<"s">>
MCNixVar == <<"v">>
MCTmp == <<"t">>
MCClosure == {<<"s", "p">>}
MCEmptyFile == <<"s", "p", "f">>
MCBundle == <<"x">>

W == MCHome \o <<"w">>
E == MCHome \o <<"e">>
D == W \o <<"d">>

BaseDirs == {<<"u">>, MCHome, W, D, E, E \o <<"d">>, <<"t">>, <<"s">>, <<"s", "p">>,
             <<"s", "q">>, <<"v">>}
BaseFiles == {<<"x">>, MCHome \o <<"private">>, W \o <<"f">>, E \o <<"f">>,
              E \o <<"d", "f">>, <<"s", "p", "f">>, <<"s", "q", "f">>,
              <<"v", "socket">>, <<"t", "socket">>, E \o <<"socket">>}

(* A git directory g has a submodule m, checked out at sub beside it, or a  *)
(* linked worktree n elsewhere.                                            *)
Module(g) == g \o <<"modules", "m">>
Sub(g) == Parent(g) \o <<"sub">>
GitDirsAt(g, has) ==
  {g, g \o <<"hooks">>}
    \cup (IF has = "module"
          THEN {g \o <<"modules">>, Module(g), Module(g) \o <<"hooks">>, Sub(g)}
          ELSE {g \o <<"worktrees">>, g \o <<"worktrees", "n">>})
GitFilesAt(g, has) ==
  {g \o <<"config">>}
    \cup (IF has = "module"
          THEN {Module(g) \o <<"HEAD">>, Module(g) \o <<"config">>, Sub(g) \o <<".git">>}
          ELSE {g \o <<"worktrees", "n", "commondir">>})

(* No repository; one at the workspace, above it, at the home, and a       *)
(* linked worktree of one elsewhere.                                       *)
Layouts ==
  LET git(at) == at \o <<".git">>
      layout(w, at, has, enabled, files, trees) ==
        [workspace |-> w, common |-> git(at),
         dirs |-> BaseDirs \cup GitDirsAt(git(at), has),
         files |-> BaseFiles \cup GitFilesAt(git(at), has) \cup files,
         worktrees |-> trees, worktreeConfig |-> enabled,
         coreWorktrees |-> IF has = "module"
                           THEN Module(git(at)) :> Sub(git(at)) \o <<".git">> ELSE <<>>]
  IN  {[workspace |-> W, common |-> NoPath, dirs |-> BaseDirs, files |-> BaseFiles,
        worktrees |-> {}, worktreeConfig |-> {}, coreWorktrees |-> <<>>],
       layout(W, W, "module", {Module(git(W))}, {}, {W}),
       layout(D, W, "tree", {git(W)}, {}, {W}),
       layout(W, MCHome, "tree", {}, {}, {MCHome}),
       layout(MCHome, MCHome, "module", {git(MCHome)}, {}, {MCHome}),
       layout(W, E, "module", {}, {git(W)}, {E, W}),
       layout(W, E, "tree", {git(E)}, {git(W)}, {E, W})}

Plain(l) == l @@ [links |-> <<>>, allowNix |-> FALSE, socket |-> NoPath, proxy |-> FALSE]
NoRepository == CHOOSE l \in Layouts : l.common = NoPath

One(S, mode, kind) == {[name |-> p, mode |-> mode, kind |-> kind] : p \in S}
Either(dirs, files) ==
  UNION {One(dirs, m, "dir") \cup One(files, m, "file") : m \in {"rw", "ro"}}
UpToTwo(S) == {<<>>} \cup {<<a>> : a \in S} \cup {<<ab[1], ab[2]>> : ab \in S \X S}
Declaring(hosts, S) == {h @@ [declared |-> ds] : h \in hosts, ds \in UpToTwo(S)}

(* Declared paths in, around and above the workspace and the repository.   *)
NestedHosts ==
  Declaring({Plain(l) : l \in Layouts},
            Either({W, D, E, E \o <<"d">>, MCHome}, {W \o <<"f">>, E \o <<"d", "f">>}))

(* Declared links and links inside declared directories.                   *)
LinkMaps ==
  LET to == {<<"s", "q", "f">>, <<"s", "q">>, E \o <<"f">>, W \o <<"d">>, MCHome \o <<"private">>}
      k == MCHome \o <<"k">>   in == E \o <<"l">>
  IN  {(k :> t) : t \in to} \cup {(in :> t) : t \in to}
        \cup {(in :> t) @@ (k :> E) : t \in to}
        \cup {(in :> k) @@ (k :> t) : t \in to}
        \cup {(k :> k)}
LinkHosts ==
  LET k == MCHome \o <<"k">>   in == E \o <<"l">>
      home == CHOOSE l \in Layouts : l.common = MCHome \o <<".git">> /\ l.workspace = W
      hosts == {[Plain(NoRepository) EXCEPT !.links = m] : m \in LinkMaps}
                 \cup {[Plain(home) EXCEPT !.links = m] :
                         m \in {(in :> MCHome \o <<"private">>), (k :> E)}}
      fits(h, d) == Exists(h, d.name) => (d.kind = "dir") = IsDir(h, d.name)
      items == Either({E, k, k \o <<"l">>, in}, {k, k \o <<"f">>, in, E \o <<"f">>})
  IN  {h \in Declaring(hosts, items) :
         \A n \in 1..Len(h.declared) : fits(h, h.declared[n])}

(* The daemon's socket in its three places, and restricted mode.           *)
SocketHosts ==
  LET sockets == {NoPath, <<"v", "socket">>, <<"t", "socket">>, E \o <<"socket">>}
      hosts == {[Plain(NoRepository) EXCEPT !.allowNix = TRUE, !.socket = s, !.proxy = p] :
                  s \in sockets, p \in BOOLEAN}
  IN  Declaring(hosts, Either({<<"t">>, E}, {E \o <<"socket">>}))

(* Links that what is bound besides the prefixes exposes; a link inside a  *)
(* declared directory whose target is gone; a link to "/"; a repository    *)
(* whose work tree is around /tmp, one with a submodule's git directory    *)
(* among the hooks of another's, and a submodule whose core.worktree goes  *)
(* through a link.                                                         *)
OddHosts ==
  LET k == MCHome \o <<"k">>   j == MCHome \o <<"j">>   v == <<"v", "k">>
      ql == <<"s", "q", "l">>   r == <<"s", "r">>
      dirs == NoRepository.dirs \cup {r, r \o <<"d">>}
      at(t, links) == [Plain([t EXCEPT !.dirs = @ \cup dirs]) EXCEPT !.links = links]
      nix(h) == [h EXCEPT !.allowNix = TRUE, !.socket = <<"t", "socket">>]
      with(h, S) == h @@ [declared |-> SetToSeq(S)]
      hooks == GitDirsAt(W \o <<".git">>, "module")
      deep == W \o <<".git", "modules", "m", "hooks", "n">>
      tmpTree == [NoRepository EXCEPT !.workspace = <<"t", "w">>, !.common = E \o <<".git">>,
                    !.dirs = @ \cup GitDirsAt(E \o <<".git">>, "module") \cup {<<"t", "w">>},
                    !.files = @ \cup GitFilesAt(E \o <<".git">>, "module") \cup {<<"t", ".git">>},
                    !.worktrees = {E, <<"t">>}, !.worktreeConfig = {Module(E \o <<".git">>)}]
      hookTree == [NoRepository EXCEPT !.common = W \o <<".git">>,
                     !.dirs = @ \cup hooks \cup {deep},
                     !.files = @ \cup GitFilesAt(W \o <<".git">>, "module")
                                 \cup {deep \o <<"HEAD">>, deep \o <<"config">>},
                     !.worktrees = {W}]
      super == E \o <<".git">>
      subTree == [NoRepository EXCEPT !.workspace = E \o <<"sub">>, !.common = Module(super),
                    !.dirs = @ \cup (GitDirsAt(super, "module") \ {Module(super) \o <<"hooks">>}),
                    !.files = @ \cup GitFilesAt(super, "module"),
                    !.coreWorktrees = Module(super) :> k \o <<".git">>]
  IN  {with(nix(at(NoRepository, v :> <<"s", "q">>)), S) :
         S \in {One({v}, "ro", "dir"), One({v \o <<"f">>}, "ro", "file")}}
        \cup {with(at(NoRepository, m), S) :
                m \in {(k :> <<"s", "q">>) @@ (j :> ql) @@ (ql :> r)},
                S \in {One({k, j}, "ro", "dir"), One({k, k \o <<"l", "d">>}, "ro", "dir")}}
        \cup {with(at(NoRepository, (E \o <<"l">>) :> to), One({E}, m, "dir")) :
                to \in {<<"s", "gone">>, <<"s", "gone", "f">>, <<"gone">>}, m \in {"rw", "ro"}}
        \cup {with(at([NoRepository EXCEPT !.dirs = @ \cup {<<>>}], (E \o <<"l">>) :> <<>>),
                   One({E, E \o <<"l">>}, "ro", "dir"))}
        \cup {with([at(tmpTree, <<>>) EXCEPT !.proxy = p], {}) : p \in BOOLEAN}
        \cup {with(at(hookTree, <<>>), {})}
        \cup {with(at(subTree, k :> E \o <<"sub">>), One({E}, "ro", "dir"))}
=============================================================================
