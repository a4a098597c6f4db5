---------------------------- MODULE DeclaredPaths ----------------------------
(***************************************************************************)
(* What a launch reads of the host, when it is refused, and which paths it *)
(* finds covered already: host_state.py, git_state.py, launch_checks.py,   *)
(* launch_config/shared.py and the decisions of linux/binds.py.  No state. *)
(*                                                                         *)
(* A host h is a record: links (see HostPaths), dirs and files (physical   *)
(* paths), workspace, declared (a sequence, see ReadDeclared), git's own   *)
(* answers - common (NoPath outside a repository), worktrees,              *)
(* worktreeConfig (the git directories that enable config.worktree) and    *)
(* coreWorktrees (from those that set core.worktree to its .git) -,        *)
(* allowNix, socket (the daemon's, or NoPath) and proxy (restricted mode). *)
(***************************************************************************)
EXTENDS HostPaths

CONSTANTS
  Store, NixVar, Tmp, Home,   \* /nix/store, /nix/var, /tmp, the real home
  Closure,                    \* the closure's store paths
  EmptyFile,                  \* spec.empty_file
  Bundle                      \* the session's CA bundle, on the host

(* The names the launcher itself puts together or looks for.               *)
ASSUME OwnNamesAssumption ==
  {"home", "tmp", "passwd", "bundle", "proxy.pid", ".git", "HEAD", "config", "hooks",
   "objects", "info", "alternates", "modules", "worktrees", "commondir",
   "config.worktree"} \subseteq FileNames

ASSUME PlacesAssumption ==
  /\ {Store, NixVar, Tmp, Home, EmptyFile, Bundle} \cup Closure \subseteq Paths
  /\ IsFiniteSet(Closure)

DeclaredNames == [name : Paths, mode : {"rw", "ro"}, kind : {"dir", "file"}]

StrictlyUnder(p, dir) == Under(p, dir) /\ p # dir

IsDir(h, p) == Whole(p, h.links) /\ Landing(p, h.links) \in h.dirs
IsFile(h, p) == Whole(p, h.links) /\ Landing(p, h.links) \in h.files
Exists(h, p) == IsDir(h, p) \/ IsFile(h, p)

-----------------------------------------------------------------------------
(* Declared paths.                                                         *)

(* The links right inside a declared directory whose walks are whole.      *)
InnerSymlinks(h, dir) ==
  {[parents |-> ParentLinks(entry, h.links), hops |-> Hops(entry, h.links)] :
     entry \in {Append(dir, Last(link)) :
                  link \in {l \in DOMAIN h.links :
                              /\ Parent(l) = Landing(dir, h.links)
                              /\ Whole(Append(dir, Last(l)), h.links)}}}

(* What is declared is a name, a mode and a kind; the rest is read.  A      *)
(* stopped walk leaves the declared path as it was written.                *)
ReadDeclared(h, d) ==
  LET whole == Whole(d.name, h.links)
      path == IF whole THEN PhysicalPath(d.name, h.links) ELSE d.name
  IN  [name |-> d.name, mode |-> d.mode, kind |-> d.kind,
       path |-> path,
       parents |-> IF whole THEN ParentLinks(d.name, h.links) ELSE <<>>,
       hops |-> IF whole THEN Hops(d.name, h.links) ELSE <<>>,
       stopped |-> ~whole,
       exists |-> Exists(h, path),
       inner |-> IF d.kind = "dir" /\ IsDir(h, path)
                 THEN InnerSymlinks(h, path) ELSE {}]

(* In the order of the groups: rwDirs, rwFiles, roDirs, roFiles.           *)
ReadAll(h) ==
  LET is(n, m, k) == h.declared[n].mode = m /\ h.declared[n].kind = k
      group(m, k) ==
        Selected(h.declared, {n \in 1..Len(h.declared) : is(n, m, k)})
      all == group("rw", "dir") \o group("rw", "file")
               \o group("ro", "dir") \o group("ro", "file")
  IN  [n \in 1..Len(all) |-> ReadDeclared(h, all[n])]

DeclaredSet(h) == {h.declared[n] : n \in 1..Len(h.declared)}

-----------------------------------------------------------------------------
(* git.                                                                    *)

RepoRoot(h) == Parent(h.common)

(* A repository rooted at the home, or above it, is not exposed, unless    *)
(* the workspace is the home itself.                                       *)
GitUsable(h) ==
  /\ h.common # NoPath
  /\ ~StrictlyUnder(Home, RepoRoot(h))
  /\ RepoRoot(h) = Home => h.workspace = Home

(* The nearest directory, from the workspace up, with a .git entry.        *)
WorkTreeRoot(h) ==
  LET roots == {k \in 0..Len(h.workspace) :
                  Within(SubSeq(h.workspace, 1, k), ".git") \in h.dirs \cup h.files}
  IN  IF roots = {} THEN h.workspace
      ELSE SubSeq(h.workspace, 1, CHOOSE k \in roots : \A j \in roots : j <= k)

GrantableRepoRoot(h) ==
  IF GitUsable(h) THEN {WorkTreeRoot(h)} \ {h.workspace} ELSE {}

(* The repository's own git directory and those of its submodules.         *)
GitDirs(h) ==
  LET modules == Within(h.common, "modules")
  IN  {h.common} \cup
      {g \in h.dirs : /\ StrictlyUnder(g, modules)
                      /\ {Within(g, "HEAD"), Within(g, "config")} \subseteq h.files}

(* A hooks directory that does not exist is not among them.                *)
ProtectedDirs(h) == {Within(g, "hooks") : g \in GitDirs(h)} \cap h.dirs

WorktreesOf(h, gitdirs) ==
  {d \in h.dirs : \E g \in gitdirs : Parent(d) = Within(g, "worktrees")}

(* Where core.worktree puts a git directory's .git file, wherever that is. *)
SubmoduleDotGit(h) ==
  {p \in h.files : \E g \in GitDirs(h) \cap DOMAIN h.coreWorktrees :
     Whole(h.coreWorktrees[g], h.links) /\ p = Landing(h.coreWorktrees[g], h.links)}

(* Some of them are yet to exist.                                          *)
ProtectedFiles(h) ==
  ({Within(g, "config") : g \in GitDirs(h)} \cap h.files)
  \cup {g \o <<"objects", "info", "alternates">> : g \in GitDirs(h)}
  \cup {Within(w, "commondir") : w \in WorktreesOf(h, GitDirs(h))}
  \cup (LET enabled == GitDirs(h) \cap h.worktreeConfig
        IN  {Within(g, "config.worktree") : g \in enabled \cup WorktreesOf(h, enabled)})
  \cup ({Within(w, ".git") :
           w \in {t \in h.worktrees : Under(t, h.workspace)}} \cap h.files)
  \cup SubmoduleDotGit(h)

-----------------------------------------------------------------------------
(* What is bound already, and what the links need besides.                 *)

AlreadyBound(p, prefixes) == \E prefix \in prefixes : Under(p, prefix)

(* Slip: the repository root is listed although git is disabled.           *)
BoundPrefixesOfAnyRoot(h) ==
  (IF h.allowNix THEN {Store} ELSE Closure)
    \cup {d.path : d \in {e \in DeclaredSet(h) : e.kind = "dir"}}
    \cup {h.workspace}
    \cup (IF h.common = NoPath THEN {} ELSE {WorkTreeRoot(h), h.common})

BoundPrefixes(h) ==
  (IF h.allowNix THEN {Store} ELSE Closure)
    \cup {d.path : d \in {e \in DeclaredSet(h) : e.kind = "dir"}}
    \cup {h.workspace}
    \cup GrantableRepoRoot(h)
    \cup (IF GitUsable(h) THEN {h.common} ELSE {})

Landings(h) ==
  UNION {{d.hops[n] : n \in 1..Len(d.hops)}
           \cup UNION {{i.hops[n] : n \in 1..Len(i.hops)} : i \in d.inner} :
         d \in DeclaredSet(h)}

Unbound(h, prefixes) == {l \in Landings(h) : ~AlreadyBound(l, prefixes)}

(* Slip: a landing anywhere is a target.                                   *)
AnyTargets(h, prefixes) == {l \in Unbound(h, prefixes) : TRUE}

(* The landings to expose besides: those in the store.                     *)
StoreTargets(h, prefixes) == {l \in Unbound(h, prefixes) : StrictlyUnder(l, Store)}
Warned(h, prefixes) == {l \in Unbound(h, prefixes) : ~StrictlyUnder(l, Store)}

(* The directories made above a path, unless the nearest is bound.         *)
ParentDirs(p, prefixes) ==
  IF AlreadyBound(Parent(p), prefixes) THEN {} ELSE Ancestors(p)

(* Slip: no link is planted when its target is exposed already.            *)
ParentSymlinksToUnbound(h) ==
  {l \in UNION {{d.parents[n] : n \in 1..Len(d.parents)}
                  \cup UNION {{i.parents[n] : n \in 1..Len(i.parents)} : i \in d.inner} :
                d \in DeclaredSet(h)} :
     ~AlreadyBound(l.path, BoundPrefixes(h)) /\ ~AlreadyBound(l.to, BoundPrefixes(h))}

(* The links to plant on the way to declared names and landings.           *)
ParentSymlinks(h) ==
  {l \in UNION {{d.parents[n] : n \in 1..Len(d.parents)}
                  \cup UNION {{i.parents[n] : n \in 1..Len(i.parents)} : i \in d.inner} :
                d \in DeclaredSet(h)} :
     ~AlreadyBound(l.path, BoundPrefixes(h))}
-----------------------------------------------------------------------------
(* The refusals of either platform.                                        *)

(* What the checks learn besides: whether the daemon trusts the user,      *)
(* whether it sandboxes its builds, and whether what has to be confirmed   *)
(* is, on a terminal.                                                      *)
Answers == [trusted : {"yes", "no", "unknown"}, builds : BOOLEAN, confirmed : BOOLEAN]

DeclaredRefused(h) == \E d \in DeclaredSet(h) : d.stopped \/ ~d.exists

DaemonRefused(h, answers) ==
  /\ h.allowNix
  /\ \/ h.socket = NoPath
     \/ answers.trusted # "no"
     \/ ~answers.builds /\ ~answers.confirmed

WorkspaceRefused(h, answers) ==
  \/ ~IsDir(h, h.workspace)
  \/ StrictlyUnder(Home, h.workspace)
  \/ h.workspace = Home /\ ~answers.confirmed

LaunchRefused(h, answers) ==
  DeclaredRefused(h) \/ DaemonRefused(h, answers) \/ WorkspaceRefused(h, answers)
=============================================================================
