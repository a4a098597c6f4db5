----------------------------- MODULE LinuxBinds ------------------------------
(***************************************************************************)
(* The file system of a session on Linux: the bubblewrap arguments that    *)
(* linux/binds.py and linux/compute.py emit for a host, in their order,    *)
(* and bubblewrap applying them one by one.  Mounts that neither a         *)
(* declared path nor a link can meet (/etc, /proc, /dev) are left out.     *)
(***************************************************************************)
EXTENDS DeclaredPaths

CONSTANT Hosts   \* the hosts a launch may find

VARIABLES
  host,
  status,   \* "reading", "checking", "refused", "mounting", "running" or "died"
  args,     \* the arguments still to apply
  mounts,   \* [at, src, rw] in mount order; a tmpfs has src NoPath
  made      \* [mount, at, to]: what was created in a mount, to NoPath unless a link

vars == <<host, status, args, mounts, made>>

(* A host, before it is read: finitely many files, by their real names.    *)
ASSUME HostsAssumption ==
  \A h \in Hosts :
    /\ DOMAIN h = {"links", "dirs", "files", "workspace", "declared", "common",
                   "worktrees", "worktreeConfig", "coreWorktrees",
                   "allowNix", "socket", "proxy"}
    /\ h.links \in [DOMAIN h.links -> Paths] /\ <<>> \notin DOMAIN h.links
    /\ DOMAIN h.links \cup h.dirs \cup h.files \cup h.worktrees \subseteq Paths
    /\ \A S \in {DOMAIN h.links, h.dirs, h.files, h.worktrees} : IsFiniteSet(S)
    /\ \A p \in h.dirs \cup h.files : FirstLink(p, h.links) = 0
    /\ h.workspace \in Paths /\ {h.common, h.socket} \subseteq Paths \cup {NoPath}
    /\ h.declared \in Seq(DeclaredNames)

(* What is above a name is a directory, and nothing is two things at once. *)
ASSUME TreeAssumption ==
  \A h \in Hosts :
    /\ \A p \in h.dirs \cup h.files \cup DOMAIN h.links : Ancestors(p) \subseteq h.dirs
    /\ (h.dirs \cup {<<>>}) \cap h.files = {}

(* What the launch has found out of it: the workspace resolved; a socket   *)
(* only where nix is allowed, resolved, and outside the masks when it is   *)
(* in /nix/var (host_state.py:262-271, 395-402, 422-428); git's own files  *)
(* files, none below a file.  The launch's bundle is there, and nothing    *)
(* has the name it gets inside.                                            *)
ASSUME LaunchAssumption ==
  \A h \in Hosts :
    /\ FirstLink(h.workspace, h.links) = 0
    /\ h.socket # NoPath => h.allowNix /\ h.socket \in h.files
    /\ h.socket # NoPath /\ Under(h.socket, NixVar) =>
         ~Under(h.socket, Tmp) /\ ~Under(h.socket, Home)
    /\ h.common # NoPath => h.common \in h.dirs
    /\ GitUsable(h) =>
         \A p \in ProtectedFiles(h) :
           p \notin h.dirs /\ Ancestors(p) \cap (h.files \cup ProtectedFiles(h)) = {}
    /\ h.proxy => Bundle \in h.files
    /\ \A p \in h.dirs \cup h.files \cup DOMAIN h.links \cup ProtectedFiles(h) :
         ~Under(p, Within(Tmp, "bundle"))

(* What the launcher itself needs is there under its real name; so are the *)
(* paths of the closure, some of which may be links.  git answers with a   *)
(* work tree that exists, and no link is on the way to what it protects.   *)
ASSUME PresentAssumption ==
  /\ \A p \in Closure : Parent(p) = Store /\ p # Store
  /\ ~Under(Tmp, Store) /\ ~Under(Tmp, NixVar)
  /\ \A h \in Hosts :
       /\ {Store, NixVar, Tmp, Home} \subseteq h.dirs /\ EmptyFile \in h.files
       /\ \A p \in Closure : AtFinal(p, h.links) /\ Exists(h, p)
       /\ GitUsable(h) =>
            /\ GrantableRepoRoot(h) \subseteq h.dirs
            /\ \A p \in ProtectedFiles(h) : FirstLink(p, h.links) = 0

Init ==
  /\ host \in Hosts
  /\ status = "reading"
  /\ args = <<>>
  /\ mounts = <<[at |-> <<>>, src |-> NoPath, rw |-> TRUE]>>
  /\ made = {}

-----------------------------------------------------------------------------
(* The arguments.                                                          *)

Bind(src, at) == [op |-> "bind", src |-> src, at |-> at, rw |-> TRUE]
RoBind(src, at) == [op |-> "bind", src |-> src, at |-> at, rw |-> FALSE]
Tmpfs(at) == [op |-> "tmpfs", src |-> NoPath, at |-> at, rw |-> TRUE]
MakeDir(at) == [op |-> "dir", src |-> NoPath, at |-> at, rw |-> TRUE]
Symlink(to, at) == [op |-> "symlink", src |-> to, at |-> at, rw |-> TRUE]

EachOf(S, Op(_)) ==
  LET seq == SetToSeq(S) IN [n \in 1..Len(seq) |-> Op(seq[n])]

(* Slip: a link is bound over, whether or not its parent is bound.         *)
DeclaredBindOverLink(h, d) ==
  LET bind(src) == IF d.mode = "rw" THEN Bind(src, d.path) ELSE RoBind(src, d.path)
  IN  CASE d.hops = <<>> -> <<bind(d.path)>>
        [] d.hops # <<>> /\ d.kind = "dir" -> <<bind(d.path)>>
        [] OTHER -> IF StrictlyUnder(Last(d.hops), Store)
                    THEN <<bind(Last(d.hops))>> ELSE <<>>

(* A link that an enclosing bind exposes is left alone; a linked file is   *)
(* bound from its landing, when that is in the store.                      *)
DeclaredBind(h, d) ==
  LET bind(src) == IF d.mode = "rw" THEN Bind(src, d.path) ELSE RoBind(src, d.path)
  IN  CASE d.hops = <<>> -> <<bind(d.path)>>
        [] d.hops # <<>> /\ AlreadyBound(Parent(d.path), BoundPrefixes(h)) -> <<>>
        [] d.hops # <<>> /\ d.kind = "dir"
             /\ ~AlreadyBound(Parent(d.path), BoundPrefixes(h)) -> <<bind(d.path)>>
        [] OTHER -> IF StrictlyUnder(Last(d.hops), Store)
                    THEN <<bind(Last(d.hops))>> ELSE <<>>

DeclaredBinds(h, mode, kind) ==
  FlattenSeq([n \in 1..Len(h.declared) |->
                LET d == h.declared[n]
                IN  IF d.mode = mode /\ d.kind = kind
                    THEN DeclaredBind(h, d) ELSE <<>>])

(* The directories above the store targets and above the names of linked   *)
(* files.                                                                  *)
ParentDirArgs(h) ==
  LET linked == {d \in DeclaredSet(h) :
                   d.kind = "file" /\ d.hops # <<>> /\ DeclaredBind(h, d) # <<>>}
      below == StoreTargets(h, BoundPrefixes(h)) \cup {d.path : d \in linked}
  IN  EachOf(UNION {ParentDirs(p, BoundPrefixes(h)) : p \in below}, MakeDir)

(* Slip: what does not exist yet is not protected.                         *)
GitBindsOfExisting(h) ==
  IF ~GitUsable(h) THEN <<>>
  ELSE <<Bind(h.common, h.common)>>
       \o EachOf(ProtectedDirs(h), LAMBDA p : RoBind(p, p))
       \o EachOf(ProtectedFiles(h) \cap h.files, LAMBDA p : RoBind(p, p))

(* An empty file stands in for a protected one that does not exist yet.    *)
GitBinds(h) ==
  IF ~GitUsable(h) THEN <<>>
  ELSE <<Bind(h.common, h.common)>>
       \o EachOf(ProtectedDirs(h), LAMBDA p : RoBind(p, p))
       \o EachOf(ProtectedFiles(h),
                 LAMBDA p : RoBind(IF p \in h.files THEN p ELSE EmptyFile, p))

StoreBinds(h) ==
  IF h.allowNix
  THEN <<RoBind(Store, Store), RoBind(NixVar, NixVar)>>
  ELSE <<Tmpfs(Store)>> \o EachOf(Closure, LAMBDA p : RoBind(p, p))

SocketBind(h) ==
  IF h.socket = NoPath \/ Under(h.socket, NixVar) THEN <<>>
  ELSE <<RoBind(h.socket, h.socket)>>

BundleBind(h) ==
  IF h.proxy THEN <<RoBind(Bundle, Within(Tmp, "bundle"))>> ELSE <<>>

(* Slip: the files before the directories, as they are read.               *)
BwrapArgsFilesFirst(h) ==
  StoreBinds(h) \o <<Tmpfs(Tmp), Tmpfs(Home)>>
    \o EachOf(GrantableRepoRoot(h), LAMBDA p : RoBind(p, p))
    \o <<Bind(h.workspace, h.workspace)>>
    \o DeclaredBinds(h, "rw", "file")
    \o DeclaredBinds(h, "ro", "file")
    \o DeclaredBinds(h, "rw", "dir")
    \o DeclaredBinds(h, "ro", "dir")
    \o ParentDirArgs(h)
    \o EachOf(StoreTargets(h, BoundPrefixes(h)), LAMBDA p : RoBind(p, p))
    \o EachOf(ParentSymlinks(h), LAMBDA l : Symlink(l.to, l.path))
    \o GitBinds(h)
    \o SocketBind(h)
    \o BundleBind(h)

(* Slip: git, the socket and the bundle before what is declared.           *)
BwrapArgsDeclaredLast(h) ==
  StoreBinds(h) \o <<Tmpfs(Tmp), Tmpfs(Home)>>
    \o GitBinds(h)
    \o SocketBind(h)
    \o BundleBind(h)
    \o EachOf(GrantableRepoRoot(h), LAMBDA p : RoBind(p, p))
    \o <<Bind(h.workspace, h.workspace)>>
    \o DeclaredBinds(h, "rw", "dir")
    \o DeclaredBinds(h, "ro", "dir")
    \o DeclaredBinds(h, "rw", "file")
    \o DeclaredBinds(h, "ro", "file")
    \o ParentDirArgs(h)
    \o EachOf(StoreTargets(h, BoundPrefixes(h)), LAMBDA p : RoBind(p, p))
    \o EachOf(ParentSymlinks(h), LAMBDA l : Symlink(l.to, l.path))

(* What comes later lies over what came before: the masks, the grants of   *)
(* the launch, what is declared, the links, and what must not be covered.  *)
BwrapArgs(h) ==
  StoreBinds(h) \o <<Tmpfs(Tmp), Tmpfs(Home)>>
    \o EachOf(GrantableRepoRoot(h), LAMBDA p : RoBind(p, p))
    \o <<Bind(h.workspace, h.workspace)>>
    \o DeclaredBinds(h, "rw", "dir")
    \o DeclaredBinds(h, "ro", "dir")
    \o DeclaredBinds(h, "rw", "file")
    \o DeclaredBinds(h, "ro", "file")
    \o ParentDirArgs(h)
    \o EachOf(StoreTargets(h, BoundPrefixes(h)), LAMBDA p : RoBind(p, p))
    \o EachOf(ParentSymlinks(h), LAMBDA l : Symlink(l.to, l.path))
    \o GitBinds(h)
    \o SocketBind(h)
    \o BundleBind(h)

-----------------------------------------------------------------------------
(* The inside, as the mounts so far make it.                               *)

(* The last mount at or above a path is the one that holds it.             *)
Holder(p) ==
  CHOOSE n \in {k \in 1..Len(mounts) : Under(p, mounts[k].at)} :
    \A k \in 1..Len(mounts) : Under(p, mounts[k].at) => k <= n

(* The path of the host that a path inside shows, or NoPath.               *)
Shows(p) ==
  LET m == mounts[Holder(p)]
  IN  IF m.src = NoPath THEN NoPath
      ELSE m.src \o SubSeq(p, Len(m.at) + 1, Len(p))

MadeAt(p) == {e \in made : e.mount = Holder(p) /\ e.at = p}

KindOf(p) ==
  LET s == Shows(p)
  IN  CASE p = mounts[Holder(p)].at /\ s = NoPath -> "dir"
        [] MadeAt(p) # {} ->
             IF \E e \in MadeAt(p) : e.to # NoPath THEN "link" ELSE "dir"
        [] s \in DOMAIN host.links -> "link"
        [] s \in host.dirs -> "dir"
        [] s \in host.files -> "file"
        [] OTHER -> "none"

LinkText(p) ==
  IF MadeAt(p) # {} THEN (CHOOSE e \in MadeAt(p) : TRUE).to
  ELSE host.links[Shows(p)]

Writable(p) == mounts[Holder(p)].rw

-----------------------------------------------------------------------------
(* Reading the host, the refusals, and bubblewrap.                         *)

ReadHost ==
  /\ status = "reading"
  /\ status' = "checking"
  /\ host' = [host EXCEPT !.declared = ReadAll(host)]
  /\ UNCHANGED <<args, mounts, made>>

(* On Linux there must also be a socket filter for the machine.            *)
Refused(h, answers, filter) == LaunchRefused(h, answers) \/ ~filter

Refuse(answers, filter) ==
  /\ status = "checking" /\ Refused(host, answers, filter)
  /\ status' = "refused"
  /\ UNCHANGED <<host, args, mounts, made>>

Compute(answers, filter) ==
  /\ status = "checking" /\ ~Refused(host, answers, filter)
  /\ status' = "mounting"
  /\ args' = BwrapArgs(host)
  /\ UNCHANGED <<host, mounts, made>>

Arg == Head(args)
Along(p) == {SubSeq(p, 1, k) : k \in 1..Len(p)}
Missing(p) == {q \in Along(p) : KindOf(q) = "none"}

(* The way to a path is clear: no link on it, no file above it, and what   *)
(* is missing of it can be created.                                        *)
Clear(p) ==
  /\ \A q \in Along(p) : KindOf(q) # "link"
  /\ \A q \in Along(p) \ {p} : KindOf(q) # "file"
  /\ \A q \in Missing(p) : Writable(q)

Created(p) == {[mount |-> Holder(q), at |-> q, to |-> NoPath] : q \in Missing(p)}

(* The source is resolved on the host when the arguments are parsed, and a *)
(* mount covers its like.                                                  *)
CanMount ==
  /\ Arg.op \in {"bind", "tmpfs"} /\ Clear(Arg.at)
  /\ Arg.op = "bind" => Exists(host, Arg.src)
  /\ KindOf(Arg.at) # "none" =>
       (KindOf(Arg.at) = "file") = (Arg.op = "bind" /\ IsFile(host, Arg.src))

CanCreate ==
  \/ Arg.op = "dir" /\ Clear(Arg.at) /\ KindOf(Arg.at) # "file"
  \/ Arg.op = "symlink" /\ Clear(Arg.at) /\ KindOf(Arg.at) = "none"

Mount ==
  /\ status = "mounting" /\ args # <<>> /\ CanMount
  /\ mounts' = Append(mounts, [at |-> Arg.at, rw |-> Arg.rw,
                               src |-> IF Arg.op = "tmpfs" THEN NoPath
                                       ELSE Landing(Arg.src, host.links)])
  /\ made' = made \cup Created(Arg.at)
  /\ args' = Tail(args)
  /\ UNCHANGED <<host, status>>

Create ==
  /\ status = "mounting" /\ args # <<>> /\ CanCreate
  /\ made' = made \cup
       (IF Arg.op = "dir" THEN Created(Arg.at)
        ELSE Created(Parent(Arg.at)) \cup
               {[mount |-> Holder(Arg.at), at |-> Arg.at, to |-> Arg.src]})
  /\ args' = Tail(args)
  /\ UNCHANGED <<host, status, mounts>>

Die ==
  /\ status = "mounting" /\ args # <<>> /\ ~CanMount /\ ~CanCreate
  /\ status' = "died"
  /\ UNCHANGED <<host, args, mounts, made>>

Start ==
  /\ status = "mounting" /\ args = <<>>
  /\ status' = "running"
  /\ UNCHANGED <<host, args, mounts, made>>

Next ==
  \/ ReadHost
  \/ \E answers \in Answers, filter \in BOOLEAN :
       Refuse(answers, filter) \/ Compute(answers, filter)
  \/ Mount
  \/ Create
  \/ Die
  \/ Start

Spec == Init /\ [][Next]_vars

-----------------------------------------------------------------------------
(* Properties, of a session that runs.                                     *)

(* Every name a program inside may come upon.                              *)
Names ==
  LET real == host.dirs \cup host.files \cup DOMAIN host.links
      shown(m) == IF m.src = NoPath THEN {}
                  ELSE {m.at \o SubSeq(p, Len(m.src) + 1, Len(p)) :
                          p \in {q \in real : Under(q, m.src)}}
      all == real \cup {e.at : e \in made}
               \cup UNION {shown(mounts[n]) \cup {mounts[n].at} : n \in 1..Len(mounts)}
  IN  UNION {Along(p) : p \in all}

InsideLinks ==
  LET at == {p \in Names : KindOf(p) = "link"} IN [p \in at |-> LinkText(p)]

(* Where the host is shown: names that no link lies on the way to.         *)
Shown ==
  LET links == InsideLinks
  IN  {p \in Names : Shows(p) # NoPath /\ FirstLink(p, links) \in {0, Len(p)}}

(* A walk inside ends at what the same walk on the host ends at.           *)
SeesHost(p, inside) ==
  /\ Whole(p, inside)
  /\ Shows(Landing(p, inside)) = Landing(p, host.links)
  /\ Exists(host, p)

(* What is bound and is none of the prefixes: the daemon's directory, the  *)
(* landings bound besides, and declared files, which nothing asks to be    *)
(* files (binds.py:56-78).                                                 *)
Overlooked(h) ==
  (IF h.allowNix THEN {NixVar} ELSE {})
    \cup StoreTargets(h, BoundPrefixes(h))
    \cup {d.path : d \in {e \in DeclaredSet(h) : e.kind = "file"}}

(* The argument is for a link that is exposed all the same, or for one to  *)
(* "/", which is no hop.                                                   *)
OnExposedLink ==
  /\ Arg.at \in DOMAIN host.links
  /\ \/ \E p \in Overlooked(host) :
          Under(Arg.at, p) /\ (Arg.op = "symlink" \/ Arg.at # p)
     \/ Landing(Arg.at, host.links) = <<>>

(* A link inside a declared directory leads to what the store has no more. *)
TargetGone ==
  \E l \in StoreTargets(host, BoundPrefixes(host)) :
    ~Exists(host, l) /\ Under(l, Arg.at)

(* The place to mount on is missing from what is bound read-only: that of  *)
(* the bundle, or of a git directory's file kept among the hooks of        *)
(* another.                                                                *)
PlaceReadOnly ==
  \/ /\ Arg.at = Within(Tmp, "bundle")
     /\ \E p \in {d.path : d \in {e \in DeclaredSet(host) : e.mode = "ro"}}
                 \cup GrantableRepoRoot(host)
                 \cup {q \in ProtectedDirs(host) : GitUsable(host)} :
          Under(Tmp, p)
  \/ /\ GitUsable(host) /\ Arg.at \in ProtectedFiles(host)
     /\ \E p \in ProtectedDirs(host) : Under(Arg.at, p)

(* bubblewrap gets through its arguments, whatever is declared inside      *)
(* whatever: it is never asked to mount on a link, nor to create what is   *)
(* there or cannot be (binds.py:4-8, 111-115, compute.py:236-237).  The    *)
(* exceptions are all the places where the code leaves it no way through.  *)
BwrapAccepts ==
  status = "died" => OnExposedLink \/ TargetGone \/ PlaceReadOnly

(* What was declared is there under the name it was declared by, with its  *)
(* content.  Left out are links out of the permitted paths, that are       *)
(* warned of, and declared files that are links out of the store: they get *)
(* no bind, and no warning when their landing is bound (binds.py:126-128). *)
DeclaredReachable ==
  status = "running" =>
    LET inside == InsideLinks
    IN  \A d \in DeclaredSet(host) :
      \/ SeesHost(d.name, inside)
      \/ \E n \in 1..Len(d.hops) : d.hops[n] \in Warned(host, BoundPrefixes(host))
      \/ d.kind = "file" /\ d.hops # <<>> /\ ~StrictlyUnder(Last(d.hops), Store)

(* Where a link leads is seen inside or warned of: a landing skipped as    *)
(* bound already really is (binds.py:68-69, shared.py:58).                 *)
LandingsSeenOrWarned ==
  status = "running" =>
    LET inside == InsideLinks
    IN  \A l \in Landings(host) \ Warned(host, BoundPrefixes(host)) :
          Exists(host, l) => SeesHost(l, inside)

(* The hooks directories that exist, and the config, config.worktree,      *)
(* alternates and pointer files of every git directory of the repository,  *)
(* there or not, are read-only at the names git finds them by, and the     *)
(* host's own when it has them, whatever is declared around them, while    *)
(* the rest can be written (README.md:428).  A hooks directory that does   *)
(* not exist is not covered: it can be made inside.                        *)
GitProtected ==
  status = "running" /\ GitUsable(host) =>
    /\ \A p \in ProtectedDirs(host) \cup (ProtectedFiles(host) \cap host.files) : Shows(p) = p
    /\ \A p \in ProtectedDirs(host) \cup ProtectedFiles(host) :
         KindOf(p) # "none" /\ ~Writable(p)
    /\ Shows(host.common) = host.common /\ Writable(host.common)

Protects(p) ==
  /\ GitUsable(host)
  /\ \E q \in ProtectedDirs(host) \cup ProtectedFiles(host) : Under(p, q)

(* What is declared and bound: all but links that an enclosing bind        *)
(* exposes, and files that are links out of the store (binds.py:122-128).  *)
Bound(d) == DeclaredBind(host, d) # <<>>

(* What is declared read-only cannot be written under that name: not even  *)
(* within a directory declared read-write.  The exceptions are what is     *)
(* declared read-write file by file, the git directory, and what gets no   *)
(* bind, and so no mode, of its own: a roDir that is a link within what is *)
(* bound can be written if its landing can, whatever binds.py:113-115      *)
(* says.                                                                   *)
RoKept ==
  status = "running" =>
    LET writable == {p \in Shown : Writable(p)}
        exempt ==
          {p \in writable :
             \/ GitUsable(host) /\ Under(p, host.common)
             \/ \E e \in DeclaredSet(host) :
                  e.mode = "rw" /\ e.kind = "file" /\ Under(p, e.path)}
    IN  \A d \in DeclaredSet(host) :
          d.mode = "ro" /\ Bound(d) =>
            \A p \in writable \ exempt : ~Under(p, d.path)

(* What is declared read-write and bound can be written, as can the        *)
(* workspace, except what is declared read-only within or above it, git's  *)
(* protected paths, the daemon's socket and the store.                     *)
RwKept ==
  status = "running" =>
    LET asked == {host.workspace}
                   \cup {d.path : d \in {e \in DeclaredSet(host) :
                                        e.mode = "rw" /\ Bound(e)}}
    IN  \A p \in asked :
          \/ Writable(p)
          \/ Protects(p) \/ p = host.socket \/ StrictlyUnder(p, Store)
          \/ \E d \in DeclaredSet(host) : d.mode = "ro" /\ Under(p, d.path)

(* The modes that were bound outlive the mounts that come after them,      *)
(* whatever is declared inside whatever (compute.py:222-244).              *)
ModesKept == RoKept /\ RwKept

(* What was declared, is linked to in the store, or is granted by the      *)
(* launch itself: with a repository, also each .git file that a            *)
(* core.worktree of it leads to, wherever that lies (git_state.py:82-95).  *)
GrantedNames(h) ==
  Closure \cup {h.workspace} \cup {d.name : d \in DeclaredSet(h)}
    \cup {l \in Landings(h) : StrictlyUnder(l, Store)}
    \cup (IF h.allowNix THEN {Store, NixVar} ELSE {})
    \cup ({h.socket} \ {NoPath})
    \cup (IF h.proxy THEN {Bundle} ELSE {})
    \cup (IF GitUsable(h)
          THEN {h.common, EmptyFile} \cup GrantableRepoRoot(h) \cup SubmoduleDotGit(h)
          ELSE {})

(* Nothing else of the host is inside: what a name shows is in a place     *)
(* that was granted (README.md:21).                                        *)
OnlyGranted ==
  status = "running" =>
    LET places == {Landing(g, host.links) : g \in GrantedNames(host)}
    IN  \A p \in Shown : \E place \in places : Under(Shows(p), place)

(* The daemon's socket and the CA bundle are inside, wherever the socket   *)
(* is and whatever is declared over it (compute.py:241-244).               *)
LateBindsSeen ==
  status = "running" =>
    /\ host.socket # NoPath => Shows(host.socket) = host.socket
    /\ host.proxy => Shows(Within(Tmp, "bundle")) = Bundle
=============================================================================
