--------------------------- MODULE SeatbeltProfile ---------------------------
(***************************************************************************)
(* The file system and the sockets of a session on macOS: the seatbelt     *)
(* profile that darwin/compute.py puts together from the sections of       *)
(* darwin/seatbelt.py, judged last match first, and the links that         *)
(* write.py plants in the session's own home.  Rules on what no declared   *)
(* path can meet (the system, devices, Mach, sysctls, ports) are left out. *)
(*                                                                         *)
(* A host has two fields more than for Linux: session, the directory of    *)
(* the session, and unix, "all" (allowUnixSockets), "browser" (chromium    *)
(* without it) or "none".                                                  *)
(***************************************************************************)
EXTENDS DeclaredPaths

CONSTANTS
  Hosts,        \* the hosts a launch may find
  SystemDirs    \* what every session may stat: /Users, /private, /private/var, ...

VARIABLES
  host,
  status,    \* "reading", "checking", "refused", "planting", "running" or "died"
  profile,   \* the rules, in their order
  toPlant,   \* the links of the home still to plant
  planted,   \* the links planted, from where they came to be to their text
  made       \* the directories made above them

vars == <<host, status, profile, toPlant, planted, made>>

SandboxHome(h) == Within(h.session, "home")
SandboxTmp(h) == Within(h.session, "tmp")
Passwd(h) == Within(h.session, "passwd")
CABundle(h) == Within(h.session, "bundle")
ProxyPid(h) == Within(h.session, "proxy.pid")

(* A host, before it is read.                                              *)
ASSUME HostsAssumption ==
  \A h \in Hosts :
    /\ DOMAIN h = {"links", "dirs", "files", "workspace", "declared", "common",
                   "worktrees", "worktreeConfig", "coreWorktrees",
                   "allowNix", "socket", "proxy", "session", "unix"}
    /\ h.links \in [DOMAIN h.links -> Paths]
    /\ DOMAIN h.links \cup h.dirs \cup h.files \cup h.worktrees \subseteq Paths
    /\ {h.workspace, h.session} \subseteq Paths
    /\ {h.common, h.socket} \subseteq Paths \cup {NoPath}
    /\ h.declared \in Seq(DeclaredNames)
    /\ h.unix \in {"all", "browser", "none"} /\ h.proxy \in BOOLEAN
    /\ h.socket # NoPath => h.allowNix

(* The session's home is by its real name and was made just now:           *)
(* _create_sandbox_dir refuses one that is there and resolves its path.    *)
ASSUME SessionAssumption ==
  \A h \in Hosts :
    /\ \A k \in 1..Len(SandboxHome(h)) : SubSeq(SandboxHome(h), 1, k) \notin DOMAIN h.links
    /\ \A p \in h.dirs \cup h.files \cup DOMAIN h.links : ~Under(p, SandboxHome(h))
    /\ SandboxTmp(h) \notin DOMAIN h.links

(* The workspace by its real name (os.path.realpath, host_state.py:399),   *)
(* and so git's answer.                                                    *)
ASSUME RealAssumption ==
  \A h \in Hosts :
    /\ <<>> \notin DOMAIN h.links
    /\ FirstLink(h.workspace, h.links) = 0
    /\ h.common # NoPath => h.common \in h.dirs /\ FirstLink(h.common, h.links) = 0

(* The steps down to the home are granted by no path declared inside it:   *)
(* the home is in /Users, or in a directory the session's is in as well.   *)
ASSUME HomeAssumption ==
  \A h \in Hosts : \A q \in Ancestors(Home) : q \in SystemDirs \/ Under(h.session, q)

(* A store path is a name right in the store.                              *)
ASSUME StorePathsAssumption ==
  \A c \in Closure : Under(c, Store) /\ Len(c) = Len(Store) + 1

ASSUME SystemAssumption == SystemDirs \subseteq Paths

Init ==
  /\ host \in Hosts
  /\ status = "reading"
  /\ profile = <<>>
  /\ toPlant = <<>>
  /\ planted = <<>>
  /\ made = {}

-----------------------------------------------------------------------------
(* Rules.  A rule is about a path alone, or about all that is under it.    *)

Rule(allow, ops, how, paths) ==
  [allow |-> allow, ops |-> ops, how |-> how, paths |-> paths]
Allow(ops, how, paths) == Rule(TRUE, ops, how, paths)
Deny(ops, how, paths) == Rule(FALSE, ops, how, paths)

Reading == {"stat", "read"}
Anywhere == {<<>>}

Matches(rule, op, p) ==
  /\ op \in rule.ops
  /\ \E q \in rule.paths : IF rule.how = "literal" THEN p = q ELSE Under(p, q)

Allowed(op, p) ==
  LET hits == {n \in 1..Len(profile) : Matches(profile[n], op, p)}
  IN  hits # {} /\ profile[Max(hits)].allow

-----------------------------------------------------------------------------
(* The sections.                                                           *)

PathsOf(S, kind) == {d.path : d \in {e \in S : e.kind = kind}}
InMode(h, mode) == {d \in DeclaredSet(h) : d.mode = mode}
RwDirs(h) == PathsOf(InMode(h, "rw"), "dir")
GitDirOf(h) == IF GitUsable(h) THEN {h.common} ELSE {}

ReadOnlyWithin(h, writable) ==
  {d \in InMode(h, "ro") : AlreadyBound(d.path, writable)}

DenyOn(ops, S) ==
  <<Deny(ops, "subpath", PathsOf(S, "dir")), Deny(ops, "literal", PathsOf(S, "file"))>>

(* Open mode allows everything, then takes Unix sockets back; restricted   *)
(* mode grants ports only.                                                 *)
Network(h) ==
  IF h.proxy THEN <<>>
  ELSE <<Allow({"bind", "connect"}, "subpath", Anywhere),
         Deny({"connect"}, "subpath", Anywhere)>>

SocketDirs(h) == {h.workspace, SandboxTmp(h)} \cup RwDirs(h)

UnixSockets(h) ==
  CASE h.unix = "all" ->
         <<Allow({"bind", "connect"}, "subpath", SocketDirs(h)),
           Allow({"connect"}, "subpath",
                 GrantableRepoRoot(h) \cup PathsOf(InMode(h, "ro"), "dir")),
           Allow({"connect"}, "literal", PathsOf(InMode(h, "ro"), "file"))>>
         \o DenyOn({"bind"}, ReadOnlyWithin(h, SocketDirs(h)))
    [] h.unix = "browser" ->
         <<Allow({"bind", "connect"}, "subpath", {SandboxTmp(h)})>>
    [] h.unix = "none" -> <<>>

NixSupport(h) ==
  IF h.socket = NoPath THEN <<>>
  ELSE <<Allow({"stat"}, "subpath", {NixVar}),
         Allow({"connect"}, "literal", {h.socket}),
         Allow(Reading \cup {"exec"}, "subpath", {Store})>>

(* By name: the session's directory also holds proxy.pid.                  *)
SessionFiles(h) ==
  <<Allow(Reading, "literal", {Passwd(h)} \cup (IF h.proxy THEN {CABundle(h)} ELSE {})),
    Allow(Reading \cup {"write"}, "subpath", {SandboxTmp(h)})>>

Traversal(h) ==
  <<Allow({"stat"}, "literal", Ancestors(Store) \cup {Store}),
    Allow(Reading, "literal", {<<>>}),
    Allow({"stat"}, "literal",
          SystemDirs \cup {Home}
            \cup (IF GitUsable(h) THEN {Parent(RepoRoot(h))} ELSE {}))>>

Workspace(h) ==
  <<Allow(Reading \cup {"write", "exec"}, "subpath", {SandboxHome(h)}),
    Allow(Reading \cup {"write"}, "subpath", {h.workspace}),
    Allow(Reading, "subpath", GrantableRepoRoot(h)),
    Allow(Reading \cup {"write"}, "subpath", GitDirOf(h))>>

Declared(h) ==
  <<Allow(Reading \cup {"write", "exec"}, "subpath", RwDirs(h)),
    Allow(Reading \cup {"write"}, "literal", PathsOf(InMode(h, "rw"), "file")),
    Allow(Reading, "subpath", PathsOf(InMode(h, "ro"), "dir")),
    Allow(Reading, "literal", PathsOf(InMode(h, "ro"), "file"))>>

Exposed(h) == IF h.allowNix THEN {Store} ELSE Closure

StoreGrants(h) ==
  <<Allow(Reading \cup {"exec"}, "subpath", Closure),
    Allow(Reading, "subpath", StoreTargets(h, Exposed(h)))>>

(* The directories between a path and the one that can be seen already.    *)
AncestorsTo(p, stop) == {q \in Ancestors(p) : ~(StrictlyUnder(p, stop) /\ Under(stop, q))}

(* Slip: the steps to a link, and not the link.                            *)
TraversalAncestorsOfLinks(h) ==
  LET to(S, stop) == UNION {AncestorsTo(p, stop) : p \in S}
      links == UNION {{d.parents[n].path : n \in 1..Len(d.parents)} : d \in DeclaredSet(h)}
  IN  to({h.workspace} \cup GitDirOf(h) \cup links \cup {d.path : d \in DeclaredSet(h)}, Home)
        \cup to(StoreTargets(h, Exposed(h)), Store)
        \cup {h.session} \cup Ancestors(h.session)

TraversalAncestors(h) ==
  LET to(S, stop) == UNION {AncestorsTo(p, stop) : p \in S}
      links == UNION {{d.parents[n].path : n \in 1..Len(d.parents)} : d \in DeclaredSet(h)}
  IN  to({h.workspace} \cup GitDirOf(h) \cup links \cup {d.path : d \in DeclaredSet(h)}, Home)
        \cup links
        \cup to(StoreTargets(h, Exposed(h)), Store)
        \cup {h.session} \cup Ancestors(h.session)

NestedReadOnly(h) ==
  DenyOn({"write"}, ReadOnlyWithin(h, {h.workspace} \cup GitDirOf(h) \cup RwDirs(h)))

GitProtection(h) ==
  IF ~GitUsable(h) THEN <<>>
  ELSE <<Deny({"write"}, "subpath", ProtectedDirs(h)),
         Deny({"write"}, "literal", ProtectedFiles(h)),
         Allow({"exec"}, "subpath", ProtectedDirs(h))>>

(* Slip: the sockets before the network they are an exception to.          *)
ProfileSocketsFirst(h) ==
  <<Allow({"exec"}, "subpath", {h.workspace})>>
    \o UnixSockets(h) \o Network(h) \o NixSupport(h)
    \o SessionFiles(h) \o Traversal(h) \o Workspace(h) \o Declared(h) \o StoreGrants(h)
    \o <<Allow({"stat"}, "literal", TraversalAncestors(h))>>
    \o NestedReadOnly(h) \o GitProtection(h)

(* Slip: what is protected is denied before what is declared is allowed.   *)
ProfileProtectionFirst(h) ==
  <<Allow({"exec"}, "subpath", {h.workspace})>>
    \o Network(h) \o UnixSockets(h) \o NixSupport(h)
    \o SessionFiles(h) \o Traversal(h) \o Workspace(h)
    \o NestedReadOnly(h) \o GitProtection(h)
    \o Declared(h) \o StoreGrants(h)
    \o <<Allow({"stat"}, "literal", TraversalAncestors(h))>>

(* The last rule that matches decides, so the order is what is enforced.   *)
Profile(h) ==
  <<Allow({"exec"}, "subpath", {h.workspace})>>
    \o Network(h) \o UnixSockets(h) \o NixSupport(h)
    \o SessionFiles(h) \o Traversal(h) \o Workspace(h) \o Declared(h) \o StoreGrants(h)
    \o <<Allow({"stat"}, "literal", TraversalAncestors(h))>>
    \o NestedReadOnly(h) \o GitProtection(h)

-----------------------------------------------------------------------------
(* The links of the session's home: what is declared under the real home   *)
(* is to be found there under the same name.                               *)

InHome(h, p) == SandboxHome(h) \o SubSeq(p, Len(Home) + 1, Len(p))

HomeSymlinks(h) ==
  LET below == Selected(h.declared,
                        {n \in 1..Len(h.declared) : Under(h.declared[n].path, Home)})
  IN  [n \in 1..Len(below) |-> [at |-> InHome(h, below[n].path), to |-> below[n].path]]

(* Slip: only what is declared twice is refused.                           *)
DeclaredTwice(h) ==
  \E m, n \in 1..Len(h.declared) :
    /\ m < n
    /\ Under(h.declared[m].path, Home) /\ Under(h.declared[n].path, Home)
    /\ h.declared[m].path = h.declared[n].path

(* Two paths under the home, one the same as the other or inside it.       *)
NestedConflict(h) ==
  \E m, n \in 1..Len(h.declared) :
    /\ m # n
    /\ Under(h.declared[m].path, Home) /\ Under(h.declared[n].path, Home)
    /\ Under(h.declared[m].path, h.declared[n].path)

Refused(h, answers) == LaunchRefused(h, answers) \/ NestedConflict(h)

ReadHost ==
  /\ status = "reading"
  /\ status' = "checking"
  /\ host' = [host EXCEPT !.declared = ReadAll(host)]
  /\ UNCHANGED <<profile, toPlant, planted, made>>

Refuse(answers) ==
  /\ status = "checking" /\ Refused(host, answers)
  /\ status' = "refused"
  /\ UNCHANGED <<host, profile, toPlant, planted, made>>

Compute(answers) ==
  /\ status = "checking" /\ ~Refused(host, answers)
  /\ status' = "planting"
  /\ profile' = Profile(host)
  /\ toPlant' = HomeSymlinks(host)
  /\ UNCHANGED <<host, planted, made>>

Links ==
  [q \in DOMAIN host.links \cup DOMAIN planted |->
     IF q \in DOMAIN planted THEN planted[q] ELSE host.links[q]]

(* Where a name of the home really is: its parents may be links by now.    *)
RealPlace(p) == Append(Landing(Parent(p), Links), Last(p))

Occupied(p) ==
  p \in host.dirs \cup host.files \cup DOMAIN Links \cup made
        \cup {SandboxHome(host)}

(* link.parent.mkdir(parents=True), then symlink.                          *)
PlantNext ==
  LET place == RealPlace(toPlant[1].at)
  IN  /\ status = "planting" /\ toPlant # <<>> /\ ~Occupied(place)
      /\ planted' = [q \in DOMAIN planted \cup {place} |->
                       IF q = place THEN toPlant[1].to ELSE planted[q]]
      /\ made' = made \cup {q \in Ancestors(place) : StrictlyUnder(q, SandboxHome(host))}
      /\ toPlant' = Tail(toPlant)
      /\ UNCHANGED <<host, status, profile>>

(* symlink finds something in its place.                                   *)
Die ==
  /\ status = "planting" /\ toPlant # <<>> /\ Occupied(RealPlace(toPlant[1].at))
  /\ status' = "died"
  /\ UNCHANGED <<host, profile, toPlant, planted, made>>

Start ==
  /\ status = "planting" /\ toPlant = <<>>
  /\ status' = "running"
  /\ UNCHANGED <<host, profile, toPlant, planted, made>>

Next ==
  \/ ReadHost
  \/ \E answers \in Answers : Refuse(answers) \/ Compute(answers)
  \/ PlantNext
  \/ Die
  \/ Start

Spec == Init /\ [][Next]_vars

-----------------------------------------------------------------------------
(* Properties, of a session that runs under the profile.                   *)

Names ==
  host.dirs \cup host.files \cup DOMAIN Links \cup made
    \cup (IF GitUsable(host) THEN ProtectedFiles(host) ELSE {})
    \cup {host.session, SandboxHome(host), SandboxTmp(host),
          Passwd(host), CABundle(host), ProxyPid(host)}

(* What the walk of a name looks at: every directory and link on its way.  *)
Visited(p) ==
  LET trail == Trail(p, Links)
      length(q) == IF FirstLink(q, Links) = 0 THEN Len(q) ELSE FirstLink(q, Links)
  IN  UNION {{SubSeq(trail[n], 1, k) : k \in 0..length(trail[n])} : n \in 0..MaxFollows}

Reached(p) ==
  /\ Whole(p, Links)
  /\ \A q \in Visited(p) : Allowed("stat", q)
  /\ Allowed("read", Landing(p, Links))

WarnedOf(hops) == \E n \in 1..Len(hops) : hops[n] \in Warned(host, Exposed(host))

(* The walk does not use up the links it may follow.                       *)
OneToSpare(p) ==
  \E n \in 1..MaxFollows : FirstLink(Trail(p, host.links)[n - 1], host.links) = 0

(* Every step to what is declared can be taken: by its name, by its place  *)
(* in the session's home, whose own link is one more to follow, and        *)
(* through the links right inside it into the store.  Left out are the     *)
(* landings that were warned of, and links inside that lead through a      *)
(* linked directory (compute.py:73-77).                                    *)
DeclaredReached ==
  /\ \A d \in DeclaredSet(host) : ~WarnedOf(d.hops) =>
       /\ Reached(d.name)
       /\ Under(d.path, Home) /\ OneToSpare(d.path) => Reached(InHome(host, d.path))
  /\ \A d \in DeclaredSet(host) :
       \A i \in d.inner :
         i.parents = <<>> /\ ~WarnedOf(i.hops) =>
           \A n \in 1..Len(i.hops) : Exists(host, i.hops[n]) => Reached(i.hops[n])
  /\ \A p \in {host.workspace, SandboxHome(host), SandboxTmp(host)} \cup GitDirOf(host) :
       Reached(p)

(* Nothing else of the host can be read, proxy.pid least of all, but for   *)
(* the names in "/", which a process lists as it starts (seatbelt.py:217). *)
NothingElseRead ==
  LET granted ==
        {host.workspace, SandboxHome(host), SandboxTmp(host)}
          \cup Closure \cup GrantableRepoRoot(host) \cup GitDirOf(host)
          \cup {d.path : d \in DeclaredSet(host)}
          \cup (IF host.allowNix THEN {Store} ELSE {})
          \cup {l \in Landings(host) : StrictlyUnder(l, Store)}
  IN  \A p \in Names :
        Allowed("read", p) =>
          p \in {<<>>, Passwd(host), CABundle(host)} \/ \E g \in granted : Under(p, g)

(* What was declared can be reached and read, step by step, and nothing    *)
(* else of the host can be read (seatbelt.py:178-180, compute.py:63-72).   *)
ReadsAsGranted == status = "running" => DeclaredReached /\ NothingElseRead

Protects(p) ==
  /\ GitUsable(host)
  /\ \/ \E q \in ProtectedDirs(host) : Under(p, q)
     \/ p \in ProtectedFiles(host)

RwFiles == PathsOf(InMode(host, "rw"), "file")
RwAsked == {host.workspace} \cup RwDirs(host) \cup GitDirOf(host)
Covers(d, p) == IF d.kind = "dir" THEN Under(p, d.path) ELSE p = d.path

(* What is declared read-only cannot be written, except where something    *)
(* asked for read-write lies in it, or is the very same file, or where the *)
(* session's own home and scratch directory lie in it.                     *)
RoKept ==
  \A d \in InMode(host, "ro"), p \in Names :
    Covers(d, p) /\ Allowed("write", p) =>
      \/ \E g \in RwAsked : StrictlyUnder(g, d.path) /\ Under(p, g)
      \/ p \in RwFiles
      \/ AlreadyBound(p, {SandboxHome(host), SandboxTmp(host)})

(* What is asked for read-write can be written, except git's protected     *)
(* paths and what is declared read-only inside something writable.         *)
RwKept ==
  \A p \in {q \in Names : AlreadyBound(q, RwAsked)} \cup RwFiles :
    \/ Allowed("write", p)
    \/ Protects(p)
    \/ \E d \in ReadOnlyWithin(host, RwAsked) : Covers(d, p)

NothingElseWritten ==
  \A p \in Names :
    Allowed("write", p) =>
      AlreadyBound(p, RwAsked \cup RwFiles \cup {SandboxHome(host), SandboxTmp(host)})

(* Git's protected paths cannot be written, and its hooks can be run: git  *)
(* takes one that cannot for one that is absent (seatbelt.py:317-324).     *)
HooksRunUnchanged ==
  /\ \A p \in Names : Protects(p) => ~Allowed("write", p)
  /\ GitUsable(host) =>
       \A p \in ProtectedDirs(host) : Allowed("read", p) /\ Allowed("exec", p)

(* The modes asked for outlive the rules that come after them, whatever is *)
(* declared inside whatever, and nothing else is writable                  *)
(* (compute.py:1-3 and 344-345, README.md:428).                            *)
WritesAsGranted ==
  status = "running" => RoKept /\ RwKept /\ NothingElseWritten /\ HooksRunUnchanged

(* Unix sockets: the daemon's answers in every mode; with them allowed,    *)
(* there is one to be made or met wherever a program may write, and none   *)
(* to be made in what is read-only inside; and nothing else is met         *)
(* (compute.py:301-303, seatbelt.py:380-383).                              *)
SocketsAsGranted ==
  status = "running" =>
    LET all == host.unix = "all"
        own == CASE all -> SocketDirs(host)
                 [] host.unix = "browser" -> {SandboxTmp(host)}
                 [] host.unix = "none" -> {}
        met == own \cup (IF all THEN GrantableRepoRoot(host)
                                      \cup {d.path : d \in InMode(host, "ro")}
                         ELSE {})
        readOnly(p) == all /\ \E d \in ReadOnlyWithin(host, own) : Covers(d, p)
    IN  /\ host.socket # NoPath => Allowed("connect", host.socket)
        /\ \A p \in Names :
             /\ Allowed("connect", p) => p = host.socket \/ AlreadyBound(p, met)
             /\ AlreadyBound(p, own) => Allowed("connect", p)
             /\ readOnly(p) => ~Allowed("bind", p)
             /\ AlreadyBound(p, own) /\ ~readOnly(p) => Allowed("bind", p)
             /\ host.proxy /\ Allowed("bind", p) => AlreadyBound(p, own)

(* The links are planted in the session's home, never through an earlier   *)
(* one into the real home, and none finds its place taken                  *)
(* (launch_checks.py:76-81).  The exception is the home itself declared:   *)
(* its link would be the session's home, which is there.                   *)
PlantsInside ==
  /\ \A p \in DOMAIN planted : StrictlyUnder(p, SandboxHome(host))
  /\ status = "died" => \E d \in DeclaredSet(host) : d.path = Home
=============================================================================
