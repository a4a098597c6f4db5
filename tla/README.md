# Models of agent-sandbox.nix

TLA+ modules for agent-sandbox.nix: the wrapper that launches a command in a
sandbox, the Python `prepare` step that reads the host and writes the launch's
configuration (bubblewrap's arguments and nftables rules on Linux, a seatbelt
profile on macOS), and the Go proxy that decides what the sandboxed program may
fetch. TLC checks each module on small instances. TLAPS proves safety
properties of nine of them, and that two of those implement the abstract
specification beside them, for every value of the constants.

Line references are to `src/launch.sh`, `src/launcher/...` and `src/proxy/main.go`
of the repository.

## 1. The system

### How the parts meet

```
 user ──► launch.sh (wrapper)
            │ 1 runs prepare and waits            prepare.py
            │                                       ├─ session_state: name, prune others, directory
            │                                       ├─ host_state / git_state / symlinks: read the host
            │                                       ├─ launch_checks: refuse or go on
            │                                       ├─ session_state: start the proxy, wait for its port
            │                                       └─ launch_config: compute and write the command line
            │ 2 writes launch.pid, arms the EXIT trap
            │ 3 reads the command line back (mapfile), runs it ──► bwrap / sandbox-exec
            │                                                        │ HTTP(S) through the proxy
            │                                                        ▼
            │                                                      proxy ──► origins
            │ 4 trap: cleanup.py kills the proxy, removes scratch directories
```

Launches share one sessions root without a lock: each one's prune reads and
removes the directories of the others. The wrapper, prepare and cleanup
communicate through files of the session directory (`launch.pid`, `proxy.pid`, the
argument files). The proxy's connection handlers are goroutines that share a
channel of slots, two `sync.Map`s and a counter.

### Inventory

| Part | State | Operations | What is hard | What makes it correct |
|---|---|---|---|---|
| wrapper (`launch.sh`) | the step it is at; `launch.pid`, the trap | run prepare, mark, arm, read, run, clean | signals between any two steps; the files it reads may have been pruned | what prepare left it to tear down is torn down; the command it runs is the sandboxed one |
| prepare (`prepare.py`) | an `ExitStack` of undo callbacks | the steps in order, unwinding on failure, `pop_all` at the end | failure at each step, on two platforms with different orders | no step's resources survive a failed launch |
| session state (`session_state.py`) | the sessions root; one directory per launch | name, list, judge, unlink, remove; start the proxy | other launches do the same at once; verdict and removal are apart; clock set back | the newest and the running are kept; a silent proxy does not hold the launch |
| cleanup (`cleanup.py`) | none | kill by `proxy.pid`, remove scratch | reads files that may have gone | the proxy ends with the launch |
| launch log | `launch.log` | append | none: its writes swallow errors | |
| policy table (`main.go`, `loadConfig`, `lookupPolicy`) | domain → base policy and path rules | fold a key, look up a host and path | Go's map order; duplicates; "*"; inheritance by subdomains | the table does not depend on the order; gates admit what some filter could |
| one connection (`handle`, `handleMITM`) | the stream, the upstream connection, the request being served | gate, filter, resolve, dial, forward, relay | pipelined requests, refused bodies, a resolver that changes its answer, interim responses | what leaves has passed its own filter and goes to a vetted address; requests are passed on and answered in turn |
| accept loop (`serve`) | slots, backoff | accept, refuse, fail, back off | many ways out of a handler, deadlines here and none there | slots exact, the loop never stalls |
| certificates, allowed log (`mintCert`, `firstContact`) | cache, its counter, recorded requests | load, mint, check, store, count; record | no lock across the steps | bounded, stable, logged once |
| header limit (`headerLimitReader`) | bytes left | read, reset | a buffered reader above it reads ahead | the limit is on heads, not bodies |
| path normalisation | none | decode, collapse | string work | an unreadable path is given no rule |
| symlink walk (`symlinks.py`) | prefix walked, names left, links met | follow, step, stop | chains, cycles, links among a link's target | agrees with the kernel; what is recorded replays the walk |
| host and git state | a record of the host | read | links inside declared directories; work trees | |
| launch checks | none | refuse | | unknown daemons and builds are refused, or asked about |
| Linux binds (`linux/binds.py`, `compute.py`, `shared.py`) | the argument list | decide on each bind, order them | later mounts cover earlier ones; links; nesting | what was declared is there, in its mode, and nothing else |
| Linux network rules (`nftables.py`, `apply_network_rules.py`), seccomp | the ruleset, two sysctls, the namespace's addresses, a descriptor; connection tracking | set up, load, hand on, exec | first match wins, after the DNAT; a step of the boot fails | traffic to the proxy and the declared ports only, and those work |
| macOS configuration (`darwin/compute.py`, `seatbelt.py`, `write.py`) | the profile, the links of the session's home | emit, plant | last match wins; every directory and link on the way must be readable; a link planted through another | as for the Linux binds, and the real home is not written to |
| nix build, build spec, entry script | none | evaluated or parsed once | | |

`PROJECT.json` lists the same parts with what is modelled of each, and every
hazard with its line and the properties on it.

## 2. The modules

| Module | Models | Composed of |
|---|---|---|
| `SessionLifecycle`, `SessionLifecycleProofs` | wrapper, prepare, session state, cleanup, proxy process, several launches at once | |
| `SlotPool` | abstract: what `serve` promises of its slots | |
| `ProxyServer`, `ProxyServerProofs` (with `CertCache`) | accept loop, slots, where handlers wait | implements `SlotPool` |
| `CertCache` | `mintCert`, `firstContact` over concurrent handlers | |
| `PolicyTable` | lookups and filters, no state | used by the next three |
| `ProxyConfig`, `ProxyConfigProofs` | `loadConfig`, key by key | `PolicyTable` |
| `TakeTurns` | abstract: what a connection promises of its requests | |
| `ProxyExchange`, `ProxyExchangeProofs` | one connection, first request to last | `PolicyTable`; implements `TakeTurns` |
| `HostPaths`, `HostPathsProofs` | paths, the kernel's walk of one, no state | used by the next four |
| `SymlinkWalk`, `SymlinkWalkProofs` | `resolve_path`, follow by follow | `HostPaths` |
| `DeclaredPaths` | what a launch reads of the host, refuses and finds covered, no state | `HostPaths` |
| `LinuxBinds`, `LinuxProofs` | the bubblewrap arguments, bubblewrap applying them | `DeclaredPaths` |
| `SeatbeltProfile`, `SeatbeltProfileProofs` | the macOS profile and the links of the session's home | `DeclaredPaths` |
| `NetworkRules` (proofs in `LinuxProofs`) | the boot of the network namespace, the ruleset, the traffic under it | |

`MC*` modules give the constants their values for TLC; `MCLaunchHosts` holds the hosts both
platforms are checked on.

In every module, an operator under a comment `Slip:` is a plausible mistake
in the definition that follows it. None of them is part of the specification:
they are there so that each property can be seen to fail when the code is
wrong in the way it guards against.

### SessionLifecycle

`pc[l]` is the point launch `l` has reached in the wrapper or in prepare,
whichever runs; the step names follow the calls of `prepare.py` and the lines of
`launch.sh`. `dir`, `files` and `proxy` are the session directory, what is in it and
the proxy child; `undo` is the `ExitStack`. `queue` and `victim` are the local
variables of the prune's loop, so that other launches act between the
listing, the verdict, the unlinking and the `rmdir`. `rank` is the session's
place in name order: names carry the start time, and any launch may take any
free place, which is what a clock set back does. `Platform` chooses where
the scratch directories are made. `exposed` is a history variable: the
sessions judged over before their `launch.pid` was written.

Each undo is registered in the step the code registers it in. On Linux the NSS database's directory is made
before certutil fills it and goes on the stack only after, so that a failing certutil is a step of its own
between the two.

`Faults` names the disturbances a run admits: "late error" (a print that fails after
`stack.pop_all()`), "interrupt" (`KeyboardInterrupt` anywhere in prepare) and
"signal" (to the wrapper alone). With the empty set, launches fail only as the
code provides for.

### ProxyServer

`phase[c]` is where the handler of connection `c` waits. Each wait under a deadline is
an action that may always end; each wait without one ends only by what the
peer does. Both `defer`s of a handler are steps of their own (`Close`, `Release`), so a
slot can be seen between them. `acceptor`, `retryDelay` and `logged` are the accept
loop's. What a request is allowed is left open here; it is `ProxyExchange`'s subject.

The two halves differ in whose the upstream connection is. `handleMITM` dials its own and closes it when it returns.
The plain half borrows one from `directTransport`, whose pool outlives handlers and slots: a connection whose response was
read to its end goes to a request that waits for one to the same address (`HandOver`), or is kept (`idle`, `Keep`), and a request finds a
kept one before it dials (`GetConn`). A dial whose request was served by another connection meanwhile goes on (`late`,
`LateDial`). `reused` marks the connections that had served before, which are those the transport may replace
when they break (`PlainRetry`).

### CertCache

The five steps of `mintCert` (load, mint, read the counter, store, count) and the
record of an allowed request are separate actions; each map or counter
operation is atomic, as `sync.Map` and `atomic` are, and nothing longer is.

### PolicyTable, ProxyConfig, ProxyExchange

A host is a sequence of labels and a path a sequence of segments, so that
`HasSuffix(host, "." + d)` and the path prefix rule become `IsSuffix` and
`IsPrefix`. A path `normalisePath` cannot settle is `Unreadable`. `ProxyConfig` takes the keys of
the JSON in an open order. `ProxyExchange` has the client's stream as a sequence of
heads and bodies, written ahead of the answers if the client likes; each lookup of a name has
an answer of its own; the origin answers what it was
`asked`, in order, and in the modes of `Interim` sends an interim response first. `Forward` is `handleMITM`'s, which writes to a
connection of its own, once. `RoundTrip` and `Retry` are `directTransport`'s: the connection may be an idle one of an earlier request
(`idle`), and when such a one has been closed by the origin the transport goes for another, where nothing was written yet or the request is
`Replayable`. It also reads past interim responses, which `http.ReadResponse` does not.

### HostPaths, SymlinkWalk

A host is a map from the paths of its links to their text made absolute, with `.` and
`..` collapsed. `HostPaths` defines the kernel's walk by itself (`Trail`, `Landing`); `SymlinkWalk`
translates the loop of `resolve_path` step by step; the properties compare the two.

### DeclaredPaths, LinuxBinds

A host is a record: its links, directories and files, the workspace, the
declared paths, what git says (its directory, work trees, the git directories with `extensions.worktreeConfig`
and those with a `core.worktree`), the daemon's socket and the network mode. `DeclaredPaths`
holds the decisions (bound prefixes, landings, protected paths of git);
`BwrapArgs` is the argument list of `compute.py` in its order. bubblewrap itself is not
in this repository and is modelled from how the code uses it: a later mount
at or above a path holds it; a source is resolved on the host; it dies when it is asked
to mount on or through a link, to create something in a read-only mount, or to
make a link where there is something else.

### SeatbeltProfile

The same hosts and decisions, on macOS. A rule allows or denies a set of operations (look at,
read, write, run, connect to or make a socket) on names or on whatever is under them; `Profile` is the list of
`compute.py` in its order, and `Allowed` takes the last rule that matches, as seatbelt does. `planted` and
`made` are what `write.py` puts into the session's own home, one link at a time, through
whatever links are there by then. The kernel looks at every directory and link on the way to a name
(`Visited`), so a name is reached only if each may be looked at. `SystemDirs` are the directories every
session may look at (`/Users`, `/private` and so on, `seatbelt.py:223-232`).

### NetworkRules

`stage` is where `apply_network_rules` is; each of its steps may fail. A chain is the list of rules of
`nftables.py`, first match wins; the addresses of a packet are taken before or after the translation as
the hook has it. `ct` is connection tracking: who opened a flow, and whether the other side has
spoken. The program sends anything from any port, peers call published ports and answer, and entries
may be forgotten at any time.

### SlotPool, TakeTurns

Each says in a page what its implementation promises to the outside. `SlotPool`: a client that
arrives is admitted while there is a slot, and leaves only with its upstream connection closed, kept among a bounded
number of spare ones to its address, or passed to another holder.
`TakeTurns`: requests are taken up in order, each is passed on once, or again if it bears repeating; each gets one
answer, to the request in hand unless early answers have put the connection out of step, by one request
for each; and a refusal is the last answer. `Pool` and `Turns` in the implementing modules are the
refinement mappings: holders are the handlers with a slot, `passed` and `answered` count what was
forwarded and delivered, `again` the copies of the transport, `early` the interim responses that were taken for answers.

## 3. The runs

| Run | Instance | States | Shows |
|---|---|---|---|
| `lifecycle` | 3 launches, 1 retained, Linux, no faults | 4.2 M | prune and teardown under three overlapping launches, whichever step of prepare fails |
| `lifecycle_faults` | 2 launches, 0 retained, macOS, all faults, fair | 483 k | a session with a live wrapper keeps its files whatever is signalled; launches settle, teardowns end |
| `running_pruned` | as `lifecycle` | | the README's claim fails (finding) |
| `server` | 3 connections (2 plain, to one address, and 1 CONNECT), 2 slots, 1 idle connection kept, 2 errors, fair | 350 k | the slots, the transport's pool, the log; the loop never stalls, slots come back |
| `cert_cache` | 3 handlers, 4 hosts, cache of 1 | 81 k | bound and stability of the cache, one log line |
| `proxy_config` | 2 domains, 3 paths, 2 spellings, 3 keys | 654 k | order independence, the gates against the filters |
| `exchange` | 3 requests of 9 kinds, 3 hosts, 2 addresses, interim responses in both modes, 1 reused connection, fair | 405 k | policy, addresses, framing, turns, answers |
| `continue` | 1 request, interim responses on HTTPS | | a client and the proxy wait for each other (finding) |
| `walk` | every map of up to 4 links over 2 names, 3 follows | 172 k | agreement with the kernel, replay |
| `binds` | up to 2 declared paths, 7 repositories, 20 maps of links | 42 k | what bubblewrap mounts is what was declared |
| `seatbelt` | the hosts of `binds`, up to 3 declared paths outside the home, the session's directory beside them or inside them, every setting of the sockets | 26 k | what the profile allows is what was declared |
| `network` | every setting over 2 ports, 2 flows at once | 17 k | what leaves was permitted, what is granted works |

`tlc -config <Run>.cfg MC<Module>` runs one of them, `tlapm <Module>Proofs.tla` checks the
proofs of a module. The platforms order the steps of prepare differently. `lifecycle` is on Linux, where a failing certutil
leaves its directory; `lifecycle_faults` is on macOS, where the scratch directories exist before the proxy
does. Each safety property is a theorem for either.

### The properties

*SessionLifecycle.* `NewestKept`: a session that some prune has removed, or still
means to, has at least `Retention` sessions with newer names. `RunningKept`: while the
sandbox runs and its wrapper is there, the directory has every file the
launch needs, unless the session was `exposed`. `SandboxedUnlessExposed`: the wrapper never
runs its bare arguments (the argument files were there when `mapfile` read
them), with the same exception. `NoOrphanUnlessExposed`, `ScratchRemovedUnlessExposed`: a launch that has ended, whichever
step of prepare failed or however its sandbox ended, leaves neither its proxy nor its scratch directories. Both except an exposed session that got to
its sandbox and whose `proxy.pid`, or cleanup list, the prune took; the second also the directory of an NSS
database that certutil failed to fill. `LaunchSettles`: a prune reaches the end of its list, and a launch past its checks
runs its command or ends, even where the proxy hangs. `TeardownEnds`: the end of the sandbox ends the launch,
and the trap ends the proxy.

*ProxyServer.* `KeepsPool`: seen from outside, `serve` is a `SlotPool` (no client is refused while there
is a slot, slots are neither lost nor doubled, and no handler ends with an upstream connection that is nobody's).
`DescriptorsBounded`: at most `maxConns` handlers have an upstream connection, and at most `MaxIdle` are idle to each address.
That is not a bound on all that is open: dials the transport no longer needs go on besides, each for its
deadline, and nothing limits the addresses (`MaxIdleConns` is not set, `main.go:168-174`).
`StormLoggedOnce`: one backoff line at most between two accepted connections.
`AcceptProgress`: a client that connects is taken or refused. `SlotComesBack`: no handler
stays for ever in a wait with a deadline, in a tunnel one of whose peers has gone, or
anywhere once both have.

*CertCache.* `CacheBounded`: at most `maxCachedCerts` plus the handlers less
one, a bound the run reaches. `CacheStable`: a cached certificate is never
replaced. `LoggedOnce`: a host is logged once, however many handlers reach it at once.
(`SizeTrails`, proved only: the counter is behind the map by exactly the handlers between
store and count.)

*ProxyConfig.* `OrderImmaterial`: whatever order the keys come in, the table, or the
refusal, is the one the keys determine. `GateCoversFilters`: a connection is let in
whenever some request over it could pass. `FallsBackNoFurther`: a request whose path cannot be
read gets no policy from an entry with path rules, and a subdomain nobody
lists has the policy of the domain above it.

*ProxyExchange.* `ForwardedWithinPolicy`: each request forwarded keeps to the policy of its
own path, not of the first request's. `DialledVetted`: the address dialled is one
that was judged, or the redirect. `RefusedTouchNothing`: no lookup and no connection before
some request has passed. `BodyNeverARequest`: the body of a refused request is
never read as a head. `KeepsTurns`: the connection is a `TakeTurns` (one request in hand at a time,
passed on once but for the transport's copies of one that bears them, and answered before the next, each answer as far behind as
there were interim responses taken for answers).
`RequestAnsweredUnlessInterim`: what was forwarded is answered, or the connection ends, unless an interim response has been
taken for an answer; `RequestAnswered`, without the exception, is the property of the finding.

*SymlinkWalk.* `AgreesWithKernel`: the walk is whole exactly when the kernel's is, and lands
there. `ReplaysWalk`: with only the recorded links made, the declared path leads to the
same landing. `RecordsRealNames`: nothing is recorded that lies behind a link the walk
did not follow.

*LinuxBinds.* `BwrapAccepts`: bubblewrap gets through its arguments. `DeclaredReachable`: a declared name
shows its content. `LandingsSeenOrWarned`: a link's landing is seen or warned of.
`GitProtected`: for every git directory of the repository, the hooks directory if it exists, `config`, `config.worktree`, `alternates` and the
pointer files of work trees and submodules are read-only, and the host's own where it has them, while the rest can be written. `ModesKept`
(`RoKept` and `RwKept`): the modes of what is declared and bound, links included, survive the mounts that come later. `OnlyGranted`: nothing else of the host is
inside: what any name there shows of the host is where a name granted (`GrantedNames`: declared, linked to
in the store, or the launch's own, the `.git` files that `core.worktree` settings lead to among them) leads, or below it. `LateBindsSeen`: the socket and the CA bundle are not covered.

*SeatbeltProfile.* `ReadsAsGranted`: each step of the walk to what was declared, and to the landings of links right
inside it, may be taken, and nothing else of the host can be read. `WritesAsGranted`: what is declared read-only cannot be
written unless something read-write lies in it, what is read-write can, git's configuration and the hooks directories that
exist cannot, and the hooks can still be run. `SocketsAsGranted`: the daemon's socket answers in every mode; others can be
met and made where a program may write and nowhere else, or nowhere. `PlantsInside`: the links of the session's
home stay in it, and none finds its place taken.

*NetworkRules.* `EgressWithinPolicy`: whatever the program sends and whoever has called it, a flow that
reaches the outside was permitted or was opened by a peer of a published port, and nothing
flows before the rules are loaded. `GrantedPasses`: the proxy, the allowed host ports by either name, and the callers
of published ports are reached, from an address they can answer.

### Bounds, and why they are enough

- Three launches are one being pruned, one pruning, and one that makes the
  first no longer the newest or prunes the same directory at once;
  `Retention` 1 makes the boundary between kept and removed fall among them. With two,
  `Retention` 0 lets each remove the other. `MaxRank` is the number of launches: only the
  order of names matters.
- Two slots and three connections give two handlers at once, a refusal, and a slot that is used again; two plain requests to one
  address are what passing a connection on, keeping it and retrying need, and one kept connection puts the limit
  among them. The backoff's delays are constants: 5 and a ceiling of 8 let the second error in a row reach the ceiling,
  as the ninth does in the code (5, 10, ... 640, 1000 ms). The theorems hold for any of these numbers.
- A cache of 1 with three handlers reaches the excess of two; a fourth host is one
  that is never cached.
- A domain, its subdomain and "*" are all the ways an entry can apply to a host;
  three keys are a rule, its base and a duplicate or a second domain.
- Three requests are one before, one refused, one behind. The requests are one of each way
  through the filters.
- Links at four places over two names contain chains, cycles, links in links' targets and
  a link crossed twice; three follows (forty in the code) put the budget's
  edge inside them. `LinuxBinds` uses four, enough for its maps.
- Two declared paths are what nesting, order and overlap need; each is taken in both
  modes and kinds. Outside the home, three
  are taken one inside another on macOS, where a rule may undo the one before it. `OddHosts` has a host for each
  exception of `BwrapAccepts`, so that none of them is there for nothing. The home is two
  directories deep, as `/Users/name` is, so that there is something above it to look at. The lists of hosts
  are in `MCLaunchHosts` and `MCSeatbeltProfile`.
- Two ports, one of them the proxy's, are every way a port can be granted, published, both or
  neither; two flows at once are a caller and the connection that would pass for its reply.

### Fairness

Every fairness condition is weak and on a process the program schedules.

- *Launches*: the launcher's own processes take their next step, except at
  the confirmation prompts, which wait for the user. Nothing is assumed of the
  user, the sandboxed program or the proxy: that `LaunchSettles` holds of a
  proxy that hangs is due to the deadline alone.
- *Server*: goroutines are scheduled and deadlines fire. A wait without a deadline
  ends, as far as the code goes, only once the peer it reads from is gone: a silent
  peer owes nothing. So the wait for a response over HTTPS (`main.go:1002`) has no
  liveness property of its own, although `main.go:109` gives such a wait a bound: the bound is
set on the transport of the plain-HTTP path alone, and `SlotComesBack` needs both peers gone.
- *Exchange*: the handler runs when it is not waiting for a peer; an origin that has not
  gone answers what it was asked. The client owes nothing.

`CHECK_DEADLOCK FALSE` appears where the system stops of itself: launches
that have exited, connections that have closed, a table built, a session up. `cert_cache`, whose
handlers serve for ever, is checked for deadlock.

### Findings

1. `running_pruned`. The README (line 535) says a session whose sandbox still runs is
   never pruned, whatever its age. A session has no `launch.pid` until prepare has returned, and
   `_is_session_live` takes that for a session that is over; a prune that judges it in
   that window removes it after its sandbox has started. The session must be
   outside the newest 25 names. The window is between the making of the directory and the write of `launch.pid`, and
   the prompts fall in it.
2. `continue`. `http.ReadResponse` returns an interim response (100, 103) as the response;
   `handleMITM` relays it and goes back to reading the next request, and the final response
   stays in the upstream buffer.

Where a property excludes a case, the code does less there than one would
expect. These are readings of the code that the properties step around:

- `launch.sh:62-63` says prepare tears down its own failures. Three it does not. After `stack.pop_all()` (`prepare.py:99`) it still prints,
  and a print that fails, or an interrupt, leaves the proxy running with no trap armed yet: the two teardown properties are of
  runs without faults. And a certutil that fails leaves the directory it was to fill
  (`session_state.py:246-262`), which `prepare.py:84-85` has not registered yet.
- `NoOrphanUnlessExposed` and `ScratchRemovedUnlessExposed` except what finding 1 leaves behind: with the directory go `proxy.pid`
  and the list the trap would read.
- `KeepsTurns` counts the interim responses of finding 2, behind which every answer is to an earlier request
  than the one in hand, and the transport's retries: a replayable request may reach the origin more than once
  (`main.go:880`).
- `GitProtected` covers the hooks directories that exist. A missing `hooks/` gets no bind (`git_state.py:172-174`) and can be made inside a
  writable git directory, although the README (lines 428 and 604) promises `hooks/` read-only.
- `BwrapAccepts` excludes what the code leaves bubblewrap no way through. `OnExposedLink`: a bind that is none of the prefixes
  (`binds.py:56-78`) exposes a link, and an argument for that link is emitted all the same: `/nix/var` where nix is allowed
  (`compute.py:206`), a landing bound besides, or a declared file that is a directory; or the declared path is a link to `/`,
  which is no hop. `TargetGone`: a link inside a declared directory leads to a store path that is gone; its landing is bound
  (`shared.py:46-69`) though nothing asks whether it is there, which `symlinks.py:137-139` leaves to a later check, and the launch dies of a
  link that "says nothing about the declared directory" (`host_state.py:176`). `PlaceReadOnly`: the CA bundle's place in `/tmp`, where
  `/tmp` lies in something read-only (`compute.py:251-255`), or a git directory's missing file, where it would lie in the hooks of another.
- `DeclaredReachable` excludes declared files that are links out of the store: they get no bind
  (`binds.py:126-128`), and no warning when their landing is under a declared directory.
- `RoKept` and `RwKept` on Linux are about what gets a bind. A declared link that an enclosing bind exposes gets none
  (`binds.py:122-123`), nor does a declared file that is a link out of the store (`126-128`): its landing has whatever mode it has there. A `roDirs` link
  inside a read-write directory, leading to something read-write, can be written through, although the comment at `binds.py:113-115` says a roDir
  keeps its mode inside a read-write parent.
- `OnlyGranted` counts as granted the `.git` file that the `core.worktree` of a submodule's git directory leads to. It is resolved
  wherever it leads (`git_state.py:82-95`) and bound, so a file in no declared place may be shown, read-only; the README (line 416) speaks of
  the submodule itself only.
- `RoKept` on Linux excludes what lies below a read-write "file" that is a directory: the launcher only asks
  that a declared file exists (`host_state.py:89-107`), so all of that directory is bound and can be written.
- `RwKept` excludes what is declared read-only at or above: a read-only directory above the
  project covers the project (`compute.py:228-231`).
- `ReplaysWalk` excludes a path that crosses its own final link.
- `ReadsAsGranted` excludes a link inside a declared directory that leads through a linked directory: only the
  landing is granted (`darwin/compute.py:75`), where Linux makes the links on the way too (`binds.py:94-107`). What
  is declared by way of a linked directory is planted under its physical name only
  (`darwin/compute.py:112`).
- `RoKept` on macOS excludes a file declared both read-write and read-only: it stays writable, although the
  comment at `seatbelt.py:279` says the nested protection covers it.
- `RoKept` on macOS also excludes the session's own home and scratch directory, where a read-only directory lies
  around them (`/tmp` or the cache directory declared): they stay writable, as the launch needs them to.
- `ReadsAsGranted` excludes the place in the session's home of a path whose own walk follows as many links as the
  kernel allows: the link planted there is one more (`OneToSpare`).
- `ReadsAsGranted` excludes the names in `/`, which every process lists as it starts (`seatbelt.py:217`).
- `PlantsInside` excludes the home itself declared: its link would be the session's home, and the launch
  stops.
- A directory declared read-write inside one declared read-only is writable on macOS and covered on Linux
  (`binds.py` mounts the read-only one later). No document says which is meant.
- Services inside cannot reach one another on a port that is also an allowed host port: the DNAT takes it to the
  host first (`nftables.py:58`).
- A daemon's socket elsewhere than in `/nix/var` may be connected to, but nothing grants the way to it
  (`seatbelt.py:366`).

## 4. The proofs

The theorems hold for every value of the constants that satisfies the named
assumptions of the modules: finite sets of launches, connections and handlers, naturals for the
bounds, one of the two platforms.

**SessionLifecycleProofs.** `TypeCorrect` by steps. `NewestAlwaysKept` needs `PruneInv`: what a prune has
in its queue or in hand had, when it was listed, enough newer sessions, names never change
and sessions are never unmade, and the queue holds only the older ones of
what was listed. `ProxyNeverOrphaned` (`NoOrphanUnlessExposed`, assuming `Faults = {}`) needs `OwnerInv`, the conjunction of `ControlInv` (what
`undo`, `sandbox` and `proxy` can be at each point), `PruneSafe` (a session in a prune's hands is
one that was over, or is `exposed`), `DirectoryInv` (a session that no prune may touch has its
directory from its creation on) and `ProxyInv` (at each point, who owns the proxy). `ScratchAlwaysRemoved` (`ScratchRemovedUnlessExposed`) adds to
it, under the same assumption, `ScratchInv`: where a session may have scratch directories at all, that their removal is in `undo` until
prepare commits, except while certutil fills the database, and that what the trap reads to find them is there from then on unless the session is exposed. None of these is
inductive alone: that the trap finds `proxy.pid` on disk depends on the prunes of the other
launches, which depends on what those saw. `RunningAlwaysKept` is for any `Faults`, with `KeptInv`: a killed
wrapper may leave prepare, cleanup or the sandbox behind, so the control part is
weaker and is tied to `alive`. `AlwaysSandboxedUnlessExposed` is of the same invariant.

**ProxyServerProofs.** `ServerInv` adds to `SlotsExact` that an upstream connection belongs to a handler that
holds a slot and has not closed its connections (`UpstreamHeld`), so `DescriptorsBounded` follows from counting;
that a request waiting for a connection has none (`WaitsWithout`), so that one handed over takes no other's place; and that each logged line is paid for by an accepted connection, with one in hand
exactly while `retryDelay` is not 0 (`LinesPaid`). The counting uses the cardinality facts of
`FiniteSetTheorems`. `ImplementsPool` maps each step to a step of `SlotPool` or a stutter: the transport's to `Reuse`, `Pass`, `Keep` and
`Drop`, a retry on an idle connection to `Reuse` again. A handler's last
two steps (close the upstream connection, give the slot back) are two steps there as well, which is why the pool
can say in which order they come.

The certificates of `CertCache` are in the same module. `BoundInv` adds to `SizeTrails` that a handler between minting and counting has
the certificate of its host (`HasLeaf`), and `Room`: the handlers that have passed the check
and not yet stored fit in what is left of the bound. `CacheBounded` alone says nothing of the
handlers that will store next.

**ProxyExchangeProofs.** `ExchangeInv` ties the handler's point to the request it serves: requests are read in order
(`Ordered`), the current one has passed its filters (`Judged`), nothing has been dialled before the
first was (`Fresh`, `RefusedTouchNothing`), and the address in hand was judged for the host the connection was
gated for (`Vetting`, `DialledVetted`). The lookups of `PolicyTable` are not expanded: the theorem holds whatever they
answer, which is why it holds for every table.

`BodyNeverRead` needs `Shape`: what is unread on the stream begins with the next head, or with the body of the
request in hand until it is forwarded, and each part is followed by the one the client wrote after it.

`ImplementsTurns` adds `Lockstep`: at each point of the handler, how many requests were passed on and how
many answered, and where the request in hand is (with the origin, or its response on the way). Nothing is assumed of the origins: each
answer is to the request in hand or to as many before it as interim responses were taken for answers, which is how
`continue` finds the connection out of step.

**ProxyConfigProofs.** `OrderNeverMatters` needs `ConfigInv`: every key folded so far is good, is in the table with its
value, and means something no other of them means; and nothing is in the table but
what one of them put there. `GateAlwaysCovers` follows from the lookups alone. `NeverFallsFurther` is about the
lookups for hosts of any number of labels: the suffixes of a host are one inside another, so there is a longest
listed one and only one, and it is the one the lookup takes.

**SymlinkWalkProofs.** `AlwaysRealNames` needs `WalkInv`: no prefix of what has been walked is a link, whichever
link the walk restarted from. `WalkAgrees` compares the loop of `resolve_path` with the kernel's walk through `AgreeInv`: what has been
walked with the names left behind it is always the path the kernel is at after as many follows, and the links
and landings recorded are those of the walk up to there. `AlwaysReplays` says the walk over the recorded links alone is the
same walk, follow by follow: each link it meets is recorded, and no other prefix is one (`SameTrail`). `Trail` and
`Gathered` are recursive functions; their equations and what they compute are proved without an induction rule, from
the least number at which a claim would fail.

**SeatbeltProfileProofs.** Judged last match first, a list put behind another has the last word (`LaterDecides`). From that each section of
the profile gets a lemma on what it grants and denies, whatever the operation, and `ProfileMeaning` puts them together
in their order: git's protection, then what is read-only inside, then what any section grants. `Invariant` says
that the profile in force is that of the host, and that the host is one a launch may find, with its declared
paths read. `AlwaysWritesAsGranted` and `AlwaysSocketsAsGranted` follow, for any paths declared of any
length, in any number and any nesting: of two directories above a path one is above the other
(`OneAbove`), which is what read-only inside read-write comes down to. `AlwaysPlantsInside` needs `PlantInv`: no place still to plant
is above or below another or one that is planted, so that no link is on the way to the next and what is found in its place can only be the session's home. That
in turn needs what the launch checks refuse (`NestedConflict`), and that `InHome` keeps the nesting of
paths.

`AlwaysReadsAsGranted` is about walks as well as rules: a grant is made from a physical path, and the walk that needs it starts from the
name as declared. Its second half, that nothing else is read, is a matter of the rules (`NothingElseIsRead`). The first goes down the walk
step by step. While the walk is before its final name, the link it follows is in the record of
`parent_symlinks` (`ParentsAreKept`), and the profile grants that link and the steps to it (`ParentsInSight`). Once it is at its final name, it is at the
declared path, at a recorded hop or at `/` (`FinalsAreHops`), and those are granted as declared
(`DeclaredInSight`) or, if they were not warned of, as landings (`LandingInSight`). `DownFrom` puts the steps together: `_get_ancestors` stops at
the home or the store, and what is above those is in sight of every session (`HomeInSight`, `StoreInSight`).
The links planted in the session's home are on no such walk unless it ends in there (`SameWalk`), so
the host's walk is the session's. A declared path's place in the session's home is one link, with none on the way to it (`PlaceIsLink`), and from there the walk is that of the path,
with one follow less. `ReachInv` adds what this needs of the steps before: the launch was not refused, each
declared path under the home is planted at its place or still to be, and no place planted is inside another.

The assumptions on the hosts are evaluated on those of the run. `HostsAssumption` is their shape: fields and
paths, and no daemon's socket unless the launch allows nix (`host_state.py:425`). `SessionAssumption` is that nothing of the host is at the session's home, and no link there, at its scratch directory or on the way to
it: the session's directory is made by the launch, which refuses one that exists, and resolved
(`session_state.py:131-140`). The other three are for `AlwaysReadsAsGranted` only. `RealAssumption`: the workspace is resolved (`host_state.py:399`), and so
is git's answer, which is a directory; `/` is no link. `HomeAssumption`: a directory above the home is one of `SystemDirs`, or above the session's directory too.
`StorePathsAssumption`: a store path of the closure is a name right in the store.

**HostPathsProofs.** What the proofs about paths share: the least and the greatest of a set of numbers, the
equations of the recursive functions (`TrailRecursion`, `GatheredRecursion`, `SelectedFrom`), prefixes
(`UnderUnder`, `OneAbove`, `AboveIsPrefix`), and the walk (`TrailSettled`: once no link is left the walk stays;
`NoLinkNoWalk`; `PhysicalIsPath`; `NoHops`: a path no link lies on has none to follow; `WholeAhead`: a walk taken up half way goes on as it
would have). `InGathered` and `FromGathered` say that a record has what its steps have and nothing else; from them, a link followed before
the final name is recorded (`ParentsAreKept`), a hop is a step of the walk (`HopIsStep`), and each step at a final name is a hop
(`FinalsAreHops`).

**LinuxProofs.** `AlwaysOnlyGranted` is for any hosts, any paths declared in any nesting, and links in any
number and any direction, those inside declared directories and cycles included. `BindsInv` says that every argument still to be applied
binds a source whose landing is where a granted name leads or below it (`GoodArg`), and that every
mount already made shows such a place or nothing of the host (`GoodMount`); the property looks only
at what is running, and the mounts there come from arguments fixed long before. That the arguments are good is proved
group by group, in the order of `BwrapArgs`: the store (`StoreBindsGood`), the work tree above the
project (`RootGood`), the declared names and what they lead to (`DeclaredBindGood`, `LastHopIsLanding`), the directories and links made on the way
(`ParentDirsGood`, `ParentSymlinksGood`), git's protected paths (`GitBindsGood`), and the socket and the bundle (`LateBindsGood`). Three facts
carry them. A physical path leads where the path does (`LandingOfPhysical`), so binding one in place of
the other grants no more. No directory above a real one is a link (`RealAbove`), so what git's protection binds below
the repository stays in it; the pointers of submodules, which it binds wherever they are, are granted names themselves. And the sets turned into lists are finite (`FiniteOfDeclared`, `FiniteRange`), so that the lists
hold what the sets do. What the launch refuses is used as well: the invariant of the arguments starts
where `DeclaredRefused` has let the launch go on. Of bubblewrap it uses what a mount shows, and nothing about which mounts it accepts.

`LateBindsAlwaysSeen`, `GitAlwaysProtected` and `ModesAlwaysKept` (each with the scope of its property: the hooks
directories that exist, the declared paths that are bound) are about the order of the arguments, of which `BindsInv` says
nothing. `HeldInv` does: the arguments are those applied so far followed by those still to apply, and the mount that holds a
name is that of the last argument applied at or above the name (`Applied`). So when the session runs, the last of all arguments at or above a name has the last
word on it (`LastWord`), and each of the three properties is a matter of the list alone. `Parts` are its fourteen groups in
their order. A group is *keeping* for a name and a set of arguments when those of the group that cover the name are all
in the set (`KeepsFrom`); where the groups from one on are keeping, and that one covers the name, the name is held by an argument of the
set (`HeldByPart`). What remains is which set. For the socket, and for a git path that exists, it is the binds of a path at its own name (`OwnBinds`): no directory
above a real path is a link, so each of them shows the path as it is. For a git path that does not exist it is the
one bind of the empty file: no other protected path and no file is above it. For a read-only name it is the read-only binds and the
exceptions that `RoKept` lists (`RoOrAsked`), from the read-only directories on; for a read-write name, the writable binds and the exceptions of `RwKept`
(`RwOrExcepted`), from the workspace on. None of this depends on how many paths are declared, or on how they lie in each other.

`BwrapAlwaysAccepts` needs one thing more: what is inside is there for a reason. An argument fails on a link, below a file, on what is
there already or on what cannot be made, and each of these was put inside by an argument before it. `MadeInv` says so: of the
arguments applied so far, one made each mount, and one asked for, or for something below, each directory and link
made (`Traced`). `MadeInvariant` is
`HeldInvariant`, `MadeInv` and `BwrapAccepts` itself. The reasons are then taken apart. Each argument belongs to one of the fourteen
parts of the list and is of its form (`Belongs`, `PartsBelong`), so it is of one of few sorts (`Sorted`): its place is a real path, a place
of the code's own, or a link the declared paths walk over. What a bind exposes is what lies below its source (`Exposing`), so of the links at or above the place at
hand none is inside (`NoLinkOnWay`), but where the exceptions say it is; the same goes for files (`NoneOnWay`). No
place is asked for twice as a link (`PlantedOnce`), which rests on a set turned into a list having each
element once (`SetSeqOnce`) and on where in the list an argument stands (`Laid`, `Stage`). A place to mount on that is missing can be created unless the last
mount over it is read-only (`LastOneOver`, `StandInBlocked`, `PlaceFits`). `NoWayThrough` puts these together: if the argument at hand is refused, it is of one of
the three exceptions.

The attempt to prove this changed the property. As first stated, with fewer exceptions, it held on every host then in the run
and was false: a link inside a declared directory whose target is gone from the store kills the launch (`TargetGone`), and the
binds that no prefix stands for expose links in more places than the socket's. Each exception that was added has a host in the run
that needs it (`OddHosts`).

Four assumptions on the hosts are named, and evaluated by TLC on the hosts of the run. `HostsAssumption` is their shape: paths, finitely many of them, directories and files
under their real names, and `/` no link. `TreeAssumption` is that what is above a name is a directory, and that no directory is a file. `LaunchAssumption` is what the launch
has found out: the workspace is resolved (`host_state.py:395-402`); there is a daemon's socket only where nix is allowed, resolved
(`host_state.py:262-271`, `422-428`), and in neither `/tmp` nor the home if it is in `/nix/var`; git's directory is one, the files git would find in it
are no directories and none is below another or below a file; the session's bundle has been written; and nothing of the host has the
name the bundle gets inside. `PresentAssumption` is for `BwrapAccepts`: the store, `/nix/var`, `/tmp`, the
home and the launcher's empty file are there; so is each path of the closure, right in the store, under its name or as a link; and git answers
with a work tree that exists, with no link on the way to what it protects. `OnlyGranted` needs the first of them only.

The network rules are in the same module. `NetInv` ties each stage of the boot to what has been set by then (`Boot`), and each tracked flow to
whoever may have opened it (`Opened`). The chains are evaluated rule by rule in lemmas of their own
(`RestrictedChain`, `OpenChain`).

The assumptions are those named in the modules: what the constants range over, that the names the code itself uses are file
names and its fixed places paths, that `NoPolicy` is no
policy, that there are finitely many launches, connections and handlers, that a domain of the table is
a sequence of labels, and those on hosts above.

Proved and not checked by a run: the type invariants of the lifecycle, the server, the cache and the network,
`SlotsExact` and `SizeTrails`.

Only model-checked: all liveness properties (under fairness, which the prover does
not treat), and `DeclaredReachable` and `LandingsSeenOrWarned` of `LinuxBinds`. These two
are about walks inside, over the links that are planted and shown there (`InsideLinks`): for them `MadeInv`, which says that what was made was asked
for, would need its converse, that what was asked for is there when the session runs, and the walk inside would have to be followed step by step along
the walk on the host, as `SeatbeltProfileProofs` does for macOS.

## 5. What is not modelled, and why

- The header limit: a count of bytes in front of a buffered reader. The exchange counts heads and bodies.
- What a client sends behind its CONNECT before the 200 (it breaks RFC 9110), and the growth of `allowedRequests`, which
  nothing in the code bounds.
- The contents of the NSS database and of the Firefox policies, the environment, the
  wrapper's own argument parsing: formatting, with no behaviour that depends on it.
- `cleanup_if_empty`: the mount points it removes belong to a repository, not to a session; it needs the
  lifecycle and the binds composed, and the two differ in what they take for a state: all launches of one host
  there, all hosts of one launch here.
- What git and the nix daemon answer is an input. Links inside git directories are left out of the hosts (a hooks directory that is a link to an absolute
  path would be a mount destination bubblewrap refuses, `git_state.py:174`).
- The mounts of `/etc`, `/proc` and `/dev`, which no declared path meets in the hosts; for the same reason the rules of the
  macOS profile on the system, devices, Mach services, sysctls and ports.
- A response is read to its own end whatever request it is read against; `http.ReadResponse` knows the method it was given, so that
  one out of step with a HEAD among the requests may be cut elsewhere.
- The limit on the links of one walk is the code's, 40, in the kernel's walk too; macOS's kernel stops at 32.
- How pasta splices a published port's connection, and how the kernel walks to a socket's name under seatbelt: neither is in the
  repository.
- pid numbers: `proxy.pid` could name another process after a wrap, if the proxy had died before the trap ran.
- seccomp's program (one fixed filter, encoded), the build spec (records), the nix expressions (evaluated once).

## 6. Plan

Done: the lifecycle, the server, the cache, the table, the exchange, the walk, the profile and the network, every safety
property of theirs a theorem; the binds, with the proofs that they show only what was granted, in the modes asked for, that git's protection and
the late binds have the last word, and that bubblewrap gets through them; the two refinements.

What would come next, in this order:

1. `DeclaredReachable` and `LandingsSeenOrWarned` of `LinuxBinds` as theorems, from an invariant that
   says that all that was asked for is there.
2. The NSS database and links inside git directories among the hosts of `LinuxBinds`; today they are hazards
   without a property.
3. `cleanup_if_empty` over a repository two launches share.
4. An abstract session store, implemented by `SessionLifecycle`.
