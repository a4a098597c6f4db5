-------------------------- MODULE SessionLifecycle --------------------------
(***************************************************************************)
(* The life of a launch: the wrapper (launch.sh), the prepare process it   *)
(* runs (prepare.py), the session directory both write, the proxy prepare  *)
(* starts, the prune every launch makes of the other sessions              *)
(* (session_state.py) and the cleanup run from the wrapper's EXIT trap     *)
(* (cleanup.py).  Several launches share one sessions root and run         *)
(* concurrently, with no lock between them.                                *)
(*                                                                         *)
(* One launch is one element of Launches; its directory, its proxy and its *)
(* sandbox are named by it.  pc[l] is the point the launch has reached,    *)
(* in the wrapper or in prepare, whichever is running.                     *)
(***************************************************************************)
EXTENDS Naturals, FiniteSets

CONSTANTS
  Launches,   \* the launches of one user, in any order and any overlap
  Retention,  \* SESSION_RETENTION
  MaxRank,    \* bounds the session names; a name is its place in name order
  Platform,   \* which build of the wrapper this is
  Faults,     \* the disturbances from outside that may happen in a run
  None        \* no launch

ASSUME LaunchAssumption == IsFiniteSet(Launches) /\ None \notin Launches
ASSUME RetentionAssumption == Retention \in Nat
ASSUME RankAssumption == MaxRank \in Nat
ASSUME PlatformAssumption == Platform \in {"linux", "darwin"}
ASSUME FaultAssumption == Faults \subseteq {"late error", "interrupt", "signal"}

VARIABLES
  pc,       \* the point each launch has reached
  alive,    \* is the wrapper process, whose pid is $$, still there?
  rank,     \* the session's place in the order of names, 0 before it has one
  dir,      \* the session directory: not made yet, present, or removed
  files,    \* the files of the session directory
  proxy,    \* the proxy child of the launch
  undo,     \* the callbacks on prepare's ExitStack
  sandbox,  \* the command the wrapper runs
  queue,    \* the sessions the launch's own prune has still to judge
  victim,   \* the session that prune is removing, or None
  exposed   \* history: sessions judged finished before their launch.pid
            \* was written, while their wrapper was running

vars == <<pc, alive, rank, dir, files, proxy, undo, sandbox, queue, victim,
          exposed>>

-----------------------------------------------------------------------------
(* The points of a launch, in the order the code passes them.              *)

PruneSteps == {"naming", "listing", "pruning", "unlinking", "removing"}
PrepareSteps ==
  {"checking", "checked", "scratched", "awaiting", "handover", "proxied",
   "trusting", "staged", "written", "recorded", "committed"}
WrapperSteps ==
  {"prepared", "marked", "armed", "running", "cleaning", "sweeping"}
Steps == {"idle", "exited"} \cup PruneSteps \cup PrepareSteps \cup WrapperSteps

(* "log" stands for launch.log and proxy.log, "config" for everything      *)
(* write_launch_config writes except proxy.pid, "scratch" for the sandbox  *)
(* home and tmp (darwin) or the directory of the NSS database (linux),     *)
(* "trust" for the proxy's CA in that database.                            *)
Files ==
  {"log", "cert", "config", "proxy.pid", "launch.pid", "scratch", "trust"}

(* "failed" died before it reported a port, "dead" after it.               *)
ProxyStates == {"none", "starting", "serving", "failed", "dead"}

(* "bare" is the wrapper's own arguments run with no sandbox around them.  *)
SandboxStates == {"none", "booting", "running", "bare", "over"}

(* Where prepare starts the proxy: on darwin after its scratch             *)
(* directories, on linux before.                                           *)
ProxyFrom == IF Platform = "darwin" THEN "scratched" ELSE "checked"
ProxyTo   == IF Platform = "darwin" THEN "staged" ELSE "proxied"

TypeOK ==
  /\ pc \in [Launches -> Steps]
  /\ alive \in [Launches -> BOOLEAN]
  /\ rank \in [Launches -> Nat]
  /\ dir \in [Launches -> {"none", "present", "gone"}]
  /\ files \in [Launches -> SUBSET Files]
  /\ proxy \in [Launches -> ProxyStates]
  /\ undo \in [Launches -> SUBSET {"proxy", "scratch"}]
  /\ sandbox \in [Launches -> SandboxStates]
  /\ queue \in [Launches -> SUBSET Launches]
  /\ victim \in [Launches -> Launches \cup {None}]
  /\ exposed \subseteq Launches

Init ==
  /\ pc = [l \in Launches |-> "idle"]
  /\ alive = [l \in Launches |-> FALSE]
  /\ rank = [l \in Launches |-> 0]
  /\ dir = [l \in Launches |-> "none"]
  /\ files = [l \in Launches |-> {}]
  /\ proxy = [l \in Launches |-> "none"]
  /\ undo = [l \in Launches |-> {}]
  /\ sandbox = [l \in Launches |-> "none"]
  /\ queue = [l \in Launches |-> {}]
  /\ victim = [l \in Launches |-> None]
  /\ exposed = {}

Goto(l, step) == pc' = [pc EXCEPT ![l] = step]

(* The wrapper process ends, and with it the launch.                       *)
Exit(l) ==
  /\ Goto(l, "exited")
  /\ alive' = [alive EXCEPT ![l] = FALSE]

(* The files l's directory holds after `new` are created in it: a write    *)
(* into a directory that was pruned creates nothing.                       *)
Written(l, new) ==
  IF dir[l] = "present"
    THEN [files EXCEPT ![l] = @ \cup new]
    ELSE files

Running(l) == sandbox[l] \in {"booting", "running", "bare"}

-----------------------------------------------------------------------------
(* The wrapper up to prepare, and the prune prepare starts with.           *)

(* An env value that does not resolve ends the wrapper at once; otherwise  *)
(* it runs prepare.                                                        *)
StartWrapper(l) ==
  /\ pc[l] = "idle"
  /\ \/ /\ Goto(l, "naming")
        /\ alive' = [alive EXCEPT ![l] = TRUE]
     \/ Exit(l)
  /\ UNCHANGED <<rank, dir, files, proxy, undo, sandbox, queue, victim,
                 exposed>>

(* The name is a local timestamp and a pid.  Neither is monotone, within a *)
(* second or when the clock is set back, so a later launch may take any    *)
(* name no other launch has.                                               *)
NameSession(l) ==
  /\ pc[l] = "naming"
  /\ \E r \in 1..MaxRank :
       /\ \A m \in Launches : rank[m] # r
       /\ rank' = [rank EXCEPT ![l] = r]
  /\ Goto(l, "listing")
  /\ UNCHANGED <<alive, dir, files, proxy, undo, sandbox, queue, victim,
                 exposed>>

Newer(S, v) == {m \in S : rank[m] > rank[v]}

Present == {m \in Launches : dir[m] = "present"}

(* Slip: the slice starts one session early.                               *)
ListSessionsOneEarly(l) ==
  /\ pc[l] = "listing"
  /\ queue' = [queue EXCEPT ![l] =
       {v \in Present : Cardinality(Newer(Present, v)) + 1 >= Retention}]
  /\ Goto(l, "pruning")
  /\ UNCHANGED <<alive, rank, dir, files, proxy, undo, sandbox, victim,
                 exposed>>

(* iterdir, sort by name, drop the newest SESSION_RETENTION.               *)
ListSessions(l) ==
  /\ pc[l] = "listing"
  /\ queue' = [queue EXCEPT ![l] =
       {v \in Present : Cardinality(Newer(Present, v)) >= Retention}]
  /\ Goto(l, "pruning")
  /\ UNCHANGED <<alive, rank, dir, files, proxy, undo, sandbox, victim,
                 exposed>>

(* The queue is taken in name order, newest first.                         *)
IsNext(l, v) == v \in queue[l] /\ Newer(queue[l], v) = {}

(* _is_session_live: launch.pid names a process, the wrapper or, once it   *)
(* has ended, any other process that was given its pid.                    *)
SkipLiveSession(l) ==
  /\ pc[l] = "pruning"
  /\ \E v \in Launches :
       /\ IsNext(l, v)
       /\ "launch.pid" \in files[v]
       /\ queue' = [queue EXCEPT ![l] = @ \ {v}]
  /\ UNCHANGED <<pc, alive, rank, dir, files, proxy, undo, sandbox, victim,
                 exposed>>

(* Slip: age alone decides.                                                *)
JudgedOverByAge(v) == dir[v] # "none"

(* _is_session_live: no readable launch.pid, or no process of that pid.    *)
JudgedOver(v) == ~ ("launch.pid" \in files[v] /\ alive[v])

PickVictim(l) ==
  /\ pc[l] = "pruning"
  /\ \E v \in Launches :
       /\ IsNext(l, v)
       /\ JudgedOver(v)
       /\ queue' = [queue EXCEPT ![l] = @ \ {v}]
       /\ victim' = [victim EXCEPT ![l] = v]
       /\ exposed' = IF alive[v] /\ "launch.pid" \notin files[v]
                       THEN exposed \cup {v}
                       ELSE exposed
  /\ Goto(l, "unlinking")
  /\ UNCHANGED <<alive, rank, dir, files, proxy, undo, sandbox>>

(* What an rmtree may leave of v's scratch directories: the sandbox goes   *)
(* on writing there while it is emptied, and the failure is ignored.       *)
StillWritten(v) ==
  {{}} \cup (IF Running(v) THEN {files[v] \cap {"scratch", "trust"}} ELSE {})

(* rmtree empties the directory, then removes it: a file its launch wrote  *)
(* in between makes the removal fail, and the failure is ignored.          *)
UnlinkFiles(l) ==
  /\ pc[l] = "unlinking"
  /\ \E kept \in StillWritten(victim[l]) :
       files' = [files EXCEPT ![victim[l]] = kept]
  /\ Goto(l, "removing")
  /\ UNCHANGED <<alive, rank, dir, proxy, undo, sandbox, queue, victim,
                 exposed>>

RemoveDirectory(l) ==
  /\ pc[l] = "removing"
  /\ dir' = [dir EXCEPT ![victim[l]] =
               IF files[victim[l]] = {} THEN "gone" ELSE @]
  /\ victim' = [victim EXCEPT ![l] = None]
  /\ Goto(l, "pruning")
  /\ UNCHANGED <<alive, rank, files, proxy, undo, sandbox, queue, exposed>>

(* Made only after the prune, and launch.log with it.                      *)
CreateSessionDir(l) ==
  /\ pc[l] = "pruning"
  /\ queue[l] = {}
  /\ \/ /\ dir' = [dir EXCEPT ![l] = "present"]
        /\ files' = [files EXCEPT ![l] = {"log"}]
        /\ Goto(l, "checking")
        /\ UNCHANGED alive
     \/ /\ Exit(l)
        /\ UNCHANGED <<dir, files>>
  /\ UNCHANGED <<rank, proxy, undo, sandbox, queue, victim, exposed>>

-----------------------------------------------------------------------------
(* prepare, once the session has a directory.                              *)

(* The callbacks on the ExitStack run: the scratch directories and the     *)
(* proxy registered so far go.                                             *)
RemoveScratch(l) ==
  files' = [Written(l, {"log"}) EXCEPT ![l] =
              IF "scratch" \in undo[l] THEN @ \ {"scratch", "trust"} ELSE @]

Unwind(l) ==
  /\ proxy' = IF "proxy" \in undo[l] /\ proxy[l] = "serving"
                THEN [proxy EXCEPT ![l] = "dead"]
                ELSE proxy
  /\ RemoveScratch(l)
  /\ undo' = [undo EXCEPT ![l] = {}]

(* A refusal, or an exception while reading the host: launch.log gets the  *)
(* reason, prepare exits 1 and so does the wrapper.                        *)
RefuseLaunch(l) ==
  /\ pc[l] = "checking"
  /\ files' = Written(l, {"log"})
  /\ Exit(l)
  /\ UNCHANGED <<rank, dir, proxy, undo, sandbox, queue, victim, exposed>>

(* No refusal.  The questions put to the user on the terminal are part of  *)
(* this step, which may therefore take as long as the user likes.          *)
AcceptLaunch(l) ==
  /\ pc[l] = "checking"
  /\ Goto(l, "checked")
  /\ UNCHANGED <<alive, rank, dir, files, proxy, undo, sandbox, queue, victim,
                 exposed>>

(* darwin: the sandbox home and tmp, each put on the stack as it is made.  *)
MakeScratch(l) ==
  /\ Platform = "darwin"
  /\ pc[l] = "checked"
  /\ dir[l] = "present"
  /\ files' = Written(l, {"scratch"})
  /\ undo' = [undo EXCEPT ![l] = @ \cup {"scratch"}]
  /\ Goto(l, "scratched")
  /\ UNCHANGED <<alive, rank, dir, proxy, sandbox, queue, victim, exposed>>

(* linux: the directory of the NSS database is made first ...              *)
MakeDatabase(l) ==
  /\ Platform = "linux"
  /\ pc[l] = "proxied"
  /\ proxy[l] # "none"
  /\ dir[l] = "present"
  /\ files' = Written(l, {"scratch"})
  /\ Goto(l, "trusting")
  /\ UNCHANGED <<alive, rank, dir, proxy, undo, sandbox, queue, victim,
                 exposed>>

(* Slip: filled, and never put on the stack.                               *)
TrustProxyUnregistered(l) ==
  /\ pc[l] = "trusting"
  /\ {"scratch", "cert"} \subseteq files[l]
  /\ files' = Written(l, {"trust"})
  /\ Goto(l, "staged")
  /\ UNCHANGED <<alive, rank, dir, proxy, undo, sandbox, queue, victim,
                 exposed>>

(* ... and put on the stack only after certutil has filled it.  A certutil *)
(* that fails is FailPrepare at this point: the directory stays.           *)
TrustProxy(l) ==
  /\ pc[l] = "trusting"
  /\ {"scratch", "cert"} \subseteq files[l]
  /\ files' = Written(l, {"trust"})
  /\ undo' = [undo EXCEPT ![l] = @ \cup {"scratch"}]
  /\ Goto(l, "staged")
  /\ UNCHANGED <<alive, rank, dir, proxy, sandbox, queue, victim, exposed>>

(* A build without browsers has no NSS database, and one with an open      *)
(* network no proxy to trust in it.                                        *)
SkipDatabase(l) ==
  /\ Platform = "linux"
  /\ pc[l] = "proxied"
  /\ Goto(l, "staged")
  /\ UNCHANGED <<alive, rank, dir, files, proxy, undo, sandbox, queue, victim,
                 exposed>>

(* proxy.log is opened in the session directory, so it must be there.      *)
StartProxy(l) ==
  /\ pc[l] = ProxyFrom
  /\ dir[l] = "present"
  /\ files' = Written(l, {"log"})
  /\ proxy' = [proxy EXCEPT ![l] = "starting"]
  /\ Goto(l, "awaiting")
  /\ UNCHANGED <<alive, rank, dir, undo, sandbox, queue, victim, exposed>>

(* An unrestricted network: spec.proxy is None.                            *)
SkipProxy(l) ==
  /\ pc[l] = ProxyFrom
  /\ Goto(l, ProxyTo)
  /\ UNCHANGED <<alive, rank, dir, files, proxy, undo, sandbox, queue, victim,
                 exposed>>

(* The port arrives on the pipe, whatever became of the proxy since.       *)
ReadProxyPort(l) ==
  /\ pc[l] = "awaiting"
  /\ proxy[l] \in {"serving", "dead"}
  /\ Goto(l, "handover")
  /\ UNCHANGED <<alive, rank, dir, files, proxy, undo, sandbox, queue, victim,
                 exposed>>

(* Slip: no deadline, only the end of the pipe.                            *)
GiveUpAtEOF(l) ==
  /\ pc[l] = "awaiting"
  /\ proxy[l] = "failed"
  /\ RemoveScratch(l)
  /\ undo' = [undo EXCEPT ![l] = {}]
  /\ Exit(l)
  /\ UNCHANGED <<rank, dir, proxy, sandbox, queue, victim, exposed>>

(* Slip: the child is left to the stack, which does not have it yet.       *)
GiveUpWithoutKill(l) ==
  /\ pc[l] = "awaiting"
  /\ Unwind(l)
  /\ Exit(l)
  /\ UNCHANGED <<rank, dir, sandbox, queue, victim, exposed>>

(* The deadline passes, or the pipe ends, or what came is not a port:      *)
(* create_proxy_state kills the child itself, then the stack unwinds.      *)
GiveUpOnProxy(l) ==
  /\ pc[l] = "awaiting"
  /\ proxy' = [proxy EXCEPT ![l] = IF @ = "failed" THEN @ ELSE "dead"]
  /\ RemoveScratch(l)
  /\ undo' = [undo EXCEPT ![l] = {}]
  /\ Exit(l)
  /\ UNCHANGED <<rank, dir, sandbox, queue, victim, exposed>>

(* stack.callback(kill_proxy, proxy)                                       *)
RegisterProxy(l) ==
  /\ pc[l] = "handover"
  /\ undo' = [undo EXCEPT ![l] = @ \cup {"proxy"}]
  /\ Goto(l, ProxyTo)
  /\ UNCHANGED <<alive, rank, dir, files, proxy, sandbox, queue, victim,
                 exposed>>

(* Slip: everything is written under the proxy's condition.                *)
WriteConfigWithProxy(l) ==
  /\ pc[l] = "staged"
  /\ dir[l] = "present"
  /\ proxy[l] # "none" => "cert" \in files[l]
  /\ files' = Written(l, IF proxy[l] = "none" THEN {} ELSE {"config"})
  /\ Goto(l, "written")
  /\ UNCHANGED <<alive, rank, dir, proxy, undo, sandbox, queue, victim,
                 exposed>>

(* The argument files, the cleanup lists and the CA bundle, for which the  *)
(* proxy's certificate is read back.                                       *)
WriteConfig(l) ==
  /\ pc[l] = "staged"
  /\ dir[l] = "present"
  /\ proxy[l] # "none" => "cert" \in files[l]
  /\ files' = Written(l, {"config"})
  /\ Goto(l, "written")
  /\ UNCHANGED <<alive, rank, dir, proxy, undo, sandbox, queue, victim,
                 exposed>>

(* The last writes of write_launch_config: proxy.pid among them.           *)
WriteProxyPid(l) ==
  /\ pc[l] = "written"
  /\ dir[l] = "present"
  /\ files' = Written(l, IF proxy[l] = "none" THEN {} ELSE {"proxy.pid"})
  /\ Goto(l, "recorded")
  /\ UNCHANGED <<alive, rank, dir, proxy, undo, sandbox, queue, victim,
                 exposed>>

(* stack.pop_all()                                                         *)
Commit(l) ==
  /\ pc[l] = "recorded"
  /\ undo' = [undo EXCEPT ![l] = {}]
  /\ Goto(l, "committed")
  /\ UNCHANGED <<alive, rank, dir, files, proxy, sandbox, queue, victim,
                 exposed>>

(* An exception in a step between the refusals and the commit: the stack   *)
(* unwinds, launch.log gets the traceback, the wrapper exits 1.            *)
FailPrepare(l) ==
  /\ pc[l] \in {"checked", "scratched", "proxied", "trusting", "staged",
                "written", "recorded"}
  /\ Unwind(l)
  /\ Exit(l)
  /\ UNCHANGED <<rank, dir, sandbox, queue, victim, exposed>>

(* The outcome is logged, the summary and the warnings printed, and the    *)
(* directory is printed to the wrapper that waits for it.                  *)
ReportLaunch(l) ==
  /\ pc[l] = "committed"
  /\ alive[l]
  /\ files' = Written(l, {"log"})
  /\ Goto(l, "prepared")
  /\ UNCHANGED <<alive, rank, dir, proxy, undo, sandbox, queue, victim,
                 exposed>>

(* One of those prints fails, as the last one must when the wrapper has    *)
(* died: prepare exits with nothing left on its stack.                     *)
FailReport(l) ==
  /\ pc[l] = "committed"
  /\ alive[l] => "late error" \in Faults
  /\ files' = Written(l, {"log"})
  /\ Exit(l)
  /\ UNCHANGED <<rank, dir, proxy, undo, sandbox, queue, victim, exposed>>

-----------------------------------------------------------------------------
(* The wrapper again, from the return of prepare to its own end.           *)

(* echo $$ > launch.pid: a failure is reported and ignored.                *)
WriteLaunchPid(l) ==
  /\ pc[l] = "prepared"
  /\ files' = Written(l, {"launch.pid"})
  /\ Goto(l, "marked")
  /\ UNCHANGED <<alive, rank, dir, proxy, undo, sandbox, queue, victim,
                 exposed>>

ArmTrap(l) ==
  /\ pc[l] = "marked"
  /\ Goto(l, "armed")
  /\ UNCHANGED <<alive, rank, dir, files, proxy, undo, sandbox, queue, victim,
                 exposed>>

(* mapfile reads the two argument files, then the command is run.  Arrays  *)
(* that could not be read are empty, and the arguments of the wrapper are  *)
(* then the whole command.                                                 *)
StartSandbox(l) ==
  /\ pc[l] = "armed"
  /\ sandbox' = [sandbox EXCEPT ![l] =
                   IF "config" \in files[l] THEN "booting" ELSE "bare"]
  /\ Goto(l, "running")
  /\ UNCHANGED <<alive, rank, dir, files, proxy, undo, queue, victim, exposed>>

(* The sandbox's own entry point reads network.json, the passwd file and   *)
(* the rest of the session directory; without them it stops.               *)
BootSandbox(l) ==
  /\ sandbox[l] = "booting"
  /\ sandbox' = [sandbox EXCEPT ![l] =
                   IF "config" \in files[l] THEN "running" ELSE "over"]
  /\ UNCHANGED <<pc, alive, rank, dir, files, proxy, undo, queue, victim,
                 exposed>>

EndSandbox(l) ==
  /\ Running(l)
  /\ sandbox' = [sandbox EXCEPT ![l] = "over"]
  /\ UNCHANGED <<pc, alive, rank, dir, files, proxy, undo, queue, victim,
                 exposed>>

(* Slip: a session that has lost its log is not cleaned up.                *)
RunTrapIfLogged(l) ==
  /\ pc[l] = "running"
  /\ sandbox[l] = "over"
  /\ "log" \in files[l]
  /\ Goto(l, "cleaning")
  /\ UNCHANGED <<alive, rank, dir, files, proxy, undo, sandbox, queue, victim,
                 exposed>>

(* The EXIT trap runs launcher.cleanup, which logs the exit status, ...    *)
RunTrap(l) ==
  /\ pc[l] = "running"
  /\ sandbox[l] = "over"
  /\ files' = Written(l, {"log"})
  /\ Goto(l, "cleaning")
  /\ UNCHANGED <<alive, rank, dir, proxy, undo, sandbox, queue, victim,
                 exposed>>

(* ... kills the process proxy.pid names, ...                              *)
KillProxy(l) ==
  /\ pc[l] = "cleaning"
  /\ proxy' = IF "proxy.pid" \in files[l] /\ proxy[l] = "serving"
                THEN [proxy EXCEPT ![l] = "dead"]
                ELSE proxy
  /\ Goto(l, "sweeping")
  /\ UNCHANGED <<alive, rank, dir, files, undo, sandbox, queue, victim,
                 exposed>>

(* ... and removes what the cleanup list names.                            *)
SweepScratch(l) ==
  /\ pc[l] = "sweeping"
  /\ \E kept \in StillWritten(l) :
       files' = IF "config" \in files[l]
                  THEN [files EXCEPT ![l] = (@ \ {"scratch", "trust"}) \cup kept]
                  ELSE files
  /\ Exit(l)
  /\ UNCHANGED <<rank, dir, proxy, undo, sandbox, queue, victim, exposed>>

-----------------------------------------------------------------------------
(* The proxy process, as far as the launch can see it.                     *)

(* It writes its CA certificate into the session directory, listens, and   *)
(* prints its port; without the directory it exits.                        *)
ProxyReports(l) ==
  /\ proxy[l] = "starting"
  /\ proxy' = [proxy EXCEPT ![l] =
                 IF dir[l] = "present" THEN "serving" ELSE "failed"]
  /\ files' = Written(l, {"cert"})
  /\ UNCHANGED <<pc, alive, rank, dir, undo, sandbox, queue, victim, exposed>>

ProxyDies(l) ==
  /\ proxy[l] \in {"starting", "serving"}
  /\ proxy' = [proxy EXCEPT ![l] =
                 IF @ = "starting" THEN "failed" ELSE "dead"]
  /\ UNCHANGED <<pc, alive, rank, dir, files, undo, sandbox, queue, victim,
                 exposed>>

-----------------------------------------------------------------------------
(* What may happen to the launch from outside, in the runs that say so.    *)

(* KeyboardInterrupt, anywhere in prepare: the stack unwinds as it is.     *)
Interrupt(l) ==
  /\ "interrupt" \in Faults
  /\ pc[l] \in PrepareSteps \ {"awaiting"}
  /\ Unwind(l)
  /\ Exit(l)
  /\ UNCHANGED <<rank, dir, sandbox, queue, victim, exposed>>

(* A signal ends the wrapper alone.  A prepare or a cleanup it waits for,  *)
(* and the sandbox, go on without it; between them nothing else happens.   *)
KillWrapper(l) ==
  /\ "signal" \in Faults
  /\ alive[l]
  /\ IF pc[l] \in {"prepared", "marked", "armed", "running"}
       THEN Exit(l)
       ELSE UNCHANGED pc /\ alive' = [alive EXCEPT ![l] = FALSE]
  /\ UNCHANGED <<rank, dir, files, proxy, undo, sandbox, queue, victim,
                 exposed>>

(* One bash may handle (TERM, HUP) runs the trap while the sandbox runs.   *)
TerminateWrapper(l) ==
  /\ "signal" \in Faults
  /\ pc[l] \in {"armed", "running"}
  /\ files' = Written(l, {"log"})
  /\ Goto(l, "cleaning")
  /\ UNCHANGED <<alive, rank, dir, proxy, undo, sandbox, queue, victim,
                 exposed>>

-----------------------------------------------------------------------------

PruneNext(l) ==
  \/ NameSession(l) \/ ListSessions(l) \/ SkipLiveSession(l) \/ PickVictim(l)
  \/ UnlinkFiles(l) \/ RemoveDirectory(l) \/ CreateSessionDir(l)

PrepareNext(l) ==
  \/ RefuseLaunch(l) \/ AcceptLaunch(l)
  \/ MakeScratch(l) \/ MakeDatabase(l) \/ TrustProxy(l) \/ SkipDatabase(l)
  \/ StartProxy(l) \/ SkipProxy(l)
  \/ ReadProxyPort(l) \/ GiveUpOnProxy(l) \/ RegisterProxy(l)
  \/ WriteConfig(l) \/ WriteProxyPid(l) \/ Commit(l) \/ FailPrepare(l)
  \/ ReportLaunch(l) \/ FailReport(l)

WrapperNext(l) ==
  \/ WriteLaunchPid(l) \/ ArmTrap(l) \/ StartSandbox(l) \/ RunTrap(l)
  \/ KillProxy(l) \/ SweepScratch(l)

SandboxNext(l) == BootSandbox(l) \/ EndSandbox(l)

ProxyNext(l) == ProxyReports(l) \/ ProxyDies(l)

FaultNext(l) == Interrupt(l) \/ KillWrapper(l) \/ TerminateWrapper(l)

Next ==
  \E l \in Launches :
    \/ StartWrapper(l) \/ PruneNext(l) \/ PrepareNext(l) \/ WrapperNext(l)
    \/ SandboxNext(l) \/ ProxyNext(l) \/ FaultNext(l)

(* The launcher's own processes are scheduled: each takes its next step.   *)
(* Nothing is assumed of the user, the sandboxed program or the proxy.     *)
Fairness ==
  \A l \in Launches :
    WF_vars(\/ PruneNext(l)
            \/ pc[l] # "checking" /\ PrepareNext(l)
            \/ WrapperNext(l))

Spec == Init /\ [][Next]_vars
FairSpec == Spec /\ Fairness

-----------------------------------------------------------------------------
(* Properties.                                                             *)

Created == {m \in Launches : dir[m] # "none"}

Doomed == {v \in Launches : \E l \in Launches : v \in queue[l] \/ v = victim[l]}

Removed == {v \in Launches : dir[v] = "gone"}

(* "The sandbox keeps the directories of the newest 25 launches": a        *)
(* session some prune has removed, or still means to, has at least         *)
(* Retention sessions of a newer name, whatever the launches' overlap and  *)
(* whatever the clock did to the names.                                    *)
NewestKept ==
  \A v \in Doomed \cup Removed : Cardinality(Newer(Created, v)) >= Retention

(* The directory of a running session is kept whole: launch.pid protects   *)
(* it, from the moment it is written and unless a prune had judged the     *)
(* session before that.  The prune checks, then removes; this is what the  *)
(* check must buy.                                                         *)
RunningKept ==
  \A l \in Launches \ exposed :
    sandbox[l] = "running" /\ alive[l] =>
      /\ dir[l] = "present"
      /\ {"log", "config", "launch.pid"} \subseteq files[l]
      /\ proxy[l] # "none" => {"cert", "proxy.pid"} \subseteq files[l]

(* The command of a launch is never its bare arguments: the argument files *)
(* prepare wrote are there when the wrapper reads them.                    *)
SandboxedUnlessExposed ==
  \A l \in Launches \ exposed : sandbox[l] # "bare"

(* A launch that has ended, whichever step of its prepare failed or        *)
(* however its sandbox ended, leaves no proxy behind, with one exception:  *)
(* a session judged over before its launch.pid was written, that got to    *)
(* its sandbox all the same, has no proxy.pid left for the trap to read.   *)
(* Even then a prepare that fails kills its own proxy.                     *)
NoOrphanUnlessExposed ==
  \A l \in Launches :
    pc[l] = "exited" /\ proxy[l] \in {"starting", "serving"} =>
      l \in exposed /\ sandbox[l] = "over" /\ "proxy.pid" \notin files[l]

(* Nor does it leave its scratch directories, with two exceptions: the     *)
(* directory of an NSS database that certutil failed to fill, which is not *)
(* on the stack yet; and a session judged over before its launch.pid was   *)
(* written, whose cleanup list is gone when the trap runs.                 *)
ScratchRemovedUnlessExposed ==
  \A l \in Launches :
    pc[l] = "exited" /\ "scratch" \in files[l] =>
      \/ Platform = "linux" /\ "trust" \notin files[l]
      \/ l \in exposed /\ sandbox[l] = "over" /\ "config" \notin files[l]

(* A launch gets to its confirmation, to its command, or ends: a prune     *)
(* reaches the end of its list whatever other launches do to the           *)
(* directories on it, and a proxy that never reports its port does not     *)
(* hold the launch up, nor does a signal or a failed print.                *)
Settles(l) ==
  pc[l] \in (PruneSteps \cup PrepareSteps \cup {"prepared", "marked", "armed"})
             \ {"checking"}
    ~> pc[l] \in {"checking", "running", "exited"}

(* The end of the sandbox, or a signal the wrapper handles, ends the       *)
(* launch; and the trap, once it runs, ends the proxy, unless a prune has  *)
(* taken its pid from the disk, as it may once the wrapper has been killed *)
(* over its own cleanup, or had judged the session over too early.         *)
TearsDown(l) ==
  /\ sandbox[l] = "over" ~> pc[l] = "exited"
  /\ pc[l] \in {"cleaning", "sweeping"} ~>
       /\ pc[l] = "exited"
       /\ \/ "proxy.pid" \notin files[l]
          \/ proxy[l] \notin {"starting", "serving"}

(* README: "It never prunes the directory of a session whose sandbox still *)
(* runs, whatever its age."                                                *)
RunningNeverPruned ==
  \A l \in Launches : sandbox[l] = "running" => dir[l] = "present"

=============================================================================
