----------------------- MODULE SessionLifecycleProofs -----------------------
(***************************************************************************)
(* What TLC checks of SessionLifecycle for three launches, proved for any  *)
(* finite set of them, any retention and either platform.                  *)
(***************************************************************************)
EXTENDS SessionLifecycle, FiniteSetTheorems, TLAPS

-----------------------------------------------------------------------------
(* Every variable keeps its type: the directory, proxy and sandbox of a    *)
(* launch only ever take the states named above.                           *)
THEOREM TypeCorrect == Spec => []TypeOK
<1>1. Init => TypeOK
  BY DEF Init, TypeOK, Steps, ProxyStates, SandboxStates
<1>2. TypeOK /\ [Next]_vars => TypeOK'
  <2> SUFFICES ASSUME TypeOK, [Next]_vars
               PROVE  TypeOK'
    OBVIOUS
  <2> USE DEF TypeOK, Steps, PruneSteps, PrepareSteps, WrapperSteps, Files,
              ProxyStates, SandboxStates, Goto, Exit, Written
  <2>1. CASE UNCHANGED vars
    BY <2>1 DEF vars
  <2>2. ASSUME NEW l \in Launches, StartWrapper(l) PROVE TypeOK'
    <3>1. pc' \in [Launches -> Steps]
      BY <2>2 DEF StartWrapper
    <3>2. alive' \in [Launches -> BOOLEAN]
      BY <2>2 DEF StartWrapper
    <3> QED BY <2>2, <3>1, <3>2 DEF StartWrapper
  <2>3. ASSUME NEW l \in Launches, PruneNext(l) PROVE TypeOK'
    <3>1. CASE NameSession(l)
      BY <3>1, RankAssumption DEF NameSession
    <3>2. CASE ListSessions(l)
      BY <3>2 DEF ListSessions, Present
    <3>3. CASE SkipLiveSession(l)
      BY <3>3 DEF SkipLiveSession
    <3>4. CASE PickVictim(l)
      BY <3>4 DEF PickVictim
    <3>5. CASE UnlinkFiles(l)
      <4>1. ASSUME NEW v, NEW kept \in StillWritten(v) PROVE kept \subseteq Files
        <5>1. kept = {} \/ kept = files[v] \cap {"scratch", "trust"}
          BY DEF StillWritten
        <5> QED BY <5>1
      <4>2. PICK kept \in StillWritten(victim[l]) :
              files' = [files EXCEPT ![victim[l]] = kept]
        BY <3>5 DEF UnlinkFiles
      <4>3. files' \in [Launches -> SUBSET Files]
        BY <4>1, <4>2
      <4> QED BY <3>5, <4>3 DEF UnlinkFiles
    <3>6. CASE RemoveDirectory(l)
      BY <3>6 DEF RemoveDirectory
    <3>7. CASE CreateSessionDir(l)
      <4>1. pc' \in [Launches -> Steps]
        BY <3>7 DEF CreateSessionDir
      <4>2. alive' \in [Launches -> BOOLEAN]
        BY <3>7 DEF CreateSessionDir
      <4>3. dir' \in [Launches -> {"none", "present", "gone"}]
        BY <3>7 DEF CreateSessionDir
      <4>4. files' \in [Launches -> SUBSET Files]
        BY <3>7 DEF CreateSessionDir
      <4> QED BY <3>7, <4>1, <4>2, <4>3, <4>4 DEF CreateSessionDir
    <3> QED BY <2>3, <3>1, <3>2, <3>3, <3>4, <3>5, <3>6, <3>7 DEF PruneNext
  <2>4. ASSUME NEW l \in Launches, PrepareNext(l) PROVE TypeOK'
    <3>1. CASE RefuseLaunch(l)
      BY <3>1 DEF RefuseLaunch
    <3>2. CASE AcceptLaunch(l)
      BY <3>2 DEF AcceptLaunch
    <3>3. CASE MakeScratch(l)
      BY <3>3 DEF MakeScratch
    <3>4. CASE MakeDatabase(l)
      BY <3>4 DEF MakeDatabase
    <3>5. CASE TrustProxy(l)
      BY <3>5 DEF TrustProxy
    <3>6. CASE SkipDatabase(l)
      BY <3>6 DEF SkipDatabase
    <3>7. CASE StartProxy(l)
      BY <3>7 DEF StartProxy
    <3>8. CASE SkipProxy(l)
      BY <3>8 DEF SkipProxy, ProxyTo
    <3>9. CASE ReadProxyPort(l)
      BY <3>9 DEF ReadProxyPort
    <3>10. CASE GiveUpOnProxy(l)
      BY <3>10 DEF GiveUpOnProxy, RemoveScratch
    <3>11. CASE RegisterProxy(l)
      BY <3>11 DEF RegisterProxy, ProxyTo
    <3>12. CASE WriteConfig(l)
      BY <3>12 DEF WriteConfig
    <3>13. CASE WriteProxyPid(l)
      BY <3>13 DEF WriteProxyPid
    <3>14. CASE Commit(l)
      BY <3>14 DEF Commit
    <3>15. CASE FailPrepare(l)
      BY <3>15 DEF FailPrepare, Unwind, RemoveScratch
    <3>16. CASE ReportLaunch(l)
      BY <3>16 DEF ReportLaunch
    <3>17. CASE FailReport(l)
      BY <3>17 DEF FailReport
    <3> QED
      BY <2>4, <3>1, <3>2, <3>3, <3>4, <3>5, <3>6, <3>7, <3>8, <3>9,
         <3>10, <3>11, <3>12, <3>13, <3>14, <3>15, <3>16, <3>17
      DEF PrepareNext
  <2>5. ASSUME NEW l \in Launches, WrapperNext(l) PROVE TypeOK'
    <3>1. CASE WriteLaunchPid(l)
      BY <3>1 DEF WriteLaunchPid
    <3>2. CASE ArmTrap(l)
      BY <3>2 DEF ArmTrap
    <3>3. CASE StartSandbox(l)
      BY <3>3 DEF StartSandbox
    <3>4. CASE RunTrap(l)
      BY <3>4 DEF RunTrap
    <3>5. CASE KillProxy(l)
      BY <3>5 DEF KillProxy
    <3>6. CASE SweepScratch(l)
      BY <3>6 DEF SweepScratch, StillWritten
    <3> QED BY <2>5, <3>1, <3>2, <3>3, <3>4, <3>5, <3>6 DEF WrapperNext
  <2>6. ASSUME NEW l \in Launches, SandboxNext(l) \/ ProxyNext(l) PROVE TypeOK'
    BY <2>6 DEF SandboxNext, BootSandbox, EndSandbox, ProxyNext, ProxyReports,
                ProxyDies
  <2>7. ASSUME NEW l \in Launches, FaultNext(l) PROVE TypeOK'
    <3>1. CASE Interrupt(l)
      BY <3>1 DEF Interrupt, Unwind, RemoveScratch
    <3>2. CASE KillWrapper(l)
      BY <3>2 DEF KillWrapper
    <3>3. CASE TerminateWrapper(l)
      BY <3>3 DEF TerminateWrapper
    <3> QED BY <2>7, <3>1, <3>2, <3>3 DEF FaultNext
  <2> QED BY <2>1, <2>2, <2>3, <2>4, <2>5, <2>6, <2>7 DEF Next
<1> QED BY <1>1, <1>2, PTL DEF Spec

-----------------------------------------------------------------------------
(* The inductive invariant behind NewestKept.  A launch takes its name     *)
(* before its directory exists, so the names of the created sessions are   *)
(* fixed; and what a prune lists has a directory already.                  *)
PruneInv ==
  /\ TypeOK
  /\ \A l \in Launches : pc[l] = "naming" => dir[l] = "none"
  /\ \A l \in Launches : pc[l] = "idle" => dir[l] = "none"
  /\ Doomed \subseteq Created
  /\ NewestKept

(* A set of launches and any subset of it have finite, ordered sizes.      *)
LEMMA SmallerSubset ==
  ASSUME NEW S \in SUBSET Launches, NEW T \in SUBSET S
  PROVE  /\ Cardinality(T) \in Nat
         /\ Cardinality(S) \in Nat
         /\ Cardinality(T) <= Cardinality(S)
<1>1. IsFiniteSet(S)
  BY LaunchAssumption, FS_Subset
<1>2. IsFiniteSet(T) /\ Cardinality(T) <= Cardinality(S)
  BY <1>1, FS_Subset
<1> QED BY <1>1, <1>2, FS_CardinalityType

(* The step every action but two makes for NewestKept: names of created    *)
(* sessions kept, none uncreated, and nothing newly doomed or removed.     *)
LEMMA KeptStep ==
  ASSUME PruneInv, TypeOK',
         \A m \in Created : rank'[m] = rank[m],
         Created \subseteq Created',
         Doomed' \subseteq Created,
         \A v \in Doomed' \cup Removed' :
           v \in Created /\ Cardinality(Newer(Created, v)) >= Retention
  PROVE  NewestKept'
<1> SUFFICES ASSUME NEW v \in (Doomed \cup Removed)'
             PROVE  Cardinality(Newer(Created, v)') >= Retention
  BY DEF NewestKept
<1>1. Newer(Created, v) \subseteq Newer(Created, v)'
  BY DEF Newer
<1>2. Newer(Created, v)' \in SUBSET Launches
  BY DEF Newer, Created
<1>3. /\ Cardinality(Newer(Created, v)) \in Nat
      /\ Cardinality(Newer(Created, v)') \in Nat
      /\ Cardinality(Newer(Created, v)) <= Cardinality(Newer(Created, v)')
  BY <1>1, <1>2, SmallerSubset
<1> QED BY <1>3, RetentionAssumption

(* The newest Retention session directories are never removed, nor marked  *)
(* for removal: for any launches, in any overlap, under any clock.         *)
THEOREM NewestAlwaysKept == Spec => []NewestKept
<1>1. Init => PruneInv
  <2> SUFFICES ASSUME Init PROVE PruneInv
    OBVIOUS
  <2>1. TypeOK
    BY DEF Init, TypeOK, Steps, ProxyStates, SandboxStates
  <2>2. Doomed = {} /\ Removed = {}
    BY LaunchAssumption DEF Init, Doomed, Removed
  <2> QED BY <2>1, <2>2 DEF Init, PruneInv, NewestKept
<1>2. TypeOK /\ TypeOK' /\ PruneInv /\ [Next]_vars => PruneInv'
  <2> SUFFICES ASSUME TypeOK, TypeOK', PruneInv, [Next]_vars
               PROVE  PruneInv'
    OBVIOUS
  <2> USE DEF TypeOK
  <2>1. ASSUME UNCHANGED <<rank, dir, queue, victim>>,
               \A m \in Launches : /\ pc'[m] = "naming" => pc[m] \in {"idle", "naming"}
                                   /\ pc'[m] = "idle" => pc[m] = "idle"
        PROVE  PruneInv'
    BY <2>1 DEF PruneInv, Doomed, Created, Removed, Newer, NewestKept
  <2>2. CASE UNCHANGED vars
    BY <2>1, <2>2 DEF vars
  <2>3. ASSUME NEW l \in Launches, StartWrapper(l) PROVE PruneInv'
    BY <2>1, <2>3 DEF StartWrapper, Goto, Exit
  <2>4. ASSUME NEW l \in Launches, PruneNext(l) PROVE PruneInv'
    <3>1. CASE NameSession(l)
      <4>1. l \notin Created
        BY <3>1 DEF NameSession, PruneInv, Created
      <4>2. UNCHANGED <<dir, queue, victim>> /\ \A m \in Created : rank'[m] = rank[m]
        BY <3>1, <4>1 DEF NameSession, Created
      <4>3. Created' = Created /\ Doomed' = Doomed /\ Removed' = Removed
        BY <4>2 DEF Created, Doomed, Removed
      <4>4. Removed \subseteq Created
        BY DEF Removed, Created
      <4>5. NewestKept'
        BY <4>2, <4>3, <4>4, KeptStep DEF PruneInv, NewestKept
      <4> QED BY <3>1, <4>2, <4>3, <4>5 DEF PruneInv, NameSession, Goto
    <3>2. CASE ListSessions(l)
      <4>1. UNCHANGED <<rank, dir, victim>> /\ Created' = Created /\ Removed' = Removed
        BY <3>2 DEF ListSessions, Created, Removed
      <4>2. \A v \in Doomed' : v \in Doomed \/ (v \in Present
                               /\ Cardinality(Newer(Present, v)) >= Retention)
        BY <3>2 DEF ListSessions, Doomed, Present
      <4>3. Present \subseteq Created /\ Removed \subseteq Created
        BY DEF Present, Created, Removed
      <4>4. ASSUME NEW v \in Doomed' \cup Removed'
            PROVE  v \in Created /\ Cardinality(Newer(Created, v)) >= Retention
        <5>1. CASE v \in Doomed \cup Removed
          BY <5>1, <4>3 DEF PruneInv, NewestKept
        <5>2. CASE v \in Present /\ Cardinality(Newer(Present, v)) >= Retention
          <6>1. Newer(Present, v) \subseteq Newer(Created, v)
            BY <4>3 DEF Newer
          <6>2. Newer(Created, v) \in SUBSET Launches
            BY DEF Newer, Created
          <6>3. /\ Cardinality(Newer(Present, v)) \in Nat
                /\ Cardinality(Newer(Created, v)) \in Nat
                /\ Cardinality(Newer(Present, v)) <= Cardinality(Newer(Created, v))
            BY <6>1, <6>2, SmallerSubset
          <6> QED BY <5>2, <6>3, <4>3, RetentionAssumption
        <5> QED BY <4>1, <4>2, <5>1, <5>2
      <4>5. NewestKept'
        BY <4>1, <4>4, KeptStep
      <4> QED BY <3>2, <4>1, <4>4, <4>5 DEF PruneInv, ListSessions, Goto
    <3>3. CASE SkipLiveSession(l)
      <4>1. UNCHANGED <<rank, dir, victim, pc>> /\ Doomed' \subseteq Doomed
        BY <3>3 DEF SkipLiveSession, Doomed
      <4>2. Created' = Created /\ Removed' = Removed /\ Removed \subseteq Created
        BY <4>1 DEF Created, Removed
      <4>3. NewestKept'
        BY <4>1, <4>2, KeptStep DEF PruneInv, NewestKept
      <4> QED BY <4>1, <4>2, <4>3 DEF PruneInv
    <3>4. CASE PickVictim(l)
      <4>1. UNCHANGED <<rank, dir>> /\ Doomed' \subseteq Doomed
        BY <3>4 DEF PickVictim, IsNext, Doomed
      <4>2. Created' = Created /\ Removed' = Removed /\ Removed \subseteq Created
        BY <4>1 DEF Created, Removed
      <4>3. NewestKept'
        BY <4>1, <4>2, KeptStep DEF PruneInv, NewestKept
      <4> QED BY <3>4, <4>1, <4>2, <4>3 DEF PruneInv, PickVictim, Goto
    <3>5. CASE UnlinkFiles(l)
      BY <3>5, <2>1 DEF UnlinkFiles, Goto
    <3>6. CASE RemoveDirectory(l)
      <4>1. UNCHANGED <<rank, queue>> /\ Doomed' \subseteq Doomed
        BY <3>6, LaunchAssumption DEF RemoveDirectory, Doomed
      <4>2. Removed \subseteq Created /\ Removed' \subseteq Removed \cup Doomed
        BY <3>6 DEF RemoveDirectory, Removed, Created, Doomed
      <4>3. \A m \in Launches : dir'[m] # dir[m] => m \in Doomed
        BY <3>6 DEF RemoveDirectory, Doomed
      <4>4. \A m \in Launches : m \in Doomed => dir[m] # "none"
        BY DEF PruneInv, Created
      <4>5. \A m \in Launches : dir'[m] = "none" <=> dir[m] = "none"
        BY <3>6, <4>3, <4>4 DEF RemoveDirectory
      <4>6. Created' = Created
        BY <4>5 DEF Created
      <4>7. NewestKept'
        BY <4>1, <4>2, <4>6, KeptStep DEF PruneInv, NewestKept
      <4>8. \A m \in Launches : pc'[m] \in {"idle", "naming"} => pc'[m] = pc[m]
        BY <3>6 DEF RemoveDirectory, Goto
      <4> QED BY <4>1, <4>5, <4>6, <4>7, <4>8 DEF PruneInv
    <3>7. CASE CreateSessionDir(l)
      <4>1. UNCHANGED <<rank, queue, victim>> /\ Doomed' = Doomed
        BY <3>7 DEF CreateSessionDir, Doomed
      <4>2. \A m \in Launches : /\ dir'[m] # dir[m] => m = l /\ dir'[m] = "present"
                                /\ m # l => pc'[m] = pc[m]
        BY <3>7 DEF CreateSessionDir, Goto, Exit
      <4>3. pc'[l] \in {"checking", "exited"}
        BY <3>7 DEF CreateSessionDir, Goto, Exit
      <4>4. Created \subseteq Created' /\ Removed' \subseteq Removed /\ Removed \subseteq Created
        BY <4>2 DEF Created, Removed
      <4>5. NewestKept'
        BY <4>1, <4>4, KeptStep DEF PruneInv, NewestKept
      <4> QED BY <4>1, <4>2, <4>3, <4>4, <4>5 DEF PruneInv
    <3> QED BY <2>4, <3>1, <3>2, <3>3, <3>4, <3>5, <3>6, <3>7 DEF PruneNext
  <2>5. ASSUME NEW l \in Launches, PrepareNext(l) PROVE PruneInv'
    <3>1. UNCHANGED <<rank, dir, queue, victim>>
      BY <2>5 DEF PrepareNext, RefuseLaunch, AcceptLaunch, MakeScratch,
                  MakeDatabase, TrustProxy, SkipDatabase, StartProxy, SkipProxy, ReadProxyPort,
                  GiveUpOnProxy, RegisterProxy, WriteConfig, WriteProxyPid,
                  Commit, FailPrepare, ReportLaunch, FailReport
    <3>2. \E step \in Steps \ {"idle", "naming"} : pc' = [pc EXCEPT ![l] = step]
      BY <2>5 DEF PrepareNext, RefuseLaunch, AcceptLaunch, MakeScratch,
                  MakeDatabase, TrustProxy, SkipDatabase, StartProxy, SkipProxy, ReadProxyPort,
                  GiveUpOnProxy, RegisterProxy, WriteConfig, WriteProxyPid,
                  Commit, FailPrepare, ReportLaunch, FailReport, Goto, Exit,
                  ProxyTo, Steps, PrepareSteps, WrapperSteps
    <3> QED BY <2>1, <3>1, <3>2
  <2>6. ASSUME NEW l \in Launches, WrapperNext(l) PROVE PruneInv'
    <3>1. UNCHANGED <<rank, dir, queue, victim>>
      BY <2>6 DEF WrapperNext, WriteLaunchPid, ArmTrap, StartSandbox, RunTrap,
                  KillProxy, SweepScratch
    <3>2. \E step \in Steps \ {"idle", "naming"} : pc' = [pc EXCEPT ![l] = step]
      BY <2>6 DEF WrapperNext, WriteLaunchPid, ArmTrap, StartSandbox, RunTrap,
                  KillProxy, SweepScratch, Goto, Exit, Steps, WrapperSteps
    <3> QED BY <2>1, <3>1, <3>2
  <2>7. ASSUME NEW l \in Launches, SandboxNext(l) \/ ProxyNext(l)
        PROVE  PruneInv'
    BY <2>1, <2>7 DEF SandboxNext, BootSandbox, EndSandbox, ProxyNext,
                      ProxyReports, ProxyDies
  <2>8. ASSUME NEW l \in Launches, FaultNext(l) PROVE PruneInv'
    <3>1. UNCHANGED <<rank, dir, queue, victim>>
      BY <2>8 DEF FaultNext, Interrupt, KillWrapper, TerminateWrapper
    <3>2. pc' = pc \/ \E step \in {"exited", "cleaning"} : pc' = [pc EXCEPT ![l] = step]
      BY <2>8 DEF FaultNext, Interrupt, KillWrapper, TerminateWrapper, Goto, Exit
    <3> QED BY <2>1, <3>1, <3>2
  <2> QED BY <2>2, <2>3, <2>4, <2>5, <2>6, <2>7, <2>8 DEF Next
<1>3. PruneInv => NewestKept
  BY DEF PruneInv
<1> QED BY <1>1, <1>2, <1>3, TypeCorrect, PTL DEF Spec

-----------------------------------------------------------------------------
(* The inductive invariant behind NoOrphanUnlessExposed, when nothing      *)
(* disturbs the launches.  It is what ties the four places a proxy is      *)
(* known in to each other: the program counter, the ExitStack, proxy.pid,  *)
(* and the prune, which may delete proxy.pid only once the launch is over. *)
Beginning == {"idle"} \cup PruneSteps

ControlInv ==
  \A l \in Launches :
    /\ alive[l] <=> pc[l] \notin {"idle", "exited"}
    /\ pc[l] \in Beginning => dir[l] = "none"
    /\ Platform = "linux" => pc[l] # "scratched"
    /\ Running(l) => pc[l] = "running"
    /\ pc[l] \in {"cleaning", "sweeping"} => sandbox[l] = "over"

PruneSafe ==
  /\ Doomed \subseteq Created
  /\ \A l \in Launches : victim[l] \in Launches \ exposed => pc[victim[l]] = "exited"

DirectoryInv ==
  \A l \in Launches \ exposed :
    /\ pc[l] \in PrepareSteps \cup WrapperSteps => dir[l] = "present"
    /\ pc[l] \in {"recorded", "committed"} \cup WrapperSteps /\ proxy[l] # "none"
         => "proxy.pid" \in files[l]

ProxyInv ==
  \A l \in Launches :
    /\ pc[l] \in Beginning \cup {"checking", "checked", "scratched"} => proxy[l] = "none"
    /\ proxy[l] = "serving" =>
         \/ "proxy" \in undo[l]
         \/ pc[l] \notin {"proxied", "trusting", "staged", "written", "recorded"}
    /\ proxy[l] = "starting" => pc[l] = "awaiting"
    /\ pc[l] \in {"sweeping", "exited"} /\ proxy[l] \notin {"none", "failed", "dead"}
         => l \in exposed /\ sandbox[l] = "over" /\ "proxy.pid" \notin files[l]

OwnerInv == ControlInv /\ PruneSafe /\ DirectoryInv /\ ProxyInv

(* Each conjunct of OwnerInv is kept by every step; FaultNext has none to  *)
(* take when Faults is empty.                                              *)

(* The wrapper runs exactly while the launch is under way.                 *)
LEMMA ControlStep ==
  ASSUME Faults = {}, TypeOK, TypeOK', OwnerInv, [Next]_vars
  PROVE  ControlInv'
<1> USE DEF TypeOK, OwnerInv, ControlInv, PruneSafe, Running, Goto, Exit, Steps,
            PruneSteps, PrepareSteps, WrapperSteps, Beginning
<1>1. CASE UNCHANGED vars
  BY <1>1 DEF vars
<1>2. ASSUME NEW l \in Launches, StartWrapper(l) PROVE ControlInv'
  BY <1>2 DEF StartWrapper
<1>3. ASSUME NEW l \in Launches, PruneNext(l) PROVE ControlInv'
  <2>1. CASE NameSession(l)
    BY <2>1 DEF NameSession
  <2>2. CASE ListSessions(l)
    BY <2>2 DEF ListSessions, Present
  <2>3. CASE SkipLiveSession(l)
    BY <2>3 DEF SkipLiveSession
  <2>4. CASE PickVictim(l)
    BY <2>4 DEF PickVictim, IsNext, JudgedOver
  <2>5. CASE UnlinkFiles(l)
    BY <2>5 DEF UnlinkFiles, StillWritten
  <2>6. CASE RemoveDirectory(l)
    <3>1. \A m \in Launches : m = victim[l] => dir[m] # "none"
      BY DEF Doomed, Created
    <3>2. \A m \in Launches : dir[m] = "none" => dir'[m] = "none"
      BY <2>6, <3>1 DEF RemoveDirectory
    <3> QED BY <2>6, <3>2 DEF RemoveDirectory
  <2>7. CASE CreateSessionDir(l)
    BY <2>7 DEF CreateSessionDir
  <2> QED BY <1>3, <2>1, <2>2, <2>3, <2>4, <2>5, <2>6, <2>7
     DEF PruneNext
<1>4. ASSUME NEW l \in Launches, PrepareNext(l) PROVE ControlInv'
  <2>1. CASE RefuseLaunch(l)
    BY <2>1 DEF RefuseLaunch
  <2>2. CASE AcceptLaunch(l)
    BY <2>2 DEF AcceptLaunch
  <2>3. CASE MakeScratch(l)
    BY <2>3 DEF MakeScratch
  <2>4. CASE MakeDatabase(l)
    BY <2>4 DEF MakeDatabase
  <2>5. CASE TrustProxy(l)
    BY <2>5 DEF TrustProxy
  <2>6. CASE SkipDatabase(l)
    BY <2>6 DEF SkipDatabase
  <2>7. CASE StartProxy(l)
    BY <2>7 DEF StartProxy, ProxyFrom
  <2>8. CASE SkipProxy(l)
    BY <2>8 DEF SkipProxy, ProxyFrom, ProxyTo
  <2>9. CASE ReadProxyPort(l)
    BY <2>9 DEF ReadProxyPort
  <2>10. CASE GiveUpOnProxy(l)
    BY <2>10 DEF GiveUpOnProxy, RemoveScratch
  <2>11. CASE RegisterProxy(l)
    BY <2>11 DEF RegisterProxy, ProxyTo
  <2>12. CASE WriteConfig(l)
    BY <2>12 DEF WriteConfig
  <2>13. CASE WriteProxyPid(l)
    BY <2>13 DEF WriteProxyPid
  <2>14. CASE Commit(l)
    BY <2>14 DEF Commit
  <2>15. CASE FailPrepare(l)
    BY <2>15 DEF FailPrepare, Unwind, RemoveScratch
  <2>16. CASE ReportLaunch(l)
    BY <2>16 DEF ReportLaunch
  <2>17. CASE FailReport(l)
    BY <2>17 DEF FailReport
  <2> QED
    BY <1>4, <2>1, <2>2, <2>3, <2>4, <2>5, <2>6, <2>7, <2>8, <2>9,
       <2>10, <2>11, <2>12, <2>13, <2>14, <2>15, <2>16, <2>17
    DEF PrepareNext
<1>5. ASSUME NEW l \in Launches, WrapperNext(l) PROVE ControlInv'
  <2>1. CASE WriteLaunchPid(l)
    BY <2>1 DEF WriteLaunchPid
  <2>2. CASE ArmTrap(l)
    BY <2>2 DEF ArmTrap
  <2>3. CASE StartSandbox(l)
    BY <2>3 DEF StartSandbox
  <2>4. CASE RunTrap(l)
    BY <2>4 DEF RunTrap
  <2>5. CASE KillProxy(l)
    BY <2>5 DEF KillProxy
  <2>6. CASE SweepScratch(l)
    BY <2>6 DEF SweepScratch, StillWritten
  <2> QED BY <1>5, <2>1, <2>2, <2>3, <2>4, <2>5, <2>6
     DEF WrapperNext
<1>6. ASSUME NEW l \in Launches, SandboxNext(l) PROVE ControlInv'
  <2>1. CASE BootSandbox(l)
    BY <2>1 DEF BootSandbox
  <2>2. CASE EndSandbox(l)
    BY <2>2 DEF EndSandbox
  <2> QED BY <1>6, <2>1, <2>2
     DEF SandboxNext
<1>7. ASSUME NEW l \in Launches, ProxyNext(l) PROVE ControlInv'
  <2>1. CASE ProxyReports(l)
    BY <2>1 DEF ProxyReports
  <2>2. CASE ProxyDies(l)
    BY <2>2 DEF ProxyDies
  <2> QED BY <1>7, <2>1, <2>2
     DEF ProxyNext
<1>8. ASSUME NEW l \in Launches, FaultNext(l) PROVE ControlInv'
  BY <1>8 DEF FaultNext, Interrupt, KillWrapper, TerminateWrapper
<1> QED BY <1>1, <1>2, <1>3, <1>4, <1>5, <1>6, <1>7, <1>8 DEF Next

(* A prune deletes what was judged over: exposed, or really over.          *)
LEMMA PruneStep ==
  ASSUME Faults = {}, TypeOK, TypeOK', OwnerInv, [Next]_vars
  PROVE  PruneSafe'
<1> USE DEF TypeOK, OwnerInv, ControlInv, PruneSafe, Doomed, Created, Goto,
            Exit, Steps, PruneSteps, PrepareSteps, WrapperSteps, Beginning
<1>1. CASE UNCHANGED vars
  BY <1>1 DEF vars
<1>2. ASSUME NEW l \in Launches, StartWrapper(l) PROVE PruneSafe'
  BY <1>2 DEF StartWrapper
<1>3. ASSUME NEW l \in Launches, PruneNext(l) PROVE PruneSafe'
  <2>1. CASE NameSession(l)
    BY <2>1 DEF NameSession
  <2>2. CASE ListSessions(l)
    <3>1. UNCHANGED <<dir, victim, exposed>>
      BY <2>2 DEF ListSessions
    <3>2. \A m \in Launches : queue'[m] \subseteq queue[m] \cup Created
      BY <2>2 DEF ListSessions, Present
    <3>3. Doomed' \subseteq Created'
      BY <3>1, <3>2
    <3>4. \A m \in Launches : pc[m] = "exited" => pc'[m] = "exited"
      BY <2>2 DEF ListSessions
    <3> QED BY <3>1, <3>3, <3>4
  <2>3. CASE SkipLiveSession(l)
    BY <2>3 DEF SkipLiveSession
  <2>4. CASE PickVictim(l)
    BY <2>4 DEF PickVictim, IsNext, JudgedOver
  <2>5. CASE UnlinkFiles(l)
    BY <2>5 DEF UnlinkFiles, StillWritten
  <2>6. CASE RemoveDirectory(l)
    BY <2>6, LaunchAssumption DEF RemoveDirectory
  <2>7. CASE CreateSessionDir(l)
    BY <2>7 DEF CreateSessionDir
  <2> QED BY <1>3, <2>1, <2>2, <2>3, <2>4, <2>5, <2>6, <2>7
     DEF PruneNext
<1>4. ASSUME NEW l \in Launches, PrepareNext(l) PROVE PruneSafe'
  <2>1. CASE RefuseLaunch(l)
    BY <2>1 DEF RefuseLaunch
  <2>2. CASE AcceptLaunch(l)
    BY <2>2 DEF AcceptLaunch
  <2>3. CASE MakeScratch(l)
    BY <2>3 DEF MakeScratch
  <2>4. CASE MakeDatabase(l)
    BY <2>4 DEF MakeDatabase
  <2>5. CASE TrustProxy(l)
    BY <2>5 DEF TrustProxy
  <2>6. CASE SkipDatabase(l)
    BY <2>6 DEF SkipDatabase
  <2>7. CASE StartProxy(l)
    BY <2>7 DEF StartProxy, ProxyFrom
  <2>8. CASE SkipProxy(l)
    BY <2>8 DEF SkipProxy, ProxyFrom, ProxyTo
  <2>9. CASE ReadProxyPort(l)
    BY <2>9 DEF ReadProxyPort
  <2>10. CASE GiveUpOnProxy(l)
    BY <2>10 DEF GiveUpOnProxy, RemoveScratch
  <2>11. CASE RegisterProxy(l)
    BY <2>11 DEF RegisterProxy, ProxyTo
  <2>12. CASE WriteConfig(l)
    BY <2>12 DEF WriteConfig
  <2>13. CASE WriteProxyPid(l)
    BY <2>13 DEF WriteProxyPid
  <2>14. CASE Commit(l)
    BY <2>14 DEF Commit
  <2>15. CASE FailPrepare(l)
    BY <2>15 DEF FailPrepare, Unwind, RemoveScratch
  <2>16. CASE ReportLaunch(l)
    BY <2>16 DEF ReportLaunch
  <2>17. CASE FailReport(l)
    BY <2>17 DEF FailReport
  <2> QED
    BY <1>4, <2>1, <2>2, <2>3, <2>4, <2>5, <2>6, <2>7, <2>8, <2>9,
       <2>10, <2>11, <2>12, <2>13, <2>14, <2>15, <2>16, <2>17
    DEF PrepareNext
<1>5. ASSUME NEW l \in Launches, WrapperNext(l) PROVE PruneSafe'
  <2>1. CASE WriteLaunchPid(l)
    BY <2>1 DEF WriteLaunchPid
  <2>2. CASE ArmTrap(l)
    BY <2>2 DEF ArmTrap
  <2>3. CASE StartSandbox(l)
    BY <2>3 DEF StartSandbox
  <2>4. CASE RunTrap(l)
    BY <2>4 DEF RunTrap
  <2>5. CASE KillProxy(l)
    BY <2>5 DEF KillProxy
  <2>6. CASE SweepScratch(l)
    BY <2>6 DEF SweepScratch, StillWritten
  <2> QED BY <1>5, <2>1, <2>2, <2>3, <2>4, <2>5, <2>6
     DEF WrapperNext
<1>6. ASSUME NEW l \in Launches, SandboxNext(l) PROVE PruneSafe'
  <2>1. CASE BootSandbox(l)
    BY <2>1 DEF BootSandbox
  <2>2. CASE EndSandbox(l)
    BY <2>2 DEF EndSandbox
  <2> QED BY <1>6, <2>1, <2>2
     DEF SandboxNext
<1>7. ASSUME NEW l \in Launches, ProxyNext(l) PROVE PruneSafe'
  <2>1. CASE ProxyReports(l)
    BY <2>1 DEF ProxyReports
  <2>2. CASE ProxyDies(l)
    BY <2>2 DEF ProxyDies
  <2> QED BY <1>7, <2>1, <2>2
     DEF ProxyNext
<1>8. ASSUME NEW l \in Launches, FaultNext(l) PROVE PruneSafe'
  BY <1>8 DEF FaultNext, Interrupt, KillWrapper, TerminateWrapper
<1> QED BY <1>1, <1>2, <1>3, <1>4, <1>5, <1>6, <1>7, <1>8 DEF Next

(* So the directory of a launch under way, and proxy.pid in it, last.      *)
LEMMA DirectoryStep ==
  ASSUME Faults = {}, TypeOK, TypeOK', OwnerInv, [Next]_vars
  PROVE  DirectoryInv'
<1> USE DEF TypeOK, OwnerInv, ControlInv, PruneSafe, DirectoryInv, ProxyInv,
            Written, Goto, Exit, Files, Steps, PruneSteps, PrepareSteps,
            WrapperSteps, Beginning
<1>1. CASE UNCHANGED vars
  BY <1>1 DEF vars
<1>2. ASSUME NEW l \in Launches, StartWrapper(l) PROVE DirectoryInv'
  BY <1>2 DEF StartWrapper
<1>3. ASSUME NEW l \in Launches, PruneNext(l) PROVE DirectoryInv'
  <2>1. CASE NameSession(l)
    BY <2>1 DEF NameSession
  <2>2. CASE ListSessions(l)
    BY <2>2 DEF ListSessions, Present
  <2>3. CASE SkipLiveSession(l)
    BY <2>3 DEF SkipLiveSession
  <2>4. CASE PickVictim(l)
    BY <2>4 DEF PickVictim, IsNext, JudgedOver
  <2>5. CASE UnlinkFiles(l)
    BY <2>5 DEF UnlinkFiles, StillWritten
  <2>6. CASE RemoveDirectory(l)
    BY <2>6, LaunchAssumption DEF RemoveDirectory
  <2>7. CASE CreateSessionDir(l)
    BY <2>7 DEF CreateSessionDir
  <2> QED BY <1>3, <2>1, <2>2, <2>3, <2>4, <2>5, <2>6, <2>7
     DEF PruneNext
<1>4. ASSUME NEW l \in Launches, PrepareNext(l) PROVE DirectoryInv'
  <2>1. CASE RefuseLaunch(l)
    BY <2>1 DEF RefuseLaunch
  <2>2. CASE AcceptLaunch(l)
    BY <2>2 DEF AcceptLaunch
  <2>3. CASE MakeScratch(l)
    BY <2>3 DEF MakeScratch
  <2>4. CASE MakeDatabase(l)
    BY <2>4 DEF MakeDatabase
  <2>5. CASE TrustProxy(l)
    BY <2>5 DEF TrustProxy
  <2>6. CASE SkipDatabase(l)
    BY <2>6 DEF SkipDatabase
  <2>7. CASE StartProxy(l)
    BY <2>7 DEF StartProxy, ProxyFrom
  <2>8. CASE SkipProxy(l)
    BY <2>8 DEF SkipProxy, ProxyFrom, ProxyTo
  <2>9. CASE ReadProxyPort(l)
    BY <2>9 DEF ReadProxyPort
  <2>10. CASE GiveUpOnProxy(l)
    BY <2>10 DEF GiveUpOnProxy, RemoveScratch
  <2>11. CASE RegisterProxy(l)
    BY <2>11 DEF RegisterProxy, ProxyTo
  <2>12. CASE WriteConfig(l)
    BY <2>12 DEF WriteConfig
  <2>13. CASE WriteProxyPid(l)
    BY <2>13 DEF WriteProxyPid
  <2>14. CASE Commit(l)
    BY <2>14 DEF Commit
  <2>15. CASE FailPrepare(l)
    BY <2>15 DEF FailPrepare, Unwind, RemoveScratch
  <2>16. CASE ReportLaunch(l)
    BY <2>16 DEF ReportLaunch
  <2>17. CASE FailReport(l)
    BY <2>17 DEF FailReport
  <2> QED
    BY <1>4, <2>1, <2>2, <2>3, <2>4, <2>5, <2>6, <2>7, <2>8, <2>9,
       <2>10, <2>11, <2>12, <2>13, <2>14, <2>15, <2>16, <2>17
    DEF PrepareNext
<1>5. ASSUME NEW l \in Launches, WrapperNext(l) PROVE DirectoryInv'
  <2>1. CASE WriteLaunchPid(l)
    BY <2>1 DEF WriteLaunchPid
  <2>2. CASE ArmTrap(l)
    BY <2>2 DEF ArmTrap
  <2>3. CASE StartSandbox(l)
    BY <2>3 DEF StartSandbox
  <2>4. CASE RunTrap(l)
    BY <2>4 DEF RunTrap
  <2>5. CASE KillProxy(l)
    BY <2>5 DEF KillProxy
  <2>6. CASE SweepScratch(l)
    BY <2>6 DEF SweepScratch, StillWritten
  <2> QED BY <1>5, <2>1, <2>2, <2>3, <2>4, <2>5, <2>6
     DEF WrapperNext
<1>6. ASSUME NEW l \in Launches, SandboxNext(l) PROVE DirectoryInv'
  <2>1. CASE BootSandbox(l)
    BY <2>1 DEF BootSandbox
  <2>2. CASE EndSandbox(l)
    BY <2>2 DEF EndSandbox
  <2> QED BY <1>6, <2>1, <2>2
     DEF SandboxNext
<1>7. ASSUME NEW l \in Launches, ProxyNext(l) PROVE DirectoryInv'
  <2>1. CASE ProxyReports(l)
    BY <2>1 DEF ProxyReports
  <2>2. CASE ProxyDies(l)
    BY <2>2 DEF ProxyDies
  <2> QED BY <1>7, <2>1, <2>2
     DEF ProxyNext
<1>8. ASSUME NEW l \in Launches, FaultNext(l) PROVE DirectoryInv'
  BY <1>8 DEF FaultNext, Interrupt, KillWrapper, TerminateWrapper
<1> QED BY <1>1, <1>2, <1>3, <1>4, <1>5, <1>6, <1>7, <1>8 DEF Next

(* So the proxy is found by whoever has to kill it.                        *)
LEMMA ProxyStep ==
  ASSUME Faults = {}, TypeOK, TypeOK', OwnerInv, [Next]_vars
  PROVE  ProxyInv'
<1> USE DEF TypeOK, OwnerInv, ControlInv, DirectoryInv, ProxyInv, Written,
            Goto, Exit, ProxyStates, Steps, PruneSteps, PrepareSteps,
            WrapperSteps, Beginning
<1>1. CASE UNCHANGED vars
  BY <1>1 DEF vars
<1>2. ASSUME NEW l \in Launches, StartWrapper(l) PROVE ProxyInv'
  BY <1>2 DEF StartWrapper
<1>3. ASSUME NEW l \in Launches, PruneNext(l) PROVE ProxyInv'
  <2>1. CASE NameSession(l)
    BY <2>1 DEF NameSession
  <2>2. CASE ListSessions(l)
    BY <2>2 DEF ListSessions, Present
  <2>3. CASE SkipLiveSession(l)
    BY <2>3 DEF SkipLiveSession
  <2>4. CASE PickVictim(l)
    BY <2>4 DEF PickVictim, IsNext, JudgedOver
  <2>5. CASE UnlinkFiles(l)
    BY <2>5 DEF UnlinkFiles, StillWritten
  <2>6. CASE RemoveDirectory(l)
    BY <2>6, LaunchAssumption DEF RemoveDirectory
  <2>7. CASE CreateSessionDir(l)
    BY <2>7 DEF CreateSessionDir
  <2> QED BY <1>3, <2>1, <2>2, <2>3, <2>4, <2>5, <2>6, <2>7
     DEF PruneNext
<1>4. ASSUME NEW l \in Launches, PrepareNext(l) PROVE ProxyInv'
  <2>1. CASE RefuseLaunch(l)
    BY <2>1 DEF RefuseLaunch
  <2>2. CASE AcceptLaunch(l)
    BY <2>2 DEF AcceptLaunch
  <2>3. CASE MakeScratch(l)
    BY <2>3 DEF MakeScratch
  <2>4. CASE MakeDatabase(l)
    BY <2>4 DEF MakeDatabase
  <2>5. CASE TrustProxy(l)
    BY <2>5 DEF TrustProxy
  <2>6. CASE SkipDatabase(l)
    BY <2>6 DEF SkipDatabase
  <2>7. CASE StartProxy(l)
    BY <2>7 DEF StartProxy, ProxyFrom
  <2>8. CASE SkipProxy(l)
    BY <2>8 DEF SkipProxy, ProxyFrom, ProxyTo
  <2>9. CASE ReadProxyPort(l)
    BY <2>9 DEF ReadProxyPort
  <2>10. CASE GiveUpOnProxy(l)
    BY <2>10 DEF GiveUpOnProxy, RemoveScratch
  <2>11. CASE RegisterProxy(l)
    BY <2>11 DEF RegisterProxy, ProxyTo
  <2>12. CASE WriteConfig(l)
    BY <2>12 DEF WriteConfig
  <2>13. CASE WriteProxyPid(l)
    BY <2>13 DEF WriteProxyPid
  <2>14. CASE Commit(l)
    BY <2>14 DEF Commit
  <2>15. CASE FailPrepare(l)
    BY <2>15 DEF FailPrepare, Unwind, RemoveScratch
  <2>16. CASE ReportLaunch(l)
    BY <2>16 DEF ReportLaunch
  <2>17. CASE FailReport(l)
    BY <2>17 DEF FailReport
  <2> QED
    BY <1>4, <2>1, <2>2, <2>3, <2>4, <2>5, <2>6, <2>7, <2>8, <2>9,
       <2>10, <2>11, <2>12, <2>13, <2>14, <2>15, <2>16, <2>17
    DEF PrepareNext
<1>5. ASSUME NEW l \in Launches, WrapperNext(l) PROVE ProxyInv'
  <2>1. CASE WriteLaunchPid(l)
    BY <2>1 DEF WriteLaunchPid
  <2>2. CASE ArmTrap(l)
    BY <2>2 DEF ArmTrap
  <2>3. CASE StartSandbox(l)
    BY <2>3 DEF StartSandbox
  <2>4. CASE RunTrap(l)
    BY <2>4 DEF RunTrap
  <2>5. CASE KillProxy(l)
    BY <2>5 DEF KillProxy
  <2>6. CASE SweepScratch(l)
    BY <2>6 DEF SweepScratch, StillWritten
  <2> QED BY <1>5, <2>1, <2>2, <2>3, <2>4, <2>5, <2>6
     DEF WrapperNext
<1>6. ASSUME NEW l \in Launches, SandboxNext(l) PROVE ProxyInv'
  <2>1. CASE BootSandbox(l)
    BY <2>1 DEF BootSandbox
  <2>2. CASE EndSandbox(l)
    BY <2>2 DEF EndSandbox
  <2> QED BY <1>6, <2>1, <2>2
     DEF SandboxNext
<1>7. ASSUME NEW l \in Launches, ProxyNext(l) PROVE ProxyInv'
  <2>1. CASE ProxyReports(l)
    BY <2>1 DEF ProxyReports
  <2>2. CASE ProxyDies(l)
    BY <2>2 DEF ProxyDies
  <2> QED BY <1>7, <2>1, <2>2
     DEF ProxyNext
<1>8. ASSUME NEW l \in Launches, FaultNext(l) PROVE ProxyInv'
  BY <1>8 DEF FaultNext, Interrupt, KillWrapper, TerminateWrapper
<1> QED BY <1>1, <1>2, <1>3, <1>4, <1>5, <1>6, <1>7, <1>8 DEF Next

LEMMA OwnerAlways == Faults = {} => (Spec => []OwnerInv)
<1> SUFFICES ASSUME Faults = {} PROVE Spec => []OwnerInv
  OBVIOUS
<1>1. Init => OwnerInv
  <2> SUFFICES ASSUME Init PROVE OwnerInv
    OBVIOUS
  <2>1. Doomed = {} /\ \A l \in Launches : victim[l] \notin Launches
    BY LaunchAssumption DEF Init, Doomed
  <2> QED BY <2>1 DEF Init, OwnerInv, ControlInv, PruneSafe, DirectoryInv,
                      ProxyInv, Running, Beginning, PruneSteps, PrepareSteps,
                      WrapperSteps
<1>2. TypeOK /\ TypeOK' /\ OwnerInv /\ [Next]_vars => OwnerInv'
  BY ControlStep, PruneStep, DirectoryStep, ProxyStep DEF OwnerInv
<1> QED BY <1>1, <1>2, TypeCorrect, PTL DEF Spec

(* While nothing disturbs the launches from outside, a launch that ended   *)
(* has no proxy left, wherever its prepare failed.  The exception is a     *)
(* launch that got to its sandbox after another's prune had judged the     *)
(* session over, and lost proxy.pid (cleanup.py:23-32).                    *)
THEOREM ProxyNeverOrphaned == Faults = {} => (Spec => []NoOrphanUnlessExposed)
<1> SUFFICES ASSUME Faults = {} PROVE Spec => []NoOrphanUnlessExposed
  OBVIOUS
<1>1. OwnerInv => NoOrphanUnlessExposed
  BY DEF OwnerInv, ProxyInv, NoOrphanUnlessExposed
<1> QED BY <1>1, OwnerAlways, PTL

-----------------------------------------------------------------------------
(* The inductive invariant behind ScratchRemovedUnlessExposed, on top of   *)
(* OwnerInv: what the scratch directories are removed by.  Until the       *)
(* commit that is the ExitStack, except while certutil fills the database, *)
(* and from then on the cleanup list, written before the commit.           *)
ScratchInv ==
  \A l \in Launches :
    /\ pc[l] \in Beginning \cup {"checking", "checked"}
         => "scratch" \notin files[l] /\ "trust" \notin files[l]
    /\ Platform = "linux" /\ pc[l] \in {"awaiting", "handover", "proxied"}
         => "scratch" \notin files[l] /\ "trust" \notin files[l]
    /\ pc[l] = "trusting" => Platform = "linux" /\ "trust" \notin files[l]
    /\ pc[l] \in PrepareSteps \ {"trusting", "committed"} /\ "scratch" \in files[l]
         => "scratch" \in undo[l]
    /\ pc[l] \in {"written", "recorded", "committed"} \cup WrapperSteps
         => "config" \in files[l] \/ l \in exposed
    /\ pc[l] = "exited" /\ "scratch" \in files[l] =>
         \/ Platform = "linux" /\ "trust" \notin files[l]
         \/ l \in exposed /\ sandbox[l] = "over" /\ "config" \notin files[l]

LEMMA ScratchStep ==
  ASSUME Faults = {}, TypeOK, TypeOK', OwnerInv, ScratchInv, [Next]_vars
  PROVE  ScratchInv'
<1> USE DEF TypeOK, OwnerInv, ControlInv, PruneSafe, DirectoryInv, ScratchInv,
            Running, Written, Goto, Exit, Files, Steps, PruneSteps, PrepareSteps,
            WrapperSteps, Beginning
<1>1. CASE UNCHANGED vars
  BY <1>1 DEF vars
<1>2. ASSUME NEW l \in Launches, StartWrapper(l) PROVE ScratchInv'
  BY <1>2 DEF StartWrapper
<1>3. ASSUME NEW l \in Launches, PruneNext(l) PROVE ScratchInv'
  <2>1. CASE NameSession(l)
    BY <2>1 DEF NameSession
  <2>2. CASE ListSessions(l)
    BY <2>2 DEF ListSessions, Present
  <2>3. CASE SkipLiveSession(l)
    BY <2>3 DEF SkipLiveSession
  <2>4. CASE PickVictim(l)
    BY <2>4 DEF PickVictim, IsNext, JudgedOver
  <2>5. CASE UnlinkFiles(l)
    BY <2>5 DEF UnlinkFiles, StillWritten
  <2>6. CASE RemoveDirectory(l)
    BY <2>6 DEF RemoveDirectory
  <2>7. CASE CreateSessionDir(l)
    BY <2>7 DEF CreateSessionDir
  <2> QED BY <1>3, <2>1, <2>2, <2>3, <2>4, <2>5, <2>6, <2>7
     DEF PruneNext
<1>4. ASSUME NEW l \in Launches, PrepareNext(l) PROVE ScratchInv'
  <2>1. CASE RefuseLaunch(l)
    BY <2>1 DEF RefuseLaunch
  <2>2. CASE AcceptLaunch(l)
    BY <2>2 DEF AcceptLaunch
  <2>3. CASE MakeScratch(l)
    BY <2>3 DEF MakeScratch
  <2>4. CASE MakeDatabase(l)
    BY <2>4 DEF MakeDatabase
  <2>5. CASE TrustProxy(l)
    BY <2>5 DEF TrustProxy
  <2>6. CASE SkipDatabase(l)
    BY <2>6 DEF SkipDatabase
  <2>7. CASE StartProxy(l)
    BY <2>7 DEF StartProxy, ProxyFrom
  <2>8. CASE SkipProxy(l)
    BY <2>8 DEF SkipProxy, ProxyFrom, ProxyTo
  <2>9. CASE ReadProxyPort(l)
    BY <2>9 DEF ReadProxyPort
  <2>10. CASE GiveUpOnProxy(l)
    BY <2>10 DEF GiveUpOnProxy, RemoveScratch
  <2>11. CASE RegisterProxy(l)
    BY <2>11 DEF RegisterProxy, ProxyTo
  <2>12. CASE WriteConfig(l)
    BY <2>12 DEF WriteConfig
  <2>13. CASE WriteProxyPid(l)
    BY <2>13 DEF WriteProxyPid
  <2>14. CASE Commit(l)
    BY <2>14 DEF Commit
  <2>15. CASE FailPrepare(l)
    BY <2>15 DEF FailPrepare, Unwind, RemoveScratch
  <2>16. CASE ReportLaunch(l)
    BY <2>16 DEF ReportLaunch
  <2>17. CASE FailReport(l)
    BY <2>17 DEF FailReport
  <2> QED
    BY <1>4, <2>1, <2>2, <2>3, <2>4, <2>5, <2>6, <2>7, <2>8, <2>9,
       <2>10, <2>11, <2>12, <2>13, <2>14, <2>15, <2>16, <2>17
    DEF PrepareNext
<1>5. ASSUME NEW l \in Launches, WrapperNext(l) PROVE ScratchInv'
  <2>1. CASE WriteLaunchPid(l)
    BY <2>1 DEF WriteLaunchPid
  <2>2. CASE ArmTrap(l)
    BY <2>2 DEF ArmTrap
  <2>3. CASE StartSandbox(l)
    BY <2>3 DEF StartSandbox
  <2>4. CASE RunTrap(l)
    BY <2>4 DEF RunTrap
  <2>5. CASE KillProxy(l)
    BY <2>5 DEF KillProxy
  <2>6. CASE SweepScratch(l)
    BY <2>6 DEF SweepScratch, StillWritten
  <2> QED BY <1>5, <2>1, <2>2, <2>3, <2>4, <2>5, <2>6
     DEF WrapperNext
<1>6. ASSUME NEW l \in Launches, SandboxNext(l) PROVE ScratchInv'
  <2>1. CASE BootSandbox(l)
    BY <2>1 DEF BootSandbox
  <2>2. CASE EndSandbox(l)
    BY <2>2 DEF EndSandbox
  <2> QED BY <1>6, <2>1, <2>2
     DEF SandboxNext
<1>7. ASSUME NEW l \in Launches, ProxyNext(l) PROVE ScratchInv'
  <2>1. CASE ProxyReports(l)
    BY <2>1 DEF ProxyReports
  <2>2. CASE ProxyDies(l)
    BY <2>2 DEF ProxyDies
  <2> QED BY <1>7, <2>1, <2>2
     DEF ProxyNext
<1>8. ASSUME NEW l \in Launches, FaultNext(l) PROVE ScratchInv'
  BY <1>8 DEF FaultNext, Interrupt, KillWrapper, TerminateWrapper
<1> QED BY <1>1, <1>2, <1>3, <1>4, <1>5, <1>6, <1>7, <1>8 DEF Next

(* Nor has it scratch directories left, with the same exception and that   *)
(* of an NSS directory certutil failed in (session_state.py:246-262,       *)
(* prepare.py:80-128, cleanup.py:34-54).                                   *)
THEOREM ScratchAlwaysRemoved == Faults = {} => (Spec => []ScratchRemovedUnlessExposed)
<1> SUFFICES ASSUME Faults = {} PROVE Spec => []ScratchRemovedUnlessExposed
  OBVIOUS
<1>1. Init => ScratchInv
  BY DEF Init, ScratchInv, PrepareSteps, WrapperSteps
<1>2. TypeOK /\ TypeOK' /\ OwnerInv /\ ScratchInv /\ [Next]_vars => ScratchInv'
  BY ScratchStep
<1>3. ScratchInv => ScratchRemovedUnlessExposed
  BY DEF ScratchInv, ScratchRemovedUnlessExposed
<1> QED BY <1>1, <1>2, <1>3, TypeCorrect, OwnerAlways, PTL DEF Spec

-----------------------------------------------------------------------------
(* The inductive invariant behind RunningKept, under every disturbance: a  *)
(* wrapper that is still there keeps its session's files, stage by stage.  *)
KeptControl ==
  \A l \in Launches :
    /\ pc[l] \in Beginning => dir[l] = "none"
    /\ pc[l] \in {"idle", "exited"} => ~ alive[l]
    /\ pc[l] \in {"prepared", "marked", "armed", "running"} => alive[l]
    /\ sandbox[l] # "none" => pc[l] \in {"running", "cleaning", "sweeping", "exited"}

KeptVictims ==
  /\ Doomed \subseteq Created
  /\ \A l \in Launches : victim[l] \in Launches \ exposed => ~ alive[victim[l]]

KeptFiles ==
  \A l \in Launches \ exposed :
    alive[l] =>
      /\ pc[l] \in PrepareSteps \cup WrapperSteps
           => dir[l] = "present" /\ "log" \in files[l]
      /\ pc[l] \in {"written", "recorded", "committed"} \cup WrapperSteps
           => /\ "config" \in files[l]
              /\ proxy[l] # "none" => "cert" \in files[l]
      /\ pc[l] \in {"recorded", "committed"} \cup WrapperSteps /\ proxy[l] # "none"
           => "proxy.pid" \in files[l]
      /\ pc[l] \in WrapperSteps \ {"prepared"} => "launch.pid" \in files[l]

KeptInv == KeptControl /\ KeptVictims /\ KeptFiles /\ SandboxedUnlessExposed

(* The wrapper is there between prepare and its own cleanup.              *)
LEMMA KeptControlStep ==
  ASSUME TypeOK, TypeOK', KeptInv, [Next]_vars
  PROVE  KeptControl'
<1> USE DEF TypeOK, KeptInv, KeptControl, Goto, Exit, Steps, PruneSteps,
            PrepareSteps, WrapperSteps, Beginning
<1>1. CASE UNCHANGED vars
  BY <1>1 DEF vars
<1>2. ASSUME NEW l \in Launches, StartWrapper(l) PROVE KeptControl'
  BY <1>2 DEF StartWrapper
<1>3. ASSUME NEW l \in Launches, PruneNext(l) PROVE KeptControl'
  <2>1. CASE NameSession(l)
    BY <2>1 DEF NameSession
  <2>2. CASE ListSessions(l)
    BY <2>2 DEF ListSessions, Present
  <2>3. CASE SkipLiveSession(l)
    BY <2>3 DEF SkipLiveSession
  <2>4. CASE PickVictim(l)
    BY <2>4 DEF PickVictim, IsNext, JudgedOver
  <2>5. CASE UnlinkFiles(l)
    BY <2>5 DEF UnlinkFiles, StillWritten
  <2>6. CASE RemoveDirectory(l)
    <3>1. \A m \in Launches : m = victim[l] => dir[m] # "none"
      BY DEF KeptVictims, Doomed, Created
    <3>2. \A m \in Launches : dir[m] = "none" => dir'[m] = "none"
      BY <2>6, <3>1 DEF RemoveDirectory
    <3> QED BY <2>6, <3>2 DEF RemoveDirectory
  <2>7. CASE CreateSessionDir(l)
    BY <2>7 DEF CreateSessionDir
  <2> QED BY <1>3, <2>1, <2>2, <2>3, <2>4, <2>5, <2>6, <2>7
     DEF PruneNext
<1>4. ASSUME NEW l \in Launches, PrepareNext(l) PROVE KeptControl'
  <2>1. CASE RefuseLaunch(l)
    BY <2>1 DEF RefuseLaunch
  <2>2. CASE AcceptLaunch(l)
    BY <2>2 DEF AcceptLaunch
  <2>3. CASE MakeScratch(l)
    BY <2>3 DEF MakeScratch
  <2>4. CASE MakeDatabase(l)
    BY <2>4 DEF MakeDatabase
  <2>5. CASE TrustProxy(l)
    BY <2>5 DEF TrustProxy
  <2>6. CASE SkipDatabase(l)
    BY <2>6 DEF SkipDatabase
  <2>7. CASE StartProxy(l)
    BY <2>7 DEF StartProxy, ProxyFrom
  <2>8. CASE SkipProxy(l)
    BY <2>8 DEF SkipProxy, ProxyFrom, ProxyTo
  <2>9. CASE ReadProxyPort(l)
    BY <2>9 DEF ReadProxyPort
  <2>10. CASE GiveUpOnProxy(l)
    BY <2>10 DEF GiveUpOnProxy, RemoveScratch
  <2>11. CASE RegisterProxy(l)
    BY <2>11 DEF RegisterProxy, ProxyTo
  <2>12. CASE WriteConfig(l)
    BY <2>12 DEF WriteConfig
  <2>13. CASE WriteProxyPid(l)
    BY <2>13 DEF WriteProxyPid
  <2>14. CASE Commit(l)
    BY <2>14 DEF Commit
  <2>15. CASE FailPrepare(l)
    BY <2>15 DEF FailPrepare, Unwind, RemoveScratch
  <2>16. CASE ReportLaunch(l)
    BY <2>16 DEF ReportLaunch
  <2>17. CASE FailReport(l)
    BY <2>17 DEF FailReport
  <2> QED
    BY <1>4, <2>1, <2>2, <2>3, <2>4, <2>5, <2>6, <2>7, <2>8, <2>9,
       <2>10, <2>11, <2>12, <2>13, <2>14, <2>15, <2>16, <2>17
    DEF PrepareNext
<1>5. ASSUME NEW l \in Launches, WrapperNext(l) PROVE KeptControl'
  <2>1. CASE WriteLaunchPid(l)
    BY <2>1 DEF WriteLaunchPid
  <2>2. CASE ArmTrap(l)
    BY <2>2 DEF ArmTrap
  <2>3. CASE StartSandbox(l)
    BY <2>3 DEF StartSandbox
  <2>4. CASE RunTrap(l)
    BY <2>4 DEF RunTrap
  <2>5. CASE KillProxy(l)
    BY <2>5 DEF KillProxy
  <2>6. CASE SweepScratch(l)
    BY <2>6 DEF SweepScratch, StillWritten
  <2> QED BY <1>5, <2>1, <2>2, <2>3, <2>4, <2>5, <2>6
     DEF WrapperNext
<1>6. ASSUME NEW l \in Launches, SandboxNext(l) PROVE KeptControl'
  <2>1. CASE BootSandbox(l)
    BY <2>1 DEF BootSandbox
  <2>2. CASE EndSandbox(l)
    BY <2>2 DEF EndSandbox, Running
  <2> QED BY <1>6, <2>1, <2>2
     DEF SandboxNext
<1>7. ASSUME NEW l \in Launches, ProxyNext(l) PROVE KeptControl'
  <2>1. CASE ProxyReports(l)
    BY <2>1 DEF ProxyReports
  <2>2. CASE ProxyDies(l)
    BY <2>2 DEF ProxyDies
  <2> QED BY <1>7, <2>1, <2>2
     DEF ProxyNext
<1>8. ASSUME NEW l \in Launches, FaultNext(l) PROVE KeptControl'
  <2>1. CASE Interrupt(l)
    BY <2>1 DEF Interrupt, Unwind, RemoveScratch
  <2>2. CASE KillWrapper(l)
    BY <2>2 DEF KillWrapper
  <2>3. CASE TerminateWrapper(l)
    BY <2>3 DEF TerminateWrapper
  <2> QED BY <1>8, <2>1, <2>2, <2>3
     DEF FaultNext
<1> QED BY <1>1, <1>2, <1>3, <1>4, <1>5, <1>6, <1>7, <1>8 DEF Next

(* What is being removed was exposed, or has lost its wrapper for good.    *)
LEMMA KeptVictimsStep ==
  ASSUME TypeOK, TypeOK', KeptInv, [Next]_vars
  PROVE  KeptVictims'
<1> USE DEF TypeOK, KeptInv, KeptControl, KeptVictims, Doomed, Created, Goto,
            Exit, Steps, PruneSteps, PrepareSteps, WrapperSteps, Beginning
<1>1. CASE UNCHANGED vars
  BY <1>1 DEF vars
<1>2. ASSUME NEW l \in Launches, StartWrapper(l) PROVE KeptVictims'
  BY <1>2 DEF StartWrapper
<1>3. ASSUME NEW l \in Launches, PruneNext(l) PROVE KeptVictims'
  <2>1. CASE NameSession(l)
    BY <2>1 DEF NameSession
  <2>2. CASE ListSessions(l)
    <3>1. UNCHANGED <<dir, alive, victim, exposed>>
      BY <2>2 DEF ListSessions
    <3>2. \A m \in Launches : queue'[m] \subseteq queue[m] \cup Created
      BY <2>2 DEF ListSessions, Present
    <3>3. Doomed' \subseteq Created'
      BY <3>1, <3>2
    <3> QED BY <3>1, <3>3
  <2>3. CASE SkipLiveSession(l)
    BY <2>3 DEF SkipLiveSession
  <2>4. CASE PickVictim(l)
    BY <2>4 DEF PickVictim, IsNext, JudgedOver
  <2>5. CASE UnlinkFiles(l)
    BY <2>5 DEF UnlinkFiles, StillWritten
  <2>6. CASE RemoveDirectory(l)
    BY <2>6, LaunchAssumption DEF RemoveDirectory
  <2>7. CASE CreateSessionDir(l)
    BY <2>7 DEF CreateSessionDir
  <2> QED BY <1>3, <2>1, <2>2, <2>3, <2>4, <2>5, <2>6, <2>7
     DEF PruneNext
<1>4. ASSUME NEW l \in Launches, PrepareNext(l) PROVE KeptVictims'
  <2>1. CASE RefuseLaunch(l)
    BY <2>1 DEF RefuseLaunch
  <2>2. CASE AcceptLaunch(l)
    BY <2>2 DEF AcceptLaunch
  <2>3. CASE MakeScratch(l)
    BY <2>3 DEF MakeScratch
  <2>4. CASE MakeDatabase(l)
    BY <2>4 DEF MakeDatabase
  <2>5. CASE TrustProxy(l)
    BY <2>5 DEF TrustProxy
  <2>6. CASE SkipDatabase(l)
    BY <2>6 DEF SkipDatabase
  <2>7. CASE StartProxy(l)
    BY <2>7 DEF StartProxy, ProxyFrom
  <2>8. CASE SkipProxy(l)
    BY <2>8 DEF SkipProxy, ProxyFrom, ProxyTo
  <2>9. CASE ReadProxyPort(l)
    BY <2>9 DEF ReadProxyPort
  <2>10. CASE GiveUpOnProxy(l)
    BY <2>10 DEF GiveUpOnProxy, RemoveScratch
  <2>11. CASE RegisterProxy(l)
    BY <2>11 DEF RegisterProxy, ProxyTo
  <2>12. CASE WriteConfig(l)
    BY <2>12 DEF WriteConfig
  <2>13. CASE WriteProxyPid(l)
    BY <2>13 DEF WriteProxyPid
  <2>14. CASE Commit(l)
    BY <2>14 DEF Commit
  <2>15. CASE FailPrepare(l)
    BY <2>15 DEF FailPrepare, Unwind, RemoveScratch
  <2>16. CASE ReportLaunch(l)
    BY <2>16 DEF ReportLaunch
  <2>17. CASE FailReport(l)
    <3>1. /\ alive' = [alive EXCEPT ![l] = FALSE]
          /\ UNCHANGED <<dir, queue, victim, exposed>>
      BY <2>17 DEF FailReport
    <3> QED BY <3>1
  <2> QED
    BY <1>4, <2>1, <2>2, <2>3, <2>4, <2>5, <2>6, <2>7, <2>8, <2>9,
       <2>10, <2>11, <2>12, <2>13, <2>14, <2>15, <2>16, <2>17
    DEF PrepareNext
<1>5. ASSUME NEW l \in Launches, WrapperNext(l) PROVE KeptVictims'
  <2>1. CASE WriteLaunchPid(l)
    BY <2>1 DEF WriteLaunchPid
  <2>2. CASE ArmTrap(l)
    BY <2>2 DEF ArmTrap
  <2>3. CASE StartSandbox(l)
    BY <2>3 DEF StartSandbox
  <2>4. CASE RunTrap(l)
    BY <2>4 DEF RunTrap
  <2>5. CASE KillProxy(l)
    BY <2>5 DEF KillProxy
  <2>6. CASE SweepScratch(l)
    BY <2>6 DEF SweepScratch, StillWritten
  <2> QED BY <1>5, <2>1, <2>2, <2>3, <2>4, <2>5, <2>6
     DEF WrapperNext
<1>6. ASSUME NEW l \in Launches, SandboxNext(l) PROVE KeptVictims'
  <2>1. CASE BootSandbox(l)
    BY <2>1 DEF BootSandbox
  <2>2. CASE EndSandbox(l)
    BY <2>2 DEF EndSandbox, Running
  <2> QED BY <1>6, <2>1, <2>2
     DEF SandboxNext
<1>7. ASSUME NEW l \in Launches, ProxyNext(l) PROVE KeptVictims'
  <2>1. CASE ProxyReports(l)
    BY <2>1 DEF ProxyReports
  <2>2. CASE ProxyDies(l)
    BY <2>2 DEF ProxyDies
  <2> QED BY <1>7, <2>1, <2>2
     DEF ProxyNext
<1>8. ASSUME NEW l \in Launches, FaultNext(l) PROVE KeptVictims'
  <2>1. CASE Interrupt(l)
    BY <2>1 DEF Interrupt, Unwind, RemoveScratch
  <2>2. CASE KillWrapper(l)
    BY <2>2 DEF KillWrapper
  <2>3. CASE TerminateWrapper(l)
    BY <2>3 DEF TerminateWrapper
  <2> QED BY <1>8, <2>1, <2>2, <2>3
     DEF FaultNext
<1> QED BY <1>1, <1>2, <1>3, <1>4, <1>5, <1>6, <1>7, <1>8 DEF Next

(* So a launch with a wrapper finds what it wrote.                         *)
LEMMA KeptFilesStep ==
  ASSUME TypeOK, TypeOK', KeptInv, [Next]_vars
  PROVE  KeptFiles'
<1> USE DEF TypeOK, KeptInv, KeptControl, KeptVictims, KeptFiles, Written,
            Goto, Exit, Files, Steps, PruneSteps, PrepareSteps, WrapperSteps,
            Beginning
<1>1. CASE UNCHANGED vars
  BY <1>1 DEF vars
<1>2. ASSUME NEW l \in Launches, StartWrapper(l) PROVE KeptFiles'
  BY <1>2 DEF StartWrapper
<1>3. ASSUME NEW l \in Launches, PruneNext(l) PROVE KeptFiles'
  <2>1. CASE NameSession(l)
    BY <2>1 DEF NameSession
  <2>2. CASE ListSessions(l)
    BY <2>2 DEF ListSessions, Present
  <2>3. CASE SkipLiveSession(l)
    BY <2>3 DEF SkipLiveSession
  <2>4. CASE PickVictim(l)
    BY <2>4 DEF PickVictim, IsNext, JudgedOver
  <2>5. CASE UnlinkFiles(l)
    BY <2>5 DEF UnlinkFiles, StillWritten
  <2>6. CASE RemoveDirectory(l)
    BY <2>6, LaunchAssumption DEF RemoveDirectory
  <2>7. CASE CreateSessionDir(l)
    BY <2>7 DEF CreateSessionDir
  <2> QED BY <1>3, <2>1, <2>2, <2>3, <2>4, <2>5, <2>6, <2>7
     DEF PruneNext
<1>4. ASSUME NEW l \in Launches, PrepareNext(l) PROVE KeptFiles'
  <2>1. CASE RefuseLaunch(l)
    BY <2>1 DEF RefuseLaunch
  <2>2. CASE AcceptLaunch(l)
    BY <2>2 DEF AcceptLaunch
  <2>3. CASE MakeScratch(l)
    BY <2>3 DEF MakeScratch
  <2>4. CASE MakeDatabase(l)
    BY <2>4 DEF MakeDatabase
  <2>5. CASE TrustProxy(l)
    BY <2>5 DEF TrustProxy
  <2>6. CASE SkipDatabase(l)
    BY <2>6 DEF SkipDatabase
  <2>7. CASE StartProxy(l)
    BY <2>7 DEF StartProxy, ProxyFrom
  <2>8. CASE SkipProxy(l)
    BY <2>8 DEF SkipProxy, ProxyFrom, ProxyTo
  <2>9. CASE ReadProxyPort(l)
    BY <2>9 DEF ReadProxyPort
  <2>10. CASE GiveUpOnProxy(l)
    BY <2>10 DEF GiveUpOnProxy, RemoveScratch
  <2>11. CASE RegisterProxy(l)
    BY <2>11 DEF RegisterProxy, ProxyTo
  <2>12. CASE WriteConfig(l)
    BY <2>12 DEF WriteConfig
  <2>13. CASE WriteProxyPid(l)
    BY <2>13 DEF WriteProxyPid
  <2>14. CASE Commit(l)
    BY <2>14 DEF Commit
  <2>15. CASE FailPrepare(l)
    BY <2>15 DEF FailPrepare, Unwind, RemoveScratch
  <2>16. CASE ReportLaunch(l)
    BY <2>16 DEF ReportLaunch
  <2>17. CASE FailReport(l)
    BY <2>17 DEF FailReport
  <2> QED
    BY <1>4, <2>1, <2>2, <2>3, <2>4, <2>5, <2>6, <2>7, <2>8, <2>9,
       <2>10, <2>11, <2>12, <2>13, <2>14, <2>15, <2>16, <2>17
    DEF PrepareNext
<1>5. ASSUME NEW l \in Launches, WrapperNext(l) PROVE KeptFiles'
  <2>1. CASE WriteLaunchPid(l)
    BY <2>1 DEF WriteLaunchPid
  <2>2. CASE ArmTrap(l)
    BY <2>2 DEF ArmTrap
  <2>3. CASE StartSandbox(l)
    BY <2>3 DEF StartSandbox
  <2>4. CASE RunTrap(l)
    BY <2>4 DEF RunTrap
  <2>5. CASE KillProxy(l)
    BY <2>5 DEF KillProxy
  <2>6. CASE SweepScratch(l)
    BY <2>6 DEF SweepScratch, StillWritten
  <2> QED BY <1>5, <2>1, <2>2, <2>3, <2>4, <2>5, <2>6
     DEF WrapperNext
<1>6. ASSUME NEW l \in Launches, SandboxNext(l) PROVE KeptFiles'
  <2>1. CASE BootSandbox(l)
    BY <2>1 DEF BootSandbox
  <2>2. CASE EndSandbox(l)
    BY <2>2 DEF EndSandbox, Running
  <2> QED BY <1>6, <2>1, <2>2
     DEF SandboxNext
<1>7. ASSUME NEW l \in Launches, ProxyNext(l) PROVE KeptFiles'
  <2>1. CASE ProxyReports(l)
    BY <2>1 DEF ProxyReports
  <2>2. CASE ProxyDies(l)
    BY <2>2 DEF ProxyDies
  <2> QED BY <1>7, <2>1, <2>2
     DEF ProxyNext
<1>8. ASSUME NEW l \in Launches, FaultNext(l) PROVE KeptFiles'
  <2>1. CASE Interrupt(l)
    BY <2>1 DEF Interrupt, Unwind, RemoveScratch
  <2>2. CASE KillWrapper(l)
    BY <2>2 DEF KillWrapper
  <2>3. CASE TerminateWrapper(l)
    BY <2>3 DEF TerminateWrapper
  <2> QED BY <1>8, <2>1, <2>2, <2>3
     DEF FaultNext
<1> QED BY <1>1, <1>2, <1>3, <1>4, <1>5, <1>6, <1>7, <1>8 DEF Next

(* So the wrapper reads the command line prepare assembled.                *)
LEMMA SandboxedStep ==
  ASSUME TypeOK, TypeOK', KeptInv, [Next]_vars
  PROVE  SandboxedUnlessExposed'
<1> USE DEF TypeOK, KeptInv, KeptControl, KeptFiles, SandboxedUnlessExposed,
            SandboxStates, Goto, Exit, Steps, PruneSteps, PrepareSteps,
            WrapperSteps, Beginning
<1>1. CASE UNCHANGED vars
  BY <1>1 DEF vars
<1>2. ASSUME NEW l \in Launches, StartWrapper(l) PROVE SandboxedUnlessExposed'
  BY <1>2 DEF StartWrapper
<1>3. ASSUME NEW l \in Launches, PruneNext(l) PROVE SandboxedUnlessExposed'
  <2>1. CASE NameSession(l)
    BY <2>1 DEF NameSession
  <2>2. CASE ListSessions(l)
    BY <2>2 DEF ListSessions, Present
  <2>3. CASE SkipLiveSession(l)
    BY <2>3 DEF SkipLiveSession
  <2>4. CASE PickVictim(l)
    BY <2>4 DEF PickVictim, IsNext, JudgedOver
  <2>5. CASE UnlinkFiles(l)
    BY <2>5 DEF UnlinkFiles, StillWritten
  <2>6. CASE RemoveDirectory(l)
    BY <2>6, LaunchAssumption DEF RemoveDirectory
  <2>7. CASE CreateSessionDir(l)
    BY <2>7 DEF CreateSessionDir
  <2> QED BY <1>3, <2>1, <2>2, <2>3, <2>4, <2>5, <2>6, <2>7
     DEF PruneNext
<1>4. ASSUME NEW l \in Launches, PrepareNext(l) PROVE SandboxedUnlessExposed'
  <2>1. CASE RefuseLaunch(l)
    BY <2>1 DEF RefuseLaunch
  <2>2. CASE AcceptLaunch(l)
    BY <2>2 DEF AcceptLaunch
  <2>3. CASE MakeScratch(l)
    BY <2>3 DEF MakeScratch
  <2>4. CASE MakeDatabase(l)
    BY <2>4 DEF MakeDatabase
  <2>5. CASE TrustProxy(l)
    BY <2>5 DEF TrustProxy
  <2>6. CASE SkipDatabase(l)
    BY <2>6 DEF SkipDatabase
  <2>7. CASE StartProxy(l)
    BY <2>7 DEF StartProxy, ProxyFrom
  <2>8. CASE SkipProxy(l)
    BY <2>8 DEF SkipProxy, ProxyFrom, ProxyTo
  <2>9. CASE ReadProxyPort(l)
    BY <2>9 DEF ReadProxyPort
  <2>10. CASE GiveUpOnProxy(l)
    BY <2>10 DEF GiveUpOnProxy, RemoveScratch
  <2>11. CASE RegisterProxy(l)
    BY <2>11 DEF RegisterProxy, ProxyTo
  <2>12. CASE WriteConfig(l)
    BY <2>12 DEF WriteConfig
  <2>13. CASE WriteProxyPid(l)
    BY <2>13 DEF WriteProxyPid
  <2>14. CASE Commit(l)
    BY <2>14 DEF Commit
  <2>15. CASE FailPrepare(l)
    BY <2>15 DEF FailPrepare, Unwind, RemoveScratch
  <2>16. CASE ReportLaunch(l)
    BY <2>16 DEF ReportLaunch
  <2>17. CASE FailReport(l)
    BY <2>17 DEF FailReport
  <2> QED
    BY <1>4, <2>1, <2>2, <2>3, <2>4, <2>5, <2>6, <2>7, <2>8, <2>9,
       <2>10, <2>11, <2>12, <2>13, <2>14, <2>15, <2>16, <2>17
    DEF PrepareNext
<1>5. ASSUME NEW l \in Launches, WrapperNext(l) PROVE SandboxedUnlessExposed'
  <2>1. CASE WriteLaunchPid(l)
    BY <2>1 DEF WriteLaunchPid
  <2>2. CASE ArmTrap(l)
    BY <2>2 DEF ArmTrap
  <2>3. CASE StartSandbox(l)
    BY <2>3 DEF StartSandbox
  <2>4. CASE RunTrap(l)
    BY <2>4 DEF RunTrap
  <2>5. CASE KillProxy(l)
    BY <2>5 DEF KillProxy
  <2>6. CASE SweepScratch(l)
    BY <2>6 DEF SweepScratch, StillWritten
  <2> QED BY <1>5, <2>1, <2>2, <2>3, <2>4, <2>5, <2>6
     DEF WrapperNext
<1>6. ASSUME NEW l \in Launches, SandboxNext(l) PROVE SandboxedUnlessExposed'
  <2>1. CASE BootSandbox(l)
    BY <2>1 DEF BootSandbox
  <2>2. CASE EndSandbox(l)
    BY <2>2 DEF EndSandbox, Running
  <2> QED BY <1>6, <2>1, <2>2
     DEF SandboxNext
<1>7. ASSUME NEW l \in Launches, ProxyNext(l) PROVE SandboxedUnlessExposed'
  <2>1. CASE ProxyReports(l)
    BY <2>1 DEF ProxyReports
  <2>2. CASE ProxyDies(l)
    BY <2>2 DEF ProxyDies
  <2> QED BY <1>7, <2>1, <2>2
     DEF ProxyNext
<1>8. ASSUME NEW l \in Launches, FaultNext(l) PROVE SandboxedUnlessExposed'
  <2>1. CASE Interrupt(l)
    BY <2>1 DEF Interrupt, Unwind, RemoveScratch
  <2>2. CASE KillWrapper(l)
    BY <2>2 DEF KillWrapper
  <2>3. CASE TerminateWrapper(l)
    BY <2>3 DEF TerminateWrapper
  <2> QED BY <1>8, <2>1, <2>2, <2>3
     DEF FaultNext
<1> QED BY <1>1, <1>2, <1>3, <1>4, <1>5, <1>6, <1>7, <1>8 DEF Next

LEMMA KeptAlways == Spec => []KeptInv
<1>1. Init => KeptInv
  <2> SUFFICES ASSUME Init PROVE KeptInv
    OBVIOUS
  <2>1. Doomed = {} /\ \A l \in Launches : victim[l] \notin Launches
    BY LaunchAssumption DEF Init, Doomed
  <2> QED BY <2>1 DEF Init, KeptInv, KeptControl, KeptVictims, KeptFiles,
                      SandboxedUnlessExposed, Beginning, PruneSteps,
                      PrepareSteps, WrapperSteps
<1>2. TypeOK /\ TypeOK' /\ KeptInv /\ [Next]_vars => KeptInv'
  BY KeptControlStep, KeptVictimsStep, KeptFilesStep, SandboxedStep DEF KeptInv
<1> QED BY <1>1, <1>2, TypeCorrect, PTL DEF Spec

(* The directory of a running session is never touched by a prune, under   *)
(* interrupts, signals and failed prints alike, once launch.pid protects   *)
(* it; the hypothesis on exposed is the window before that.                *)
THEOREM RunningAlwaysKept == Spec => []RunningKept
<1>1. KeptInv => RunningKept
  BY DEF KeptInv, KeptControl, KeptFiles, RunningKept, WrapperSteps
<1> QED BY <1>1, KeptAlways, PTL

(* A command line runs inside the sandbox or not at all, unless its        *)
(* session was judged over before launch.pid was written (launch.sh:71).   *)
THEOREM AlwaysSandboxedUnlessExposed == Spec => []SandboxedUnlessExposed
<1>1. KeptInv => SandboxedUnlessExposed
  BY DEF KeptInv
<1> QED BY <1>1, KeptAlways, PTL

=============================================================================
