------------------------- MODULE ForgeLauncherProofs -------------------------
(***************************************************************************)
(* Theorems about ForgeLauncher: for any paths, objects and places, any      *)
(* rebinding, moving and retagging, and however git, docker and the launcher *)
(* fail, the launcher's death before docker has bound the mounts included.   *)
(***************************************************************************)
EXTENDS ForgeLauncher, TLAPS

Building == {"git", "copy", "close", "wait", "read", "judge", "kill"}

\* An image is exact if docker was done with the whole archive, and docker
\* cannot be done before its input is closed.
BuildInv ==
    /\ pc \in {"lease", "render", "docker"} => docker = "none" /\ git = "none"
    /\ pc = "git" => git = "none"
    /\ pc \in {"docker", "git", "copy", "close"} => docker # "done"
    /\ pc \in {"git", "copy", "close"} => stdin = "open"
    /\ pc \in {"close", "wait", "read", "judge"} /\ ~thrown /\ git = "done" => received = "whole"
    /\ docker = "done" /\ received = "whole" => image = "exact"
    /\ pc = "kill" /\ ~thrown => docker = "done" /\ git = "done" /\ image = "exact"
    /\ pc \in {"confirm", "run", "running", "finally", "ended"}
          => docker # "running" /\ git # "running"
    /\ pc \in {"confirm", "run"} => image = "exact"
    /\ runner # "none" => /\ pc \in {"running", "finally", "ended", "killed"}
                          /\ image = "exact" /\ docker # "running"

Early == {"lease", "render", "docker"} \cup Building

\* What is confirmed is what is leased, as long as it is leased; and it is still
\* where it was, unless the host has been at work since.
LeaseInv ==
    /\ pc \in Early => \A n \in Paths : confirmed[n] = NoObject
    /\ \A n \in Paths :
          /\ lease[n] # NoObject => confirmed[n] \in {NoObject, lease[n]}
          /\ confirmed[n] # NoObject => /\ confirmed[n] = at[n] \/ n \in rebound
                                        /\ spot[confirmed[n]] = tree[n] \/ n \in moved
    /\ pc = "run" \/ runner # "none"
          => /\ \A n \in Paths : confirmed[n] # NoObject
             /\ \A n \in Protected : Apart(tree[Output], tree[n])

\* What a container got as mounts, as far as the host left the paths alone.
Mounted ==
    Ran => \A n \in Paths : \/ container.mounts[n] = confirmed[n]
                            \/ windows /\ n \in rebound

RunInv ==
    /\ Ran => runner = "bound"
    /\ Mounted
    /\ ImageIsExact
    /\ pc = "ended" => environment = "caller" /\ \A n \in Paths : lease[n] = NoObject

Inv == TypeOK /\ BuildInv /\ LeaseInv /\ RunInv

LEMMA InitInv == Init => Inv
<1> SUFFICES ASSUME Init PROVE Inv
  OBVIOUS
<1>1. TypeOK
  <2>1. moves \in 0..MaxMoves
    BY LauncherAssumption DEF Init
  <2>2. spot \in [Objects -> Spots]
    BY DEF Init
  <2> QED BY <2>1, <2>2 DEF Init, TypeOK, Places, Process, Images, Runner
<1>2. BuildInv /\ LeaseInv /\ RunInv
  BY DEF Init, BuildInv, LeaseInv, RunInv, Early, Building, Ran, Mounted, ImageIsExact
<1> QED BY <1>1, <1>2 DEF Inv

\* The mounts of a container stay as good as they are as long as it and what was
\* confirmed do, and no rebinding is forgotten.
LEMMA RunKept ==
    ASSUME Inv, UNCHANGED <<container, confirmed, windows>>, rebound \subseteq rebound'
    PROVE  Mounted' /\ ImageIsExact' /\ (Ran' <=> Ran)
BY DEF Inv, RunInv, Mounted, ImageIsExact, Ran

LEMMA HostStep ==
    ASSUME Inv, HostRetags \/ (\E n \in Paths : HostRebinds(n)) \/ (\E o \in Objects : HostMoves(o))
    PROVE  Inv'
<1> USE DEF Inv, HostRetags, HostRebinds, HostMoves, hostVars, pathVars, buildVars, runVars
<1>1. TypeOK'
  <2>1. CASE HostRetags
    BY <2>1 DEF TypeOK, Images
  <2>2. ASSUME NEW n \in Paths, HostRebinds(n) PROVE TypeOK'
    BY <2>2 DEF TypeOK
  <2>3. ASSUME NEW o \in Objects, HostMoves(o) PROVE TypeOK'
    <3>1. spot' \in [Objects -> Spots] /\ moved' \subseteq Paths
      BY <2>3 DEF TypeOK
    <3>2. moves' \in 0..MaxMoves
      BY <2>3, LauncherAssumption DEF TypeOK
    <3> QED BY <2>3, <3>1, <3>2 DEF TypeOK
  <2> QED BY <2>1, <2>2, <2>3
<1>2. BuildInv'    BY DEF BuildInv
<1>3. LeaseInv'
  <2>1. CASE HostRetags
    BY <2>1 DEF LeaseInv, Early, Building, Apart
  <2>2. ASSUME NEW n \in Paths, HostRebinds(n) PROVE LeaseInv'
    BY <2>2 DEF TypeOK, LeaseInv, Early, Building, Apart
  <2>3. ASSUME NEW o \in Objects, HostMoves(o) PROVE LeaseInv'
    <3>1. ASSUME NEW n \in Paths, confirmed[n] # NoObject
          PROVE  spot'[confirmed[n]] = tree[n] \/ n \in moved'
      BY <2>3, <3>1 DEF TypeOK, LeaseInv
    <3> QED BY <2>3, <3>1 DEF LeaseInv, Early, Building, Apart
  <2> QED BY <2>1, <2>2, <2>3
<1>4. RunInv'
  <2>1. UNCHANGED <<container, confirmed, windows, runner, pc, environment, lease>>
        /\ rebound \subseteq rebound'
    OBVIOUS
  <2> QED BY <2>1, RunKept DEF RunInv
<1> QED BY <1>1, <1>2, <1>3, <1>4

LEMMA ProcessStep ==
    ASSUME Inv, GitFinishes \/ GitFails \/ DockerBuilds \/ DockerFails
    PROVE  Inv'
<1> USE DEF Inv, GitFinishes, GitFails, DockerBuilds, DockerFails, processVars, hostVars, pathVars,
            runVars
<1>1. TypeOK'      BY DEF TypeOK, Process, Images
<1>2. BuildInv'    BY DEF TypeOK, Process, BuildInv
<1>3. LeaseInv'    BY DEF LeaseInv, Early, Building, Apart
<1>4. RunInv'      BY RunKept DEF RunInv
<1> QED BY <1>1, <1>2, <1>3, <1>4

LEMMA EarlyStep ==
    ASSUME Inv, (\E n \in Paths : TakeLease(n)) \/ StopsEarly \/ Leased \/ Render
    PROVE  Inv'
<1> USE DEF Inv, StopsEarly, Leased, Render, TakeLease, GoTo, Throw, hostVars, pathVars,
            buildVars, runVars
<1>1. TypeOK'      BY DEF TypeOK, Places
<1>2. BuildInv'    BY DEF BuildInv
<1>3. LeaseInv'
  <2>1. CASE UNCHANGED lease
    BY <2>1 DEF LeaseInv, Early, Building
  <2>2. ASSUME NEW n \in Paths, TakeLease(n) PROVE LeaseInv'
    BY <2>2 DEF TypeOK, LeaseInv, Early, Building, Apart
  <2> QED BY <2>1, <2>2
<1>4. RunInv'      BY RunKept DEF RunInv
<1> QED BY <1>1, <1>2, <1>3, <1>4

LEMMA BuildStep ==
    ASSUME Inv,
           \/ StartDocker \/ StartGit \/ CopyEnds \/ CopyFails \/ CloseInput
           \/ WaitForGit \/ WaitForDocker \/ Judge \/ KillBuild
    PROVE  Inv'
<1> USE DEF Inv, StartDocker, StartGit, CopyEnds, CopyFails, CloseInput, WaitForGit,
            WaitForDocker, Judge, KillBuild, GoTo, Throw, hostVars, pathVars, buildVars, runVars
<1>1. TypeOK'
  <2>1. docker' \in Process /\ git' \in Process
    BY DEF TypeOK, Process, Killed, Stopped
  <2>2. pc' \in Places /\ thrown' \in BOOLEAN
    BY DEF TypeOK, Places
  <2>3. stdin' \in {"open", "closed"} /\ received' \in {"none", "part", "whole"}
    BY DEF TypeOK
  <2>4. UNCHANGED <<hostVars, pathVars, environment, image, tag, runVars>>
    OBVIOUS
  <2> QED BY <2>1, <2>2, <2>3, <2>4 DEF TypeOK
<1>2. BuildInv'    BY DEF TypeOK, Process, BuildInv, Killed, Stopped, BuildSucceeded
<1>3. LeaseInv'    BY DEF LeaseInv, Early, Building
<1>4. RunInv'      BY RunKept DEF RunInv
<1> QED BY <1>1, <1>2, <1>3, <1>4

LEMMA ConfirmStep ==
    ASSUME Inv, (\E n \in Paths : Confirm(n)) \/ Confirmed
    PROVE  Inv'
<1> USE DEF Inv, GoTo, Throw, hostVars, pathVars, buildVars, runVars
<1>1. TypeOK'      BY DEF Confirm, Confirmed, TypeOK, Places
<1>2. BuildInv'    BY DEF Confirm, Confirmed, BuildInv
<1>3. LeaseInv'
  <2>1. CASE Confirmed
    BY <2>1 DEF Confirmed, LeaseInv, Early, Building, Apart
  <2>2. ASSUME NEW n \in Paths, Confirm(n) PROVE LeaseInv'
    BY <2>2 DEF Confirm, TypeOK, LeaseInv, Early, Building, Apart
  <2> QED BY <2>1, <2>2
<1>4. RunInv'
  <2>1. ~Ran /\ UNCHANGED container
    BY DEF Confirm, Confirmed, BuildInv, RunInv
  <2> QED BY <2>1 DEF Confirm, Confirmed, RunInv, Ran, Mounted, ImageIsExact
<1> QED BY <1>1, <1>2, <1>3, <1>4

LEMMA RunStep ==
    ASSUME Inv, Run
    PROVE  Inv'
<1> USE DEF Inv, Run, GoTo, Throw, hostVars, pathVars, buildVars
<1>1. TypeOK'      BY DEF TypeOK, Places, Runner
<1>2. BuildInv'    BY DEF BuildInv
<1>3. LeaseInv'    BY DEF LeaseInv, Early, Building, Apart
<1>4. RunInv'
  <2>1. ~Ran
    BY DEF RunInv, BuildInv
  <2> QED BY <2>1, RunKept DEF RunInv
<1> QED BY <1>1, <1>2, <1>3, <1>4

LEMMA BindStep ==
    ASSUME Inv, Bind
    PROVE  Inv'
<1> USE DEF Inv, Bind, hostVars, pathVars, buildVars
<1>1. BuildInv' /\ LeaseInv'
  BY DEF BuildInv, LeaseInv, Early, Building, Apart
<1>2. CASE UNCHANGED container
  <2>1. TypeOK'      BY <1>2 DEF TypeOK, Runner
  <2>2. RunInv'
    <3>1. ~Ran
      BY DEF RunInv
    <3> QED BY <1>2, <3>1, RunKept DEF RunInv
  <2> QED BY <1>1, <2>1, <2>2
<1>3. CASE /\ \A n \in Paths : Bound(n) # NoObject
           /\ container' = [image |-> BuiltImage, mounts |-> [n \in Paths |-> Bound(n)]]
           /\ runner' = "bound"
  <2>1. ASSUME NEW n \in Paths
        PROVE  Bound(n) \in Objects /\ (Bound(n) = confirmed[n] \/ (windows /\ n \in rebound))
    <3>1. Bound(n) # NoObject /\ confirmed[n] # NoObject
      BY <1>3 DEF LeaseInv
    <3>2. CASE windows
      BY <3>1, <3>2 DEF TypeOK, LeaseInv, Bound
    <3>3. CASE ~windows
      BY <3>1, <3>3 DEF TypeOK, LeaseInv, Bound
    <3> QED BY <3>2, <3>3
  <2>2. BuiltImage = "exact"
    BY DEF BuildInv, BuiltImage
  <2> DEFINE mounts == [n \in Paths |-> Bound(n)]
  <2>3. mounts \in [Paths -> Objects] /\ \A n \in Paths : mounts[n] = Bound(n)
    BY <2>1
  <2>4. container' = [image |-> "exact", mounts |-> mounts]
    BY <1>3, <2>2
  <2> HIDE DEF mounts
  <2>5. TypeOK'
    BY <1>3, <2>3, <2>4 DEF TypeOK, Images, Runner
  <2>6. RunInv'
    BY <1>3, <2>1, <2>3, <2>4 DEF RunInv, Mounted, ImageIsExact
  <2> QED BY <1>1, <2>5, <2>6
<1> QED BY <1>2, <1>3

LEMMA EndStep ==
    ASSUME Inv, RunEnds \/ Finally \/ LauncherKilled
    PROVE  Inv'
<1> USE DEF Inv, RunEnds, Finally, LauncherKilled, GoTo, Throw, hostVars, pathVars, buildVars,
            runVars
<1>1. TypeOK'      BY DEF TypeOK, Places
<1>2. BuildInv'    BY DEF TypeOK, BuildInv
<1>3. LeaseInv'    BY DEF LeaseInv, Early, Building
<1>4. RunInv'      BY RunKept DEF RunInv
<1> QED BY <1>1, <1>2, <1>3, <1>4

LEMMA StepInv == Inv /\ [Next]_vars => Inv'
<1> SUFFICES ASSUME Inv, [Next]_vars PROVE Inv'
  OBVIOUS
<1>1. CASE UNCHANGED vars
  <2>1. TypeOK' /\ BuildInv' /\ LeaseInv'
    BY <1>1 DEF vars, hostVars, pathVars, buildVars, runVars, Inv, TypeOK, BuildInv, LeaseInv, Apart
  <2>2. RunInv'
    BY <1>1, RunKept DEF vars, hostVars, pathVars, buildVars, runVars, Inv, RunInv
  <2> QED BY <2>1, <2>2 DEF Inv
<1>2. CASE Next
  BY <1>2, HostStep, ProcessStep, EarlyStep, BuildStep, ConfirmStep, RunStep, BindStep,
     EndStep
  DEF Next, Launcher
<1> QED BY <1>1, <1>2

-----------------------------------------------------------------------------
\* A container's mounts are the objects confirmed after the build
\* (run_model_forge.ps1, lines 588 to 652 and 1301 to 1314), on Windows unless the
\* path has got another one since; and the writable one, unless it or the other
\* has been moved since, shares nothing with a read-only one.
THEOREM MountSafety == Spec => [](TypeOK /\ MountsAreConfirmed)
<1>1. ASSUME Inv PROVE TypeOK /\ MountsAreConfirmed
  <2>1. ASSUME NEW n \in Paths, Ran, Settled(n)
        PROVE  spot[container.mounts[n]] = tree[n]
    BY <1>1, <2>1 DEF Inv, RunInv, LeaseInv, Mounted, Settled
  <2>2. ASSUME NEW n \in Protected, Ran, Settled(Output), Settled(n)
        PROVE  Apart(spot[container.mounts[Output]], spot[container.mounts[n]])
    BY <1>1, <2>1, <2>2 DEF Inv, RunInv, LeaseInv, Paths
  <2> QED BY <1>1, <2>2 DEF Inv, RunInv, Mounted, MountsAreConfirmed
<1> QED BY <1>1, InitInv, StepInv, PTL DEF Spec

\* What runs is the pinned commit, whole (run_model_forge.ps1, lines 791 to 814
\* and 1292 to 1300).
THEOREM ImageSafety == Spec => []ImageIsExact
<1>1. Inv => ImageIsExact
  BY DEF Inv, RunInv
<1> QED BY <1>1, InitInv, StepInv, PTL DEF Spec

\* The finally clauses leave nothing behind (run_model_forge.ps1, lines 815 to
\* 828 and 1332 to 1339).
THEOREM CleanUpSafety == Spec => []NothingLeft
<1>1. Inv => NothingLeft
  BY DEF Inv, BuildInv, RunInv, NothingLeft
<1> QED BY <1>1, InitInv, StepInv, PTL DEF Spec
=============================================================================
