--------------------------- MODULE ForgeLauncher ---------------------------
(***************************************************************************)
(* The launcher of Forge containers (scripts/run_model_forge.ps1).  It takes *)
(* leases on four host paths, has Compose render the policy, pipes an        *)
(* archive of the pinned commit from git into "docker build", checks the     *)
(* paths again, and has docker run the image it has built with the leased    *)
(* objects as mounts.  Meanwhile others may put another object at a path,    *)
(* move an object into a part of the file system that overlaps another, or   *)
(* move the image's tag; git and docker may fail, and the launcher may be    *)
(* killed.                                                                   *)
(*                                                                         *)
(* A lease is an open descriptor on Linux, where the mount names the         *)
(* descriptor.  On Windows it is a handle without access rights, for which   *)
(* the system keeps no account of sharing: it holds nobody off the path,     *)
(* and the path is what the mount names.                                     *)
(***************************************************************************)
EXTENDS Naturals

CONSTANTS
    Protected,      \* the read-only paths: Plan, BaseModel, Dataset
    Output,         \* the path of the evidence
    Objects,        \* file system objects that may be at a path
    NoObject,       \* nothing
    Spots,          \* places in the backing file systems
    Overlapping,    \* pairs of places of which one contains the other
    MaxMoves        \* bound: moves of objects

Paths == Protected \cup {Output}

ASSUME LauncherAssumption ==
    /\ Output \notin Protected
    /\ NoObject \notin Objects
    /\ Overlapping \subseteq Spots \X Spots
    /\ MaxMoves \in Nat

VARIABLES
    windows,        \* the launcher runs on Windows
    at,             \* at[n]: the object at path n
    spot,           \* spot[o]: where the object is
    moves,          \* number of moves of objects
    pc,             \* where the launcher is
    thrown,         \* an exception is on its way out
    lease,          \* lease[n]: the object of the snapshot that is held for n
    tree,           \* tree[n]: where that object was, as the snapshot says
    confirmed,      \* confirmed[n]: the object found at n after the build (history)
    rebound,        \* paths that have got another object since (history)
    moved,          \* paths whose confirmed object has moved since (history)
    environment,    \* whose values the FORGE_* variables have
    docker, git,    \* the two processes of the build
    stdin,          \* the launcher's end of docker's input
    received,       \* the archive as docker has got it
    image,          \* what docker has built, under the ID it printed
    tag,            \* the image the tag names
    runner,         \* docker run, from the client's start to the daemon's answer
    container       \* the image and the mounts of the container, once it runs

hostVars == <<windows, at, spot, moves>>
pathVars == <<lease, tree, confirmed, rebound, moved>>
buildVars == <<docker, git, stdin, received, image>>
runVars == <<runner, container>>
vars == <<hostVars, pc, thrown, pathVars, environment, buildVars, tag, runVars>>

Places == {"lease", "render", "docker", "git", "copy", "close", "wait", "read", "judge",
           "kill", "confirm", "run", "running", "finally", "ended", "stopped", "killed"}

Process == {"none", "running", "done", "failed"}

Images == {"none", "exact", "truncated", "foreign"}

Runner == {"none", "starting", "bound", "failed"}

NoContainer == [image |-> "none", mounts |-> [n \in Paths |-> NoObject]]

Init ==
    /\ windows \in BOOLEAN
    /\ at \in [Paths -> Objects \cup {NoObject}]
    /\ spot \in {s \in [Objects -> Spots] : \A o, p \in Objects : s[o] = s[p] => o = p}
    /\ moves = 0
    /\ pc = "lease"
    /\ thrown = FALSE
    /\ lease = [n \in Paths |-> NoObject]
    /\ tree = [n \in Paths |-> NoObject]
    /\ confirmed = [n \in Paths |-> NoObject]
    /\ rebound = {}
    /\ moved = {}
    /\ environment = "caller"
    /\ docker = "none"
    /\ git = "none"
    /\ stdin = "closed"
    /\ received = "none"
    /\ image = "none"
    /\ tag \in {"none", "foreign"}
    /\ runner = "none"
    /\ container = NoContainer

TypeOK ==
    /\ windows \in BOOLEAN
    /\ at \in [Paths -> Objects \cup {NoObject}]
    /\ spot \in [Objects -> Spots]
    /\ moves \in 0..MaxMoves
    /\ pc \in Places
    /\ thrown \in BOOLEAN
    /\ lease \in [Paths -> Objects \cup {NoObject}]
    /\ confirmed \in [Paths -> Objects \cup {NoObject}]
    /\ tree \in [Paths -> Spots \cup {NoObject}]
    /\ rebound \subseteq Paths
    /\ moved \subseteq Paths
    /\ environment \in {"caller", "launcher"}
    /\ docker \in Process
    /\ git \in Process
    /\ stdin \in {"open", "closed"}
    /\ received \in {"none", "part", "whole"}
    /\ image \in Images
    /\ tag \in Images
    /\ runner \in Runner
    /\ container \in {NoContainer} \cup [image : Images, mounts : [Paths -> Objects]]

GoTo(place) == pc' = place /\ UNCHANGED thrown

Throw(place) == pc' = place /\ thrown' = TRUE

-----------------------------------------------------------------------------
(***************************************************************************)
(* The host                                                                 *)
(***************************************************************************)

\* Somebody else renames, removes or creates; neither system's lease stops them.
HostRebinds(n) ==
    /\ \E o \in (Objects \cup {NoObject}) \ {at[n]} : at' = [at EXCEPT ![n] = o]
    /\ rebound' = IF confirmed[n] = NoObject THEN rebound ELSE rebound \cup {n}
    /\ UNCHANGED <<windows, spot, moves, pc, thrown, lease, tree, confirmed, moved,
                   environment, buildVars, tag, runVars>>

\* An object is renamed to another place; a path can still lead to it, by a link
\* or a mount.
HostMoves(o) ==
    /\ moves < MaxMoves
    /\ \E s \in Spots \ {spot[p] : p \in Objects} : spot' = [spot EXCEPT ![o] = s]
    /\ moves' = moves + 1
    /\ moved' = moved \cup {n \in Paths : confirmed[n] = o}
    /\ UNCHANGED <<windows, at, pc, thrown, lease, tree, confirmed, rebound,
                   environment, buildVars, tag, runVars>>

\* docker build or docker tag elsewhere.
HostRetags ==
    /\ tag # "foreign"
    /\ tag' = "foreign"
    /\ UNCHANGED <<hostVars, pc, thrown, pathVars, environment, buildVars, runVars>>

-----------------------------------------------------------------------------
(***************************************************************************)
(* Before the build                                                         *)
(***************************************************************************)

\* Get-ForgePathSnapshot.  A failure here, or in the checks that follow, is
\* outside the try block: nothing has been set and no process started.
TakeLease(n) ==
    /\ pc = "lease"
    /\ lease[n] = NoObject
    /\ at[n] # NoObject
    /\ lease' = [lease EXCEPT ![n] = at[n]]
    /\ tree' = [tree EXCEPT ![n] = spot[at[n]]]
    /\ UNCHANGED <<hostVars, pc, thrown, confirmed, rebound, moved, environment, buildVars,
                   tag, runVars>>

StopsEarly ==
    /\ pc = "lease"
    /\ Throw("stopped")
    /\ UNCHANGED <<hostVars, pathVars, environment, buildVars, tag, runVars>>

Leased ==
    /\ pc = "lease"
    /\ \A n \in Paths : lease[n] # NoObject
    /\ environment' = "launcher"
    /\ GoTo("render")
    /\ UNCHANGED <<hostVars, pathVars, buildVars, tag, runVars>>

\* docker compose config, and the comparison of what it renders with the policy.
Render ==
    /\ pc = "render"
    /\ GoTo("docker") \/ Throw("finally")
    /\ UNCHANGED <<hostVars, pathVars, environment, buildVars, tag, runVars>>

-----------------------------------------------------------------------------
(***************************************************************************)
(* Invoke-ForgeImageBuild                                                   *)
(***************************************************************************)
StartDocker ==
    /\ pc = "docker"
    /\ \/ /\ docker' = "running"
          /\ stdin' = "open"
          /\ GoTo("git")
       \/ /\ Throw("finally")
          /\ UNCHANGED <<docker, stdin>>
    /\ UNCHANGED <<hostVars, pathVars, environment, git, received, image, tag, runVars>>

StartGit ==
    /\ pc = "git"
    /\ \/ git' = "running" /\ GoTo("copy")
       \/ Throw("kill") /\ UNCHANGED git
    /\ UNCHANGED <<hostVars, pathVars, environment, docker, stdin, received, image, tag,
                   runVars>>

processVars == <<hostVars, pc, thrown, pathVars, environment, stdin, received, runVars>>

\* git can write the rest of the archive only while the launcher reads it.
GitFinishes ==
    /\ git = "running"
    /\ pc = "copy"
    /\ git' = "done"
    /\ UNCHANGED <<processVars, docker, image, tag>>

GitFails ==
    /\ git = "running"
    /\ git' = "failed"
    /\ UNCHANGED <<processVars, docker, image, tag>>

\* docker builds when it has read to the end of its input.  An archive that
\* breaks off between two files can be built.
DockerBuilds ==
    /\ docker = "running"
    /\ stdin = "closed"
    /\ docker' = "done"
    /\ image' = IF received = "whole" THEN "exact" ELSE "truncated"
    /\ tag' = image'
    /\ UNCHANGED <<processVars, git>>

DockerFails ==
    /\ docker = "running"
    /\ docker' = "failed"
    /\ UNCHANGED <<processVars, git, image, tag>>

CopyEnds ==
    /\ pc = "copy"
    /\ git # "running"
    /\ received' = IF git = "done" THEN "whole" ELSE "part"
    /\ GoTo("close")
    /\ UNCHANGED <<hostVars, pathVars, environment, docker, git, stdin, image, tag, runVars>>

\* Fault: git, whose output nobody reads any more, is left alone.
LeftAlone == git

Killed == IF git = "running" THEN "failed" ELSE git

\* Writing to docker fails: git is killed and the exception kept for later.
CopyFails ==
    /\ pc = "copy"
    /\ docker # "running"
    /\ received' = "part"
    /\ git' = Killed
    /\ Throw("close")
    /\ UNCHANGED <<hostVars, pathVars, environment, docker, stdin, image, tag, runVars>>

CloseInput ==
    /\ pc = "close"
    /\ stdin' = "closed"
    /\ GoTo("wait")
    /\ UNCHANGED <<hostVars, pathVars, environment, docker, git, received, image, tag, runVars>>

WaitForGit ==
    /\ pc = "wait"
    /\ git # "running"
    /\ GoTo("read")
    /\ UNCHANGED <<hostVars, pathVars, environment, buildVars, tag, runVars>>

WaitForDocker ==
    /\ pc = "read"
    /\ docker # "running"
    /\ GoTo("judge")
    /\ UNCHANGED <<hostVars, pathVars, environment, buildVars, tag, runVars>>

BuildSucceeded == ~thrown /\ git = "done" /\ docker = "done"

Judge ==
    /\ pc = "judge"
    /\ IF BuildSucceeded THEN GoTo("kill") ELSE Throw("kill")
    /\ UNCHANGED <<hostVars, pathVars, environment, buildVars, tag, runVars>>

\* Fault: the finally clause only disposes of the objects.
StillRunning(process) == process

Stopped(process) == IF process = "running" THEN "failed" ELSE process

\* The finally clause.
KillBuild ==
    /\ pc = "kill"
    /\ docker' = Stopped(docker)
    /\ git' = Stopped(git)
    /\ stdin' = "closed"
    /\ GoTo(IF thrown THEN "finally" ELSE "confirm")
    /\ UNCHANGED <<hostVars, pathVars, environment, received, image, tag, runVars>>

-----------------------------------------------------------------------------
(***************************************************************************)
(* Assert-ForgeHostMountIdentity and Invoke-ForgeDockerRun                  *)
(***************************************************************************)
Confirm(n) ==
    /\ pc = "confirm"
    /\ confirmed[n] = NoObject
    /\ IF at[n] = lease[n] /\ spot[lease[n]] = tree[n]
       THEN confirmed' = [confirmed EXCEPT ![n] = at[n]] /\ UNCHANGED <<pc, thrown>>
       ELSE Throw("finally") /\ UNCHANGED confirmed
    /\ UNCHANGED <<hostVars, lease, tree, rebound, moved, environment, buildVars, tag, runVars>>

Apart(s, t) == s # t /\ <<s, t>> \notin Overlapping /\ <<t, s>> \notin Overlapping

\* The comparison is between the snapshots, not between the objects as they are.
Confirmed ==
    /\ pc = "confirm"
    /\ \A n \in Paths : confirmed[n] # NoObject
    /\ IF \A n \in Protected : /\ confirmed[Output] # confirmed[n]
                                /\ Apart(tree[Output], tree[n])
       THEN GoTo("run") ELSE Throw("finally")
    /\ UNCHANGED <<hostVars, pathVars, environment, buildVars, tag, runVars>>

\* Fault: the mount is named by its path on Linux too.
AtPath(n) == at[n]

\* What the source of a mount leads to when the daemon binds it.
Bound(n) == IF windows THEN at[n] ELSE lease[n]

\* Fault: the image is run by its tag.
TaggedImage == tag

BuiltImage == image

Run ==
    /\ pc = "run"
    /\ \/ runner' = "starting" /\ GoTo("running")
       \/ Throw("finally") /\ UNCHANGED runner
    /\ UNCHANGED <<hostVars, pathVars, environment, buildVars, tag, container>>

\* The daemon creates the container, whatever has become of the launcher; it
\* refuses a source that does not exist, and may fail otherwise.
Bind ==
    /\ runner = "starting"
    /\ \/ /\ \A n \in Paths : Bound(n) # NoObject
          /\ container' = [image |-> BuiltImage, mounts |-> [n \in Paths |-> Bound(n)]]
          /\ runner' = "bound"
       \/ runner' = "failed" /\ UNCHANGED container
    /\ UNCHANGED <<hostVars, pc, thrown, pathVars, environment, buildVars, tag>>

\* docker run returns; a client that is killed fails before the daemon is done.
RunEnds ==
    /\ pc = "running"
    /\ (runner = "bound" /\ GoTo("finally")) \/ Throw("finally")
    /\ UNCHANGED <<hostVars, pathVars, environment, buildVars, tag, runVars>>

\* The outer finally clause: the environment is restored, the leases given up.
Finally ==
    /\ pc = "finally"
    /\ environment' = "caller"
    /\ lease' = [n \in Paths |-> NoObject]
    /\ GoTo("ended")
    /\ UNCHANGED <<hostVars, tree, confirmed, rebound, moved, buildVars, tag, runVars>>

\* The process is killed: the system closes its descriptors and pipes, and its
\* children go on.
LauncherKilled ==
    /\ pc \notin {"ended", "stopped", "killed"}
    /\ GoTo("killed")
    /\ lease' = [n \in Paths |-> NoObject]
    /\ stdin' = "closed"
    /\ received' = IF received = "none" THEN "part" ELSE received
    /\ UNCHANGED <<hostVars, tree, confirmed, rebound, moved, environment, docker, git,
                   image, tag, runVars>>

Launcher ==
    \/ \E n \in Paths : TakeLease(n) \/ Confirm(n)
    \/ Leased \/ Render \/ StartDocker \/ StartGit \/ CopyEnds \/ CopyFails \/ CloseInput
    \/ WaitForGit \/ WaitForDocker \/ Judge \/ KillBuild \/ Confirmed \/ Run \/ Finally

Next ==
    \/ Launcher
    \/ GitFinishes \/ GitFails \/ DockerBuilds \/ DockerFails
    \/ StopsEarly \/ Bind \/ RunEnds \/ LauncherKilled
    \/ HostRetags
    \/ \E n \in Paths : HostRebinds(n)
    \/ \E o \in Objects : HostMoves(o)

\* The launcher runs, and its two children do what they can do; nobody has to
\* be killed, and a container need not end.
Fairness == WF_vars(Launcher) /\ WF_vars(GitFinishes) /\ WF_vars(DockerBuilds)

Spec == Init /\ [][Next]_vars /\ Fairness

-----------------------------------------------------------------------------
(***************************************************************************)
(* Properties                                                               *)
(***************************************************************************)
Ran == container # NoContainer

\* The path and its object are still as the check after the build found them.
Settled(n) == n \notin moved /\ (windows => n \notin rebound)

\* On Linux a container gets the objects that were found at their paths both
\* before and after the build, whatever is at those paths when docker binds them
\* and even if the launcher is killed before; on Windows one whose path got
\* another object since the check may be replaced.  Its writable mount shares
\* nothing with a read-only one unless one of them has been moved since.
MountsAreConfirmed ==
    Ran => /\ \A n \in Paths : \/ container.mounts[n] = confirmed[n]
                               \/ windows /\ n \in rebound
           /\ \A n \in Protected :
                 Settled(Output) /\ Settled(n)
                    => Apart(spot[container.mounts[Output]], spot[container.mounts[n]])

\* "A concurrent retag cannot substitute the image" (MODEL_FORGE.md, line 159):
\* the container executes the whole of the pinned commit, as this launcher built
\* it.
ImageIsExact == Ran => container.image = "exact"

\* However a launcher comes out of its try block, it leaves no process of the
\* build running, no lease held and the caller's environment as it was.
NothingLeft ==
    pc = "ended" => /\ environment = "caller"
                    /\ docker # "running" /\ git # "running"
                    /\ \A n \in Paths : lease[n] = NoObject

\* The build comes to an end, unless the launcher is killed: neither process
\* waits for the other, or the launcher for one of them, for ever.  Nothing is
\* said of the processes a killed launcher leaves behind.
BuildEnds == (pc = "copy") ~> (pc \in {"confirm", "finally", "killed"})
=============================================================================
