--------------------------- MODULE ForgeContainer ---------------------------
(***************************************************************************)
(* The entrypoint of the Forge container (forge/oims_forge_entrypoint.py)   *)
(* for "forge probe", the only command that runs code mounted from the      *)
(* host: nvidia-smi and the driver's libraries.  The entrypoint copies each *)
(* mounted file into a memory file, compares what it has copied with the    *)
(* digest approved at build time, seals the copy, puts a link to its        *)
(* descriptor into the library directory, and executes the controller,      *)
(* which inherits the descriptors and starts nvidia-smi with them.          *)
(*                                                                         *)
(* A mount is read-only for the container and not for the host, which may   *)
(* change a file at any time.  A file is the number of its chunks and       *)
(* whether those are the approved ones; a copy made of the chunks of        *)
(* several versions is not.                                                 *)
(***************************************************************************)
EXTENDS Naturals, FiniteSets, Functions

CONSTANTS
    Files,          \* candidates of the mount table, numbered in path order
    Names,          \* their base names, and others a library is asked for by
    NameOf,         \* NameOf[f]: the base name of file f
    Smi,            \* the name of nvidia-smi
    Executables,    \* the names of all of the driver's executables
    DefaultOf,      \* DefaultOf[n]: the files the default directories have for n,
                    \* as their own base name or through a link of the image
    ApprovedChunks, \* size of the approved files
    MaxChunks,      \* MAX_NVIDIA_RUNTIME_BYTES
    NoFile, Foreign \* nothing; what the entrypoint did not put there

ASSUME ContainerAssumption ==
    /\ Files \subseteq Nat /\ IsFiniteSet(Files)
    /\ NameOf \in [Files -> Names]
    /\ DefaultOf \in [Names -> SUBSET Files]
    /\ Smi \in Executables /\ Executables \subseteq Names
    /\ ApprovedChunks \in Nat \ {0} /\ MaxChunks \in Nat
    /\ NoFile \notin Files /\ Foreign \notin Files /\ NoFile # Foreign

VARIABLES
    command,    \* "probe" or any other
    mounts,     \* the files that are mounted
    mounted,    \* mounted[f]: the file the host has at f now
    pc,         \* where the entrypoint is
    todo,       \* the files the current loop has still to deal with
    current,    \* the file that is being copied
    opened,     \* its size when it was opened
    touched,    \* it has been changed since (history)
    total,      \* total_bytes
    memfd,      \* memfd[f]: the memory file for f
    attested,   \* artifacts: the files whose sealed copies are kept
    directory,  \* the library directory exists
    link,       \* link[n]: the file whose descriptor the link n names
    announced,  \* the descriptors named in the environment
    unapproved  \* the names under which the probe got code nobody approved (history)

containerVars == <<command, mounts, mounted, pc, todo, current, opened, touched, total,
          memfd, attested, directory, link, announced, unapproved>>
hostVars == <<mounts, mounted>>
copyVars == <<current, opened, touched, total>>
bindVars == <<directory, link>>

ApprovedFile == [good |-> TRUE, chunks |-> ApprovedChunks]
OtherFile == [good |-> FALSE, chunks |-> ApprovedChunks]

\* The host keeps extending it: it has more chunks than are ever read.
GrowingFile == [good |-> FALSE, chunks |-> MaxChunks + 1]

Content == {ApprovedFile, OtherFile, GrowingFile}

Copies == [state : {"none", "open", "sealed", "closed"}, good : BOOLEAN, chunks : Nat]

NoCopy == [state |-> "none", good |-> TRUE, chunks |-> 0]

Places == {"start", "attest", "copy", "check", "seal", "abandon", "verify",
           "mkdir", "link", "unbind", "refuse", "exec", "probe", "exited"}

\* The library directory does not exist unless something other than the
\* entrypoint made it; the environment may name any descriptors.
ContainerInit ==
    /\ command \in {"probe", "other"}
    /\ mounts \in SUBSET Files
    /\ mounted = [f \in Files |-> ApprovedFile]
    /\ pc = "start"
    /\ todo = {}
    /\ current = NoFile
    /\ opened = 0
    /\ touched = FALSE
    /\ total = 0
    /\ memfd = [f \in Files |-> NoCopy]
    /\ attested = {}
    /\ directory \in BOOLEAN
    /\ link \in [Names -> IF directory THEN {NoFile, Foreign} ELSE {NoFile}]
    /\ announced \in {{}, {Foreign}}
    /\ unapproved = {}

ContainerTypeOK ==
    /\ command \in {"probe", "other"}
    /\ mounts \subseteq Files
    /\ mounted \in [Files -> Content]
    /\ pc \in Places
    /\ todo \subseteq Files
    /\ current \in Files \cup {NoFile}
    /\ opened \in Nat
    /\ touched \in BOOLEAN
    /\ total \in Nat
    /\ memfd \in [Files -> Copies]
    /\ attested \subseteq Files
    /\ directory \in BOOLEAN
    /\ link \in [Names -> Files \cup {NoFile, Foreign}]
    /\ announced \subseteq Files \cup {Foreign}
    /\ unapproved \subseteq Names

First(f) == f \in todo /\ \A g \in todo : f <= g

\* close(2) of the descriptors of a set; closing one twice closes whatever has
\* got its number since.
Closed(S) ==
    [f \in Files |->
        IF f \notin S THEN memfd[f]
        ELSE [memfd[f] EXCEPT !.state = IF @ = "closed" THEN "closed twice" ELSE "closed"]]

-----------------------------------------------------------------------------
(***************************************************************************)
(* The host                                                                 *)
(***************************************************************************)
HostChanges(f) ==
    /\ f \in mounts
    /\ \E new \in Content : mounted' = [mounted EXCEPT ![f] = new]
    /\ touched' = (touched \/ f = current)
    /\ UNCHANGED <<command, mounts, pc, todo, current, opened, total, memfd, attested,
                   bindVars, announced, unapproved>>

-----------------------------------------------------------------------------
(***************************************************************************)
(* nvidia_runtime_mount_attestation                                         *)
(***************************************************************************)

Cleared == {}

\* The mount table cannot be trusted, or the files to attest are the
\* candidates in it.
Begin ==
    /\ pc = "start"
    /\ announced' = Cleared
    /\ \/ pc' = "refuse" /\ UNCHANGED todo
       \/ command = "probe" /\ pc' = "attest" /\ todo' = mounts
       \/ command # "probe" /\ pc' = "verify" /\ UNCHANGED todo
    /\ UNCHANGED <<command, hostVars, copyVars, memfd, attested, bindVars, unapproved>>

\* The approvals cannot be read, the mount is writable or listed twice, the file
\* is not regular, or a call fails on the way.
Fails ==
    /\ pc \in {"attest", "copy", "check", "seal"}
    /\ pc = "attest" => todo # {} \/ attested = {}
    /\ pc' = "abandon"
    /\ UNCHANGED <<command, hostVars, todo, copyVars, memfd, attested, bindVars, announced,
                   unapproved>>

OpenFile(f) ==
    /\ pc = "attest"
    /\ First(f)
    /\ todo' = todo \ {f}
    /\ current' = f
    /\ opened' = mounted[f].chunks
    /\ touched' = FALSE
    /\ memfd' = [memfd EXCEPT ![f] = [NoCopy EXCEPT !.state = "open"]]
    /\ pc' = "copy"
    /\ UNCHANGED <<command, hostVars, total, attested, bindVars, announced, unapproved>>

\* Fault: the limit is applied to each file by itself.
FileChunks == memfd[current].chunks + 1

TotalChunks == total + 1

CopyChunk ==
    /\ pc = "copy"
    /\ memfd[current].chunks < mounted[current].chunks
    /\ IF TotalChunks > MaxChunks
       THEN pc' = "abandon" /\ UNCHANGED memfd
       ELSE /\ memfd' = [memfd EXCEPT ![current].chunks = @ + 1,
                                      ![current].good = @ /\ mounted[current].good]
            /\ UNCHANGED pc
    /\ total' = total + 1
    /\ UNCHANGED <<command, hostVars, todo, current, opened, touched, attested, bindVars,
                   announced, unapproved>>

EndOfFile ==
    /\ pc = "copy"
    /\ memfd[current].chunks >= mounted[current].chunks
    /\ pc' = "check"
    /\ UNCHANGED <<command, hostVars, todo, copyVars, memfd, attested, bindVars, announced,
                   unapproved>>

Approved(f) == memfd[f].good /\ memfd[f].chunks = ApprovedChunks

\* What fstat(2) says must be what it said before; the modification time of a
\* file that was touched need not have changed.
Check ==
    /\ pc = "check"
    /\ \/ /\ memfd[current].chunks = opened
          /\ mounted[current].chunks = opened
          /\ Approved(current)
          /\ pc' = "seal"
       \/ /\ \/ memfd[current].chunks # opened
             \/ mounted[current].chunks # opened
             \/ touched
             \/ ~Approved(current)
          /\ pc' = "abandon"
    /\ UNCHANGED <<command, hostVars, todo, copyVars, memfd, attested, bindVars, announced,
                   unapproved>>

HandedOver(copy) == [copy EXCEPT !.state = "sealed"]

SealCopy ==
    /\ pc = "seal"
    /\ memfd' = [memfd EXCEPT ![current] = HandedOver(@)]
    /\ attested' = attested \cup {current}
    /\ current' = NoFile
    /\ pc' = "attest"
    /\ UNCHANGED <<command, hostVars, todo, opened, touched, total, bindVars, announced,
                   unapproved>>

Attested ==
    /\ pc = "attest"
    /\ todo = {}
    /\ pc' = "verify"
    /\ UNCHANGED <<command, hostVars, todo, copyVars, memfd, attested, bindVars, announced,
                   unapproved>>

\* Fault: the attestation is returned although its descriptors were closed.
Kept == attested

Dropped == {}

\* Both finally clauses: the copy in work and those collected are closed.
Abandon ==
    /\ pc = "abandon"
    /\ memfd' = Closed(attested \cup ({current} \ {NoFile}))
    /\ attested' = Dropped
    /\ current' = NoFile
    /\ todo' = {}
    /\ pc' = "refuse"
    /\ UNCHANGED <<command, hostVars, opened, touched, total, bindVars, announced,
                   unapproved>>

-----------------------------------------------------------------------------
(***************************************************************************)
(* verify_installed_package and bind_attested_nvidia_runtime                *)
(***************************************************************************)
Smis == {f \in attested : NameOf[f] = Smi}

OneSmi == \E f \in Smis : Smis = {f}

\* The installed package is found to be what was built, or not.
Verify ==
    /\ pc = "verify"
    /\ \/ command # "probe" /\ pc' = "exec"
       \/ command = "probe" /\ OneSmi /\ pc' = "mkdir"
       \/ pc' = "refuse"
    /\ UNCHANGED <<command, hostVars, todo, copyVars, memfd, attested, bindVars, announced,
                   unapproved>>

\* Fault: mkdir with exist_ok.
AnyDirectory == TRUE

NoDirectory == ~directory

MakeDirectory ==
    /\ pc = "mkdir"
    /\ \/ /\ NoDirectory
          /\ directory' = TRUE
          /\ todo' = {f \in attested : NameOf[f] \notin Executables}
          /\ pc' = "link"
       \/ /\ pc' = "unbind"
          /\ UNCHANGED <<directory, todo>>
    /\ UNCHANGED <<command, hostVars, copyVars, memfd, attested, link, announced, unapproved>>

\* A second library of the same name, or a symlink that cannot be made, ends it.
LinkLibrary(f) ==
    /\ pc = "link"
    /\ First(f)
    /\ \/ /\ link[NameOf[f]] = NoFile
          /\ link' = [link EXCEPT ![NameOf[f]] = f]
          /\ todo' = todo \ {f}
          /\ UNCHANGED pc
       \/ /\ pc' = "unbind"
          /\ UNCHANGED <<link, todo>>
    /\ UNCHANGED <<command, hostVars, copyVars, memfd, attested, directory, announced, unapproved>>

Bound ==
    /\ pc = "link"
    /\ todo = {}
    /\ pc' = "exec"
    /\ UNCHANGED <<command, hostVars, todo, copyVars, memfd, attested, bindVars, announced,
                   unapproved>>

\* The links are removed as far as that works, and the directory if it is empty.
Unbind ==
    /\ pc = "unbind"
    /\ \E stay \in SUBSET {n \in Names : link[n] \in Files} :
          link' = [n \in Names |->
                      IF link[n] \in Files /\ n \notin stay THEN NoFile ELSE link[n]]
    /\ directory' = (\E n \in Names : link'[n] # NoFile)
    /\ todo' = {}
    /\ pc' = "refuse"
    /\ UNCHANGED <<command, hostVars, copyVars, memfd, attested, announced, unapproved>>

\* Fault: an error after the attestation leaves its descriptors open.
LeftOpen == {}

HeldByMain == attested

\* main returns 70, having closed the descriptors it was given.
Refuse ==
    /\ pc = "refuse"
    /\ memfd' = Closed(HeldByMain)
    /\ attested' = {}
    /\ pc' = "exited"
    /\ UNCHANGED <<command, hostVars, todo, copyVars, bindVars, announced, unapproved>>

-----------------------------------------------------------------------------
(***************************************************************************)
(* execv, and the probe                                                     *)
(***************************************************************************)

\* The controller replaces the entrypoint and inherits the sealed descriptors;
\* or its package is not where it should be, or execv raises and the descriptors
\* are closed on the way out.
Execute ==
    /\ pc = "exec"
    /\ announced' = IF command = "probe" THEN attested ELSE announced
    /\ pc' \in {"probe", "refuse"}
    /\ UNCHANGED <<command, hostVars, todo, copyVars, memfd, attested, bindVars, unapproved>>

\* Fault: the link names the mounted file and not the descriptor.
MountedFile(f) == mounted[f].good /\ mounted[f].chunks = ApprovedChunks

SealedFile(f) == memfd[f].state = "sealed" /\ Approved(f)

\* A descriptor the controller has inherited, of an approved copy.
Handed(f) == f \in announced \ {Foreign} /\ SealedFile(f)

Gets(name, approved) ==
    unapproved' = IF approved THEN unapproved ELSE unapproved \cup {name}

\* nvidia-smi is executed by its descriptor.  A library it asks for by name is
\* looked for in the library directory, its LD_LIBRARY_PATH, and if there is no
\* link of that name in the default directories: those have the mounted files,
\* as the host has them now.
RunSmi ==
    /\ pc = "probe"
    /\ command = "probe"
    /\ \/ \E f \in Smis : Gets(Smi, Handed(f))
       \/ \E n \in Names \ Executables :
             \/ link[n] # NoFile /\ Gets(n, Handed(link[n]))
             \/ /\ link[n] = NoFile
                /\ \E f \in DefaultOf[n] \cap mounts : Gets(n, mounted[f] = ApprovedFile)
    /\ UNCHANGED <<command, hostVars, pc, todo, copyVars, memfd, attested, bindVars, announced>>

Entrypoint ==
    \/ Begin \/ Fails \/ CopyChunk \/ EndOfFile \/ Check \/ SealCopy \/ Attested \/ Abandon
    \/ \E f \in Files : OpenFile(f) \/ LinkLibrary(f)
    \/ Verify \/ MakeDirectory \/ Bound \/ Unbind \/ Refuse \/ Execute

ContainerNext ==
    \/ Entrypoint
    \/ RunSmi
    \/ \E f \in Files : HostChanges(f)

ContainerSpec == ContainerInit /\ [][ContainerNext]_containerVars

-----------------------------------------------------------------------------
(***************************************************************************)
(* Properties                                                               *)
(***************************************************************************)

\* Whatever the host does to the mounted files, while they are copied or later,
\* nvidia-smi is approved code, and so is every library that is asked for by the
\* base name of an attested file.  Under any other name, a SONAME that is a link
\* of the image to an attested file for one, the host's own bytes are loaded.
AttestedNamesApproved == \A f \in attested : NameOf[f] \notin unapproved

IsOpen(f) == memfd[f].state \in {"open", "sealed"}

\* No descriptor is lost: an entrypoint that gives up has closed every memory
\* file it made, and the probe inherits those it is told of, all of them sealed,
\* and no other.
DescriptorsOwned ==
    /\ pc = "exited" => \A f \in Files : ~IsOpen(f)
    /\ pc = "probe" =>
          /\ \A f \in Files : IsOpen(f) <=> f \in announced
          /\ \A f \in announced : memfd[f].state = "sealed"

\* All copies together stay within MAX_NVIDIA_RUNTIME_BYTES, however the files
\* grow while they are read.
CopiesBounded == SumFunction([f \in Files |-> memfd[f].chunks]) <= MaxChunks

\* A probe finds each attested library under its own name, and only those.
LibrariesExact ==
    (pc = "probe" /\ command = "probe") =>
        /\ \A n \in Names : link[n] # NoFile => link[n] \in attested /\ NameOf[link[n]] = n
        /\ \A f \in attested : NameOf[f] \in Executables \/ link[NameOf[f]] = f
=============================================================================
