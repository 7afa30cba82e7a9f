---------------------------- MODULE ForgePublish ----------------------------
(***************************************************************************)
(* Publication of the evidence of a simulated Forge run (simulate_forge_run *)
(* in oims/model_forge.py) and the verification of it (verify_forge_run).   *)
(*                                                                         *)
(* A run directory is named after its plan, so all the processes that       *)
(* simulate one plan compete for one directory, whatever source they        *)
(* execute; only the receipt names the source.  Each builds the directory   *)
(* in a staging directory of its own and renames it into place.             *)
(***************************************************************************)
EXTENDS Naturals, FiniteSets

CONSTANTS
    Writers,        \* processes that simulate the plan
    Verifiers,      \* processes that verify the receipt
    Sources,        \* verified execution sources (commit and tree)
    SourceOf,       \* the source each writer and each verifier executes
    Steps,          \* training steps the plan simulates, one checkpoint each
    External,       \* the operator of the machine, as creator of a directory
    NoDir,          \* the run directory, or a staging directory, does not exist
    MaxRemovals,    \* bound: how often the operator removes the run directory
    MaxCreations    \* bound: how often the operator creates it

ASSUME PublishAssumption ==
    /\ IsFiniteSet(Writers) /\ Writers \cap Verifiers = {}
    /\ SourceOf \in [Writers \cup Verifiers -> Sources]
    /\ Steps \in Nat \ {0}
    /\ External \notin Writers /\ NoDir \notin Writers \cup {External}
    /\ MaxRemovals \in Nat /\ MaxCreations \in Nat

VARIABLES
    owner,      \* who put the run directory in place, or NoDir
    contents,   \* how many artifacts it holds, in the order they are written
    staging,    \* staging[w]: how many its staging directory holds, or NoDir
    pc,         \* pc[w]: where writer w is
    status,     \* status[w]: how its simulation ended
    oversized,  \* the artifacts of this plan that are longer than a record may be
    reader,     \* reader[v]: where verifier v is and what it found
    removals,   \* how often the operator removed the run directory
    creations   \* how often the operator created it

writerVars == <<staging, pc, status>>
vars == <<owner, contents, staging, pc, status, oversized, reader, removals, creations>>

(***************************************************************************)
(* The artifacts, numbered in the order simulate_forge_run writes them.     *)
(***************************************************************************)
Plan == 1
Checkpoint(step) == Plan + step
Telemetry == Plan + Steps + 1
Candidate == Plan + Steps + 2
Receipt == Plan + Steps + 3
All == Receipt

Places == {"idle", "check", "stage", "write", "published", "error", "cleanup", "done"}
Results == {"none", "completed", "exists", "failed", "refused", "crashed"}

(***************************************************************************)
(* Besides the artifacts verify_forge_run looks twice at the directory as a *)
(* whole: it lists the checkpoints and meters what it found, and meters     *)
(* everything again at the end.                                             *)
(***************************************************************************)
Listing == All + 1
Metering == All + 2

(***************************************************************************)
(* reader[v].next is what v looks at next; good tells that it accepted all  *)
(* it saw so far.  Three history fields: of is whose directory the receipt  *)
(* was looked for in, from is whose directories it accepted anything of,    *)
(* and undisturbed that nobody created or removed the directory while v was *)
(* at work and no reading failed.                                           *)
(***************************************************************************)
ReaderState == [pc : {"idle", "read", "done"}, next : 1..Metering, good : BOOLEAN,
                of : Writers \cup {External, NoDir},
                from : SUBSET (Writers \cup {External, NoDir}), undisturbed : BOOLEAN]

IdleReader == [pc |-> "idle", next |-> Receipt, good |-> TRUE, of |-> NoDir, from |-> {},
               undisturbed |-> TRUE]

Exists == owner # NoDir
Holds(file) == Exists /\ file <= contents

Init ==
    /\ owner = NoDir
    /\ contents = 0
    /\ staging = [w \in Writers |-> NoDir]
    /\ pc = [w \in Writers |-> "idle"]
    /\ status = [w \in Writers |-> "none"]
    /\ oversized \in SUBSET {Plan, Receipt}
    /\ reader = [v \in Verifiers |-> IdleReader]
    /\ removals = 0
    /\ creations = 0

TypeOK ==
    /\ owner \in Writers \cup {External, NoDir}
    /\ contents \in 0..All
    /\ staging \in [Writers -> (0..All) \cup {NoDir}]
    /\ pc \in [Writers -> Places]
    /\ status \in [Writers -> Results]
    /\ oversized \in SUBSET {Plan, Receipt}
    /\ reader \in [Verifiers -> ReaderState]
    /\ removals \in 0..MaxRemovals
    /\ creations \in 0..MaxCreations

\* The run directory becomes that of o with n artifacts: no verifier that was
\* reading is undisturbed any more.
Becomes(o, n) ==
    /\ owner' = o
    /\ contents' = n
    /\ reader' = [v \in Verifiers |-> [reader[v] EXCEPT !.undisturbed =
                                          @ /\ reader[v].pc # "read"]]

GoTo(w, place) == pc' = [pc EXCEPT ![w] = place]
Ends(w, how) == GoTo(w, "done") /\ status' = [status EXCEPT ![w] = how]

-----------------------------------------------------------------------------
(***************************************************************************)
(* simulate_forge_run                                                       *)
(***************************************************************************)

\* The plan, the source and the sandbox are checked and the evidence is built
\* and metered in memory; any of it may refuse.
Prepare(w) ==
    /\ pc[w] = "idle"
    /\ \/ GoTo(w, "check") /\ UNCHANGED status
       \/ Ends(w, "refused")
    /\ UNCHANGED <<owner, contents, staging, reader, removals, creations>>

\* _safe_run_directory
CheckAbsent(w) ==
    /\ pc[w] = "check"
    /\ \/ ~Exists /\ GoTo(w, "stage") /\ UNCHANGED status
       \/ Exists /\ Ends(w, "exists")
    /\ UNCHANGED <<owner, contents, staging, reader, removals, creations>>

\* mkdtemp: every process gets a directory of its own.
Stage(w) ==
    /\ pc[w] = "stage"
    /\ \/ /\ staging' = [staging EXCEPT ![w] = 0]
          /\ GoTo(w, "write")
          /\ UNCHANGED status
       \/ /\ Ends(w, "failed")
          /\ UNCHANGED staging
    /\ UNCHANGED <<owner, contents, reader, removals, creations>>

\* Fault: the receipt is not written before the directory is published.
StagedButReceipt(w) == staging[w] >= All - 1

Staged(w) == staging[w] = All

\* An atomic write of the next artifact into the staging directory.
WriteArtifact(w) ==
    /\ pc[w] = "write"
    /\ ~Staged(w)
    /\ staging' = [staging EXCEPT ![w] = @ + 1]
    /\ UNCHANGED <<owner, contents, pc, status, reader, removals, creations>>

\* An OSError anywhere between mkdtemp and the rename.
PersistFails(w) ==
    /\ pc[w] = "write"
    /\ GoTo(w, "error")
    /\ UNCHANGED <<owner, contents, staging, status, reader, removals, creations>>

\* Fault: plain rename(2), which replaces an empty directory.
RenamesOntoEmpty == contents = 0

\* renameat2 with RENAME_NOREPLACE succeeds only if the name is free.
RenameSucceeds == ~Exists

Publish(w) ==
    /\ pc[w] = "write"
    /\ Staged(w)
    /\ \/ /\ RenameSucceeds
          /\ Becomes(w, staging[w])
          /\ staging' = [staging EXCEPT ![w] = NoDir]
          /\ GoTo(w, "published")
       \/ /\ ~RenameSucceeds
          /\ GoTo(w, "error")
          /\ UNCHANGED <<owner, contents, staging, reader>>
    /\ UNCHANGED <<status, removals, creations>>

\* The sealed receipt is returned; there is no staging directory to remove.
Return(w) ==
    /\ pc[w] = "published"
    /\ Ends(w, "completed")
    /\ UNCHANGED <<owner, contents, staging, reader, removals, creations>>

\* The except clause blames whatever went wrong on the directory if there is one.
HandleError(w) ==
    /\ pc[w] = "error"
    /\ status' = [status EXCEPT ![w] = IF Exists THEN "exists" ELSE "failed"]
    /\ GoTo(w, "cleanup")
    /\ UNCHANGED <<owner, contents, staging, reader, removals, creations>>

\* The finally clause: rmtree of the staging directory, its errors ignored.
Cleanup(w) ==
    /\ pc[w] = "cleanup"
    /\ staging' = [staging EXCEPT ![w] = NoDir]
    /\ GoTo(w, "done")
    /\ UNCHANGED <<owner, contents, status, reader, removals, creations>>

\* The process is killed.  The staging directory it leaves behind has a name
\* that nobody reads or reuses.
Crash(w) ==
    /\ pc[w] \notin {"idle", "done"}
    /\ Ends(w, "crashed")
    /\ staging' = [staging EXCEPT ![w] = NoDir]
    /\ UNCHANGED <<owner, contents, reader, removals, creations>>

\* The simulation is started again.
Again(w) ==
    /\ pc[w] = "done"
    /\ GoTo(w, "idle")
    /\ status' = [status EXCEPT ![w] = "none"]
    /\ UNCHANGED <<owner, contents, staging, reader, removals, creations>>

-----------------------------------------------------------------------------
(***************************************************************************)
(* The operator: another process creates the directory, or removes it.      *)
(***************************************************************************)

OperatorCreates ==
    /\ ~Exists
    /\ creations < MaxCreations
    /\ creations' = creations + 1
    /\ Becomes(External, 0)
    /\ UNCHANGED <<writerVars, removals>>

OperatorRemoves ==
    /\ Exists
    /\ removals < MaxRemovals
    /\ removals' = removals + 1
    /\ Becomes(NoDir, 0)
    /\ UNCHANGED <<writerVars, creations>>

-----------------------------------------------------------------------------
(***************************************************************************)
(* verify_forge_run reads the receipt, the plan, the telemetry, the list of *)
(* checkpoints, the checkpoints in order and the candidate, and meters them *)
(* all.  All but the receipt are a function of the plan.                    *)
(***************************************************************************)

After(item) ==
    IF item = Receipt THEN Plan
    ELSE IF item = Plan THEN Telemetry
    ELSE IF item = Telemetry THEN Listing
    ELSE IF item = Listing THEN Checkpoint(1)
    ELSE IF item = Checkpoint(Steps) THEN Candidate
    ELSE IF item = Candidate THEN Metering
    ELSE item + 1       \* the next checkpoint

VerifyStart(v) ==
    /\ reader[v].pc \in {"idle", "done"}
    /\ reader' = [reader EXCEPT ![v] = [IdleReader EXCEPT !.pc = "read"]]
    /\ UNCHANGED <<owner, contents, writerVars, removals, creations>>

\* _read_bounded_bytes: the file is there and no longer than a record, or, for
\* the telemetry, than simulate_forge_run lets it grow.  The directory as a whole
\* has every file of the run.
Readable(item) ==
    IF item \in {Listing, Metering} THEN Exists /\ contents = All
    ELSE Holds(item) /\ item \notin oversized

\* Fault: the source in the receipt is not compared with the verifier's own.
AnySource(v, item) == Readable(item)

\* What the checks on one file, or on the directory, accept.
Accepts(v, item) ==
    /\ Readable(item)
    /\ item = Receipt => owner \in Writers /\ SourceOf[owner] = SourceOf[v]

\* Without a receipt nothing else is looked at.
AfterReading(v, read) == [reader[v] EXCEPT
    !.good = @ /\ read /\ Accepts(v, reader[v].next),
    !.of = IF reader[v].next = Receipt THEN owner ELSE @,
    !.from = IF read /\ Accepts(v, reader[v].next) THEN @ \cup {owner} ELSE @,
    !.undisturbed = @ /\ read,
    !.pc = IF \/ reader[v].next = Metering
              \/ reader[v].next = Receipt /\ ~(read /\ Readable(Receipt))
           THEN "done" ELSE "read",
    !.next = IF @ = Metering THEN @ ELSE After(@)]

\* The next look succeeds, or an operating system error ends it.
ReadFile(v) ==
    /\ reader[v].pc = "read"
    /\ \E read \in BOOLEAN : reader' = [reader EXCEPT ![v] = AfterReading(v, read)]
    /\ UNCHANGED <<owner, contents, writerVars, removals, creations>>

-----------------------------------------------------------------------------
WriterStep(w) ==
    \/ Prepare(w)
    \/ CheckAbsent(w)
    \/ Stage(w)
    \/ WriteArtifact(w)
    \/ PersistFails(w)
    \/ Publish(w)
    \/ Return(w)
    \/ HandleError(w)
    \/ Cleanup(w)
    \/ Crash(w)
    \/ Again(w)

Next ==
    /\ \/ \E w \in Writers : WriterStep(w)
       \/ \E v \in Verifiers : VerifyStart(v) \/ ReadFile(v)
       \/ OperatorCreates
       \/ OperatorRemoves
    /\ UNCHANGED oversized

Spec == Init /\ [][Next]_vars

-----------------------------------------------------------------------------
(***************************************************************************)
(* Properties                                                               *)
(***************************************************************************)

\* A run directory is complete from the moment it can be seen, whatever failed
\* or died before: no reader finds a part of a run.
PublishedWhole == owner \in Writers => contents = All

\* The receipt that v looked for is that of a process that executed v's source.
Genuine(v) == reader[v].of \in Writers /\ SourceOf[reader[v].of] = SourceOf[v]

\* Whatever was removed, created or published again while v verified, a run it
\* finds valid has the receipt of a process that executed v's own source, all
\* else it accepted came from published runs of the same plan and never from a
\* directory somebody else made, and its plan and receipt are no longer than a
\* record.  If nothing disturbed v, it finds every such run valid, however the
\* process that published it and the ones it competed with ended.
VerdictTellsPublication ==
    \A v \in Verifiers : reader[v].pc = "done" =>
        /\ reader[v].good => Genuine(v) /\ oversized = {} /\ reader[v].from \subseteq Writers
        /\ reader[v].undisturbed /\ Genuine(v) /\ oversized = {} => reader[v].good

\* The run directory as a value that is written once.
Published == INSTANCE WriteOnce WITH
    Owners <- {<<w, All>> : w \in Writers} \cup {<<External, 0>>},
    Nothing <- <<NoDir, 0>>,
    value <- <<owner, contents>>

\* "A concurrently created destination is preserved": simulate_forge_run
\* implements WriteOnce, so a directory, even an empty one that somebody else
\* made, changes only when the operator removes it.
ImplementsWriteOnce == Published!Spec
=============================================================================
