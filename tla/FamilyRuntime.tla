---------------------------- MODULE FamilyRuntime ----------------------------
(***************************************************************************)
(* Governed execution of the model family (oims/runtime.py, backends.py,    *)
(* collective.py, verify.py) over the weight directory of WeightStore.      *)
(*                                                                         *)
(* Every run is a process: run_family executes all tiers one after another  *)
(* and seals a conformance report; run_collective_request executes the tier *)
(* of one agent and seals a response.  While it works, other processes pull *)
(* weights, replace weight files and commit to the repository whose HEAD    *)
(* every record names.                                                      *)
(***************************************************************************)
EXTENDS WeightStore, Sequences

CONSTANTS
    Runs,           \* the processes that execute a request
    TierOrder,      \* the tiers in the order the manifest declares them
    Commits,        \* the commits HEAD may name
    NoCommit,       \* current_git_commit's None: git failed
    MaxHeadMoves    \* bound: how often HEAD moves

ASSUME RuntimeAssumption ==
    /\ TierOrder \in Seq(Tiers)
    /\ {TierOrder[i] : i \in DOMAIN TierOrder} = Tiers
    /\ NoCommit \notin Commits
    /\ MaxHeadMoves \in Nat

VARIABLES
    head,           \* the commit HEAD names
    headMoves,      \* how many times it moved
    run,            \* run[r]: the local state of process r
    moved,          \* moved[r]: the files rewritten since r hashed them (history)
    resident,       \* resident[r]: the tiers whose model r holds in memory
    records,        \* records[r]: the sealed tier records r has published
    outcome         \* outcome[r]: the report or response r published last

runVars == <<head, headMoves, run, moved, resident, records, outcome>>
vars == <<weight, lock, pull, changes, head, headMoves, run, moved, resident, records, outcome>>

\* validate_input's verdicts on the prompt; only a LAWFUL one executes.
Verdicts == {"LAWFUL", "IDLE", "DIGITAL_APOPTOSIS"}
ShouldExecute(v) == v = "LAWFUL"
PreflightLawful(v) == v \in {"LAWFUL", "IDLE"}

BackendKinds == {"llama", "fixture"}

(***************************************************************************)
(* run[r] is the state of one process: kind is the entry point it executes; *)
(* plan is the sequence of tiers it has still to execute; commit is the     *)
(* source_commit of the record being built; lockSeen, todo and seen are     *)
(* inspect_tier's reading of the lock and of the files; bytes is what       *)
(* llama.cpp read when it loaded them (history); answer is what generate    *)
(* returned, or that it raised BackendError.                                *)
(***************************************************************************)
Stages == {"idle", "tier", "inspect", "hash", "load", "generate", "release",
           "seal", "done"}

RunState == [pc : Stages, kind : {"family", "collective"}, plan : Seq(Tiers), prompt : Verdicts,
             backend : BackendKinds, commit : Commits \cup {NoCommit},
             lockSeen : LockState, todo : SUBSET AllFiles,
             seen : [AllFiles -> Content], bytes : [AllFiles -> Content],
             answer : {"none", "text", "blank", "error"}]

Statuses == Verdicts \cup {"BACKEND_UNAVAILABLE"}

\* A sealed tier record: what run_tier writes, and two history fields, the
\* bytes that were executed and the files rewritten after they were hashed.
TierRecord == [tier : Tiers, status : Statuses, lawful : BOOLEAN, weights : BOOLEAN,
               real : BOOLEAN, commit : Commits \cup {NoCommit}, lockMatches : BOOLEAN,
               seen : [AllFiles -> Content], bytes : [AllFiles -> Content],
               moved : SUBSET AllFiles]

Report == [kind : {"family"}, conformant : BOOLEAN, weights : BOOLEAN,
           commit : Commits \cup {NoCommit}]
Response == [kind : {"collective"}]
NoOutcome == [kind |-> "none"]

NoBytes == NothingSeen

IdleRun == [pc |-> "idle", kind |-> "family", plan |-> <<>>, prompt |-> "LAWFUL", backend |-> "llama",
            commit |-> NoCommit, lockSeen |-> "none", todo |-> {}, seen |-> NothingSeen,
            bytes |-> NoBytes, answer |-> "none"]

Init ==
    /\ StoreInit
    /\ head \in Commits
    /\ headMoves = 0
    /\ run = [r \in Runs |-> IdleRun]
    /\ moved = [r \in Runs |-> {}]
    /\ resident = [r \in Runs |-> {}]
    /\ records = [r \in Runs |-> <<>>]
    /\ outcome = [r \in Runs |-> NoOutcome]

TypeOK ==
    /\ StoreTypeOK
    /\ head \in Commits
    /\ headMoves \in 0..MaxHeadMoves
    /\ run \in [Runs -> RunState]
    /\ moved \in [Runs -> SUBSET AllFiles]
    /\ resident \in [Runs -> SUBSET Tiers]
    /\ records \in [Runs -> Seq(TierRecord)]
    /\ outcome \in [Runs -> Report \cup Response \cup {NoOutcome}]
-----------------------------------------------------------------------------
(***************************************************************************)
(* run_tier                                                                 *)
(***************************************************************************)

Tier(r) == Head(run[r].plan)

\* The loop of run_family goes to the next tier; run_collective_request has one.
NextStage(rest) == IF rest = <<>> THEN "seal" ELSE "tier"

\* _write_tier_artifact: the record is sealed, published and returned.
Publish(r, rec) ==
    LET rest == Tail(run[r].plan) IN
    /\ records' = [records EXCEPT ![r] = Append(@, rec)]
    /\ run' = [run EXCEPT ![r] = [IdleRun EXCEPT
                  !.pc = NextStage(rest), !.kind = run[r].kind, !.plan = rest,
                  !.prompt = run[r].prompt, !.backend = run[r].backend]]
    /\ moved' = [moved EXCEPT ![r] = {}]

\* A request arrives: the prompt's verdict is fixed, and the tiers to execute.
Start(r) ==
    /\ run[r].pc = "idle"
    /\ \E v \in Verdicts, b \in BackendKinds, k \in {"family", "collective"} :
       \E plan \in IF k = "family" THEN {TierOrder} ELSE {<<t>> : t \in Tiers} :
          run' = [run EXCEPT ![r].pc = "tier", ![r].kind = k, ![r].plan = plan,
                             ![r].prompt = v, ![r].backend = b]
    /\ UNCHANGED <<moved, resident, records, outcome>>

\* current_git_commit: HEAD, or None when git fails.
GitCommit == {head, NoCommit}

\* The record a refused prompt gets: no backend was constructed.
RefusedRecord(r, c) ==
    [tier |-> Tier(r), status |-> run[r].prompt, lawful |-> PreflightLawful(run[r].prompt),
     weights |-> FALSE, real |-> FALSE, commit |-> c, lockMatches |-> FALSE,
     seen |-> NothingSeen, bytes |-> NoBytes, moved |-> {}]

\* _base_record and validate_input: a refused prompt is recorded at once,
\* any other goes on to the backend factory.
BeginTier(r) ==
    /\ run[r].pc = "tier"
    /\ \E c \in GitCommit :
          \/ /\ ~ShouldExecute(run[r].prompt)
             /\ Publish(r, RefusedRecord(r, c))
          \/ /\ ShouldExecute(run[r].prompt)
             /\ run' = [run EXCEPT ![r].commit = c,
                           ![r].pc = IF run[r].backend = "llama" THEN "inspect" ELSE "generate"]
             /\ UNCHANGED <<moved, records>>
    /\ UNCHANGED <<resident, outcome>>

-----------------------------------------------------------------------------
(***************************************************************************)
(* LlamaCppBackend: inspect_tier with hashes, the checks, the load          *)
(***************************************************************************)

\* inspect_tier reads the lock first; an unreadable one counts as none.
InspectLock(r) ==
    /\ run[r].pc = "inspect"
    /\ \E l \in {lock[Tier(r)], "none"} :
          run' = [run EXCEPT ![r].pc = "hash", ![r].lockSeen = l,
                             ![r].todo = FilesOf[Tier(r)]]
    /\ UNCHANGED <<moved, resident, records, outcome>>

\* stat and sha256_file of one file; what the file becomes later is not seen.
InspectFile(r, f) ==
    /\ run[r].pc = "hash"
    /\ f \in run[r].todo
    /\ run' = [run EXCEPT ![r].todo = @ \ {f}, ![r].seen[f] = weight[f]]
    /\ UNCHANGED <<moved, resident, records, outcome>>

Complete(t, seen) == \A f \in FilesOf[t] : seen[f] # "missing"

\* Fault: the fast inspection, which compares sizes only.
FastVerified(t, seen) ==
    /\ Complete(t, seen)
    /\ \A f \in FilesOf[t] : SizeMatches(seen[f])

HashVerified(t, seen) ==
    /\ Complete(t, seen)
    /\ \A f \in FilesOf[t] : SizeMatches(seen[f]) /\ DigestMatches(seen[f])

Verified(r) ==
    /\ HashVerified(Tier(r), run[r].seen)
    /\ run[r].lockSeen = "match"

\* BackendError out of the constructor: there is no backend to close.
UnavailableRecord(r) ==
    [tier |-> Tier(r), status |-> "BACKEND_UNAVAILABLE", lawful |-> FALSE,
     weights |-> FALSE, real |-> FALSE, commit |-> run[r].commit, lockMatches |-> FALSE,
     seen |-> NothingSeen, bytes |-> NoBytes, moved |-> {}]

Unavailable(r) ==
    /\ Publish(r, UnavailableRecord(r))
    /\ UNCHANGED <<resident, outcome>>

\* The identity checks of __init__.  Past them the import of llama_cpp, or its
\* version, may still fail.
CheckIdentity(r) ==
    /\ run[r].pc = "hash"
    /\ run[r].todo = {}
    /\ \/ /\ Verified(r)
          /\ run' = [run EXCEPT ![r].pc = "load"]
          /\ UNCHANGED <<moved, resident, records, outcome>>
       \/ Unavailable(r)

\* resolve_weight_files again, then Llama(...), which may fail for reasons of
\* its own.  The model is built from the bytes the files have now.
Load(r) ==
    /\ run[r].pc = "load"
    /\ \/ /\ \A f \in FilesOf[Tier(r)] : weight[f] # "missing"
          /\ run' = [run EXCEPT ![r].pc = "generate",
                        ![r].bytes = [f \in AllFiles |->
                            IF f \in FilesOf[Tier(r)] THEN weight[f] ELSE "missing"]]
          /\ resident' = [resident EXCEPT ![r] = @ \cup {Tier(r)}]
          /\ UNCHANGED <<moved, records, outcome>>
       \/ Unavailable(r)

\* generate: the fixture always answers with text.
Generate(r) ==
    /\ run[r].pc = "generate"
    /\ \E a \in IF run[r].backend = "llama" THEN {"text", "blank", "error"} ELSE {"text"} :
          run' = [run EXCEPT ![r].pc = "release", ![r].answer = a]
    /\ UNCHANGED <<moved, resident, records, outcome>>

\* Fault: a status outside the ones a record may carry.
OutputStatusRaw(answer) == IF answer = "text" THEN "LAWFUL" ELSE "EMPTY_OUTPUT"

\* validate_output
OutputStatus(answer) == IF answer = "text" THEN "LAWFUL" ELSE "DIGITAL_APOPTOSIS"

ExecutedRecord(r) ==
    LET real == run[r].backend = "llama" IN
    [tier |-> Tier(r), status |-> OutputStatus(run[r].answer),
     lawful |-> run[r].answer = "text",
     \* LlamaCppBackend claims both identity flags, the fixture neither
     weights |-> real, real |-> real, commit |-> run[r].commit,
     lockMatches |-> run[r].lockSeen = "match", seen |-> run[r].seen,
     bytes |-> run[r].bytes, moved |-> moved[r]]

FailedRecord(r) == [UnavailableRecord(r) EXCEPT !.bytes = run[r].bytes]

\* Fault: the model is closed on the success path only.
ReleasedOnSuccess(r) == IF run[r].answer = "error" THEN resident[r] ELSE resident[r] \ {Tier(r)}

\* The model r holds is given back: close(), and if that raises del and gc.
Released(r) == resident[r] \ {Tier(r)}

\* The finally clause, then _write_tier_artifact.
Release(r) ==
    /\ run[r].pc = "release"
    /\ resident' = [resident EXCEPT ![r] = Released(r)]
    /\ Publish(r, IF run[r].answer = "error" THEN FailedRecord(r) ELSE ExecutedRecord(r))
    /\ UNCHANGED outcome

-----------------------------------------------------------------------------
(***************************************************************************)
(* run_family and run_collective_request, after the tiers                   *)
(***************************************************************************)

AllLawful(recs) == \A i \in DOMAIN recs : recs[i].status = "LAWFUL"
WeightBacked(recs) == \A i \in DOMAIN recs : recs[i].weights

\* Fault: one weight-backed tier makes the whole report weight-backed.
AnyTierReport(recs, c) ==
    [kind |-> "family", conformant |-> AllLawful(recs),
     weights |-> \E i \in DOMAIN recs : recs[i].weights, commit |-> c]

\* The invariant vectors of one run agree (one manifest, one contract), and the
\* manifest declares distinct architectures and providers: conformance is lawfulness.
BuildReport(recs, c) ==
    [kind |-> "family", conformant |-> AllLawful(recs), weights |-> WeightBacked(recs),
     commit |-> c]

Seal(r) ==
    /\ run[r].pc = "seal"
    /\ \E c \in GitCommit :
          outcome' = [outcome EXCEPT ![r] = IF run[r].kind = "family"
                                            THEN BuildReport(records[r], c)
                                            ELSE [kind |-> "collective"]]
    /\ run' = [run EXCEPT ![r].pc = "done"]
    /\ UNCHANGED <<moved, resident, records>>

\* The process dies, or an exception no handler of run_tier expects ends it
\* (the disk refuses an artifact): what was published stays.
Crash(r) ==
    /\ run[r].pc \notin {"idle", "done"}
    /\ run' = [run EXCEPT ![r] = [IdleRun EXCEPT !.pc = "done"]]
    /\ moved' = [moved EXCEPT ![r] = {}]
    /\ resident' = [resident EXCEPT ![r] = {}]
    /\ UNCHANGED <<records, outcome>>

RunStep(r) ==
    \/ Start(r)
    \/ BeginTier(r)
    \/ InspectLock(r)
    \/ \E f \in AllFiles : InspectFile(r, f)
    \/ CheckIdentity(r)
    \/ Load(r)
    \/ Generate(r)
    \/ Release(r)
    \/ Seal(r)
    \/ Crash(r)

\* The files a run has hashed and not yet loaded.
Hashed(r) == IF run[r].pc \in {"hash", "load"} THEN FilesOf[Tier(r)] \ run[r].todo ELSE {}

\* A step of another process on the weight directory, seen from the runs.
StoreStep ==
    /\ StoreNext
    /\ moved' = [r \in Runs |-> moved[r] \cup {f \in Hashed(r) : weight'[f] # weight[f]}]
    /\ UNCHANGED <<head, headMoves, run, resident, records, outcome>>

\* A commit, a checkout or a pull in the repository the program runs from.
HeadMoves ==
    /\ headMoves < MaxHeadMoves
    /\ head' \in Commits \ {head}
    /\ headMoves' = headMoves + 1
    /\ UNCHANGED <<weight, lock, pull, changes, run, moved, resident, records, outcome>>

Next ==
    \/ \E r \in Runs : RunStep(r) /\ UNCHANGED <<storeVars, head, headMoves>>
    \/ StoreStep
    \/ HeadMoves

Spec == Init /\ [][Next]_vars

-----------------------------------------------------------------------------
(***************************************************************************)
(* verify_artifact: what a reader of a report recomputes from it            *)
(***************************************************************************)

\* _verify_tier, on a record of the active manifest whose seal is intact.
TierVerifies(rec) ==
    /\ rec.commit # NoCommit
    /\ rec.weights => /\ rec.real
                      /\ rec.lockMatches
                      /\ HashVerified(rec.tier, rec.seen)

CommitsAgree(rep, recs) ==
    /\ rep.commit # NoCommit
    /\ \A i \in DOMAIN recs : recs[i].commit = rep.commit

\* _verify_family
FamilyVerifies(rep, recs) ==
    /\ [i \in DOMAIN recs |-> recs[i].tier] = TierOrder
    /\ \A i \in DOMAIN recs : TierVerifies(recs[i])
    /\ rep.conformant = AllLawful(recs)
    /\ CommitsAgree(rep, recs)
    /\ rep.weights = WeightBacked(recs)

\* "verify --require-weight-backed": the acceptance step of the scripts.
Accepted(rep, recs) == FamilyVerifies(rep, recs) /\ rep.weights

-----------------------------------------------------------------------------
(***************************************************************************)
(* Properties                                                               *)
(***************************************************************************)

\* A record that claims weight execution names the bytes that were executed:
\* each file llama.cpp read held the pinned bytes, unless it was rewritten
\* after LlamaCppBackend.__init__ hashed it and before it loaded it.
WeightEvidence ==
    \A r \in Runs : \A i \in DOMAIN records[r] :
        LET rec == records[r][i] IN
        rec.weights => \A f \in FilesOf[rec.tier] : rec.bytes[f] = "pinned" \/ f \in rec.moved

\* The runtime loads and releases one tier at a time: a process holds at most
\* one model, only while it generates with it and only for an accepted prompt,
\* and gives it back on every path before the record is published.
OneTierAtATime ==
    \A r \in Runs :
        /\ Cardinality(resident[r]) <= 1
        /\ resident[r] # {} => /\ run[r].pc \in {"generate", "release"}
                               /\ ShouldExecute(run[r].prompt)
                               /\ resident[r] = {Tier(r)}

\* run_family and verify_artifact agree: a sealed report verifies exactly when
\* HEAD stood still, and git answered, from its first record to its seal.  In
\* particular every other decision in the report is the one the verifier takes.
RejectedOnlyForCommits ==
    \A r \in Runs :
        outcome[r].kind = "family" =>
            (FamilyVerifies(outcome[r], records[r]) <=> CommitsAgree(outcome[r], records[r]))

\* The code never writes a lock for bytes it did not find pinned: the lock of a
\* tier changes only at the end of a pull_tier that hashed every file of the
\* tier and found all of them pinned, and then it matches the manifest.
LockOnlyForPinnedBytes ==
    [][\A t \in Tiers : lock'[t] # lock[t] =>
          /\ lock'[t] = "match"
          /\ \E p \in Pullers : /\ pull[p].tier = t
                                /\ pull[p].pc = "hash" /\ pull'[p].pc = "idle"
                                /\ \A f \in FilesOf[t] : pull[p].seen[f] = "pinned"]_vars

\* What VERIFICATION.md says of an accepted report: the pinned bytes executed.
PinnedBytesExecuted ==
    \A r \in Runs : \A i \in DOMAIN records[r] :
        LET rec == records[r][i] IN
        rec.weights => \A f \in FilesOf[rec.tier] : rec.bytes[f] = "pinned"

\* What VERIFICATION.md says of an accepted report: runtime_isomorphic is true.
AcceptedIsIsomorphic ==
    \A r \in Runs :
        (outcome[r].kind = "family" /\ Accepted(outcome[r], records[r])) => outcome[r].conformant
=============================================================================
