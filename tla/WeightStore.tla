----------------------------- MODULE WeightStore -----------------------------
(***************************************************************************)
(* The weight directory of the family (oims/weights.py): one directory per  *)
(* tier holding its GGUF files and weights.lock.json, the processes that    *)
(* run "oims weights pull" on it, and everything else that writes to the    *)
(* disk.  A file is abstracted to how it relates to the identity pinned for *)
(* it in MODEL_MANIFEST.json:                                               *)
(*   "pinned"   the pinned size and the pinned SHA-256                      *)
(*   "altered"  the pinned size and other bytes                             *)
(*   "short"    another size (and so another digest)                        *)
(*   "missing"  no file                                                     *)
(* A lock is abstracted to whether it records the active manifest's         *)
(* repository, revision, sizes and digests ("match"), others ("stale": it   *)
(* was written for an earlier manifest), or is absent or unreadable         *)
(* ("none").                                                                *)
(***************************************************************************)
EXTENDS Naturals, FiniteSets

CONSTANTS
    Tiers,          \* the tiers of the manifest
    FilesOf,        \* FilesOf[t] is the set of weight files of tier t
    Pullers,        \* processes running "oims weights pull"
    InitialContent, \* what a weight file may be before the first step
    InitialLocks,   \* what a lock may be before the first step
    MaxChanges      \* bound: how often bytes other than pinned ones reach the disk

ASSUME StoreAssumption ==
    /\ IsFiniteSet(Tiers) /\ Tiers # {}
    /\ DOMAIN FilesOf = Tiers
    /\ \A t \in Tiers : IsFiniteSet(FilesOf[t]) /\ FilesOf[t] # {}
    /\ \A t, u \in Tiers : t # u => FilesOf[t] \cap FilesOf[u] = {}
    /\ InitialContent \subseteq {"pinned", "altered", "short", "missing"}
    /\ InitialLocks \subseteq {"none", "stale", "match"}
    /\ MaxChanges \in Nat

VARIABLES
    weight,         \* weight[f]: the content of weight file f
    lock,           \* lock[t]: what weights.lock.json of tier t records
    pull,           \* pull[p]: where puller p is in pull_tier
    changes         \* how many times the disk received other bytes so far

storeVars == <<weight, lock, pull, changes>>

Content == {"pinned", "altered", "short", "missing"}
LockState == {"none", "stale", "match"}

\* stat().st_size and sha256_file() of a file: what each of them tells apart.
SizeMatches(c)   == c \in {"pinned", "altered"}
DigestMatches(c) == c = "pinned"

AllFiles == UNION {FilesOf[t] : t \in Tiers}

(***************************************************************************)
(* pull[p].pc is "idle" outside pull_tier, "download" in its first loop     *)
(* and "hash" in its second; tier is the tier pulled, todo the files the    *)
(* current loop has still to visit, and seen the content each file had when *)
(* the second loop hashed it.                                               *)
(***************************************************************************)
PullState == [pc : {"idle", "download", "hash"}, tier : Tiers,
              todo : SUBSET AllFiles, seen : [AllFiles -> Content]]

NothingSeen == [f \in AllFiles |-> "missing"]

\* Outside pull_tier no tier is being pulled: an arbitrary one stands for it.
Idle == [pc |-> "idle", tier |-> CHOOSE t \in Tiers : TRUE, todo |-> {}, seen |-> NothingSeen]

StoreInit ==
    /\ weight \in [AllFiles -> InitialContent]
    /\ lock \in [Tiers -> InitialLocks]
    /\ pull = [p \in Pullers |-> Idle]
    /\ changes = 0

StoreTypeOK ==
    /\ weight \in [AllFiles -> Content]
    /\ lock \in [Tiers -> LockState]
    /\ pull \in [Pullers -> PullState]
    /\ changes \in 0..MaxChanges

-----------------------------------------------------------------------------
(***************************************************************************)
(* pull_tier                                                                *)
(***************************************************************************)

\* One iteration of pull_weights: pull_tier is called for tier t.
PullStart(p, t) ==
    /\ pull[p].pc = "idle"
    /\ pull' = [pull EXCEPT ![p] = [pc |-> "download", tier |-> t,
                                    todo |-> FilesOf[t], seen |-> NothingSeen]]
    /\ UNCHANGED <<weight, lock, changes>>

\* What hf_hub_download puts in place of the local file: the bytes upstream
\* serves for the pinned revision, which the code does not trust to be pinned.
Upstream == {"pinned", "altered", "short"}

\* hf_hub_download moves the complete file into local_dir in one step.
Download(p, f) ==
    /\ pull[p].pc = "download"
    /\ f \in pull[p].todo
    /\ \E c \in Upstream :
          /\ c # "pinned" => changes < MaxChanges
          /\ changes' = IF c = "pinned" THEN changes ELSE changes + 1
          /\ weight' = [weight EXCEPT ![f] = c]
    /\ LET rest == pull[p].todo \ {f} IN
       pull' = [pull EXCEPT ![p].todo = IF rest = {} THEN FilesOf[pull[p].tier] ELSE rest,
                            ![p].pc = IF rest = {} THEN "hash" ELSE "download"]
    /\ UNCHANGED lock

\* The two raises of WeightError, and an OSError of stat or open: pull_tier
\* ends and leaves the files as they are and the lock as it was.
PullAborts(p) ==
    /\ pull' = [pull EXCEPT ![p] = Idle]
    /\ UNCHANGED <<weight, lock, changes>>

DownloadFails(p) ==
    /\ pull[p].pc = "download"
    /\ PullAborts(p)

\* Fault: the digest of a download is not compared.
SizeOnly(c) == SizeMatches(c)

IdentityMatches(c) == SizeMatches(c) /\ DigestMatches(c)

HashDownloaded(p, f) ==
    LET c == weight[f] IN
    /\ pull[p].pc = "hash"
    /\ f \in pull[p].todo
    /\ \/ /\ IdentityMatches(c)
          /\ pull' = [pull EXCEPT ![p].todo = @ \ {f}, ![p].seen[f] = c]
          /\ UNCHANGED <<weight, lock, changes>>
       \/ /\ ~IdentityMatches(c)
          /\ PullAborts(p)

\* A lock records the sizes and digests that were hashed, under the manifest's
\* own repository and revision.
LockRecording(t, seen) ==
    IF \A f \in FilesOf[t] : SizeMatches(seen[f]) /\ DigestMatches(seen[f])
    THEN "match" ELSE "stale"

\* atomic_write_json of the lock; the fast inspect_tier after it only reads.
WriteLock(p) ==
    /\ pull[p].pc = "hash"
    /\ pull[p].todo = {}
    /\ lock' = [lock EXCEPT ![pull[p].tier] = LockRecording(pull[p].tier, pull[p].seen)]
    /\ pull' = [pull EXCEPT ![p] = Idle]
    /\ UNCHANGED <<weight, changes>>

(***************************************************************************)
(* Whatever else writes to the weight directory: an operator who replaces   *)
(* or deletes a file, a copy that was cut short, a failing disk.            *)
(***************************************************************************)
DiskChanges(f, c) ==
    /\ changes < MaxChanges
    /\ weight[f] # c
    /\ weight' = [weight EXCEPT ![f] = c]
    /\ changes' = changes + 1
    /\ UNCHANGED <<lock, pull>>

PullStep(p) ==
    \/ \E t \in Tiers : PullStart(p, t)
    \/ \E f \in AllFiles : Download(p, f) \/ HashDownloaded(p, f)
    \/ DownloadFails(p)
    \/ WriteLock(p)

StoreNext ==
    \/ \E p \in Pullers : PullStep(p)
    \/ \E f \in AllFiles, c \in Content : DiskChanges(f, c)
=============================================================================
