----------------------------- MODULE AtomicFiles -----------------------------
(***************************************************************************)
(* The two ways in which one JSON file is published (oims/proof.py):        *)
(*                                                                         *)
(*   atomic_write_json   writes a temporary file and renames it over the    *)
(*                       path: conformance records, reports, responses,     *)
(*                       locks, every artifact of a Forge run.  Processes   *)
(*                       that execute the same tier write the same path.    *)
(*   atomic_create_json  opens the path itself with O_EXCL and writes into  *)
(*                       it: the preflight receipt of "oims forge probe",   *)
(*                       whose path is the same for every probe of a plan.  *)
(*                                                                         *)
(* A file is the process that wrote it and whether all of it has been       *)
(* written.  An open file stays the file of its process when the path names *)
(* another one.                                                             *)
(***************************************************************************)
EXTENDS Naturals

CONSTANTS
    Writers,        \* processes that write the record
    Probes,         \* processes that create the receipt
    NoFile,         \* nothing at the path
    MaxRemovals     \* bound: how often an operator removes the receipt

ASSUME FilesAssumption ==
    /\ Writers \cap Probes = {}
    /\ NoFile \notin Writers \cup Probes
    /\ MaxRemovals \in Nat

VARIABLES
    record,     \* the file at the path of the record
    temporary,  \* temporary[w]: the temporary file of writer w
    receipt,    \* the file at the path of the receipt
    pc,         \* pc[q]: where process q is
    told,       \* told[p]: what probe p said of its receipt
    orphaned,   \* the probes whose last file was taken from the path (history)
    killed,     \* the probes that were killed while they had a file open (history)
    removals    \* how often the operator removed the receipt

fileVars == <<record, temporary, receipt, pc, told, orphaned, killed, removals>>

Absent == [by |-> NoFile, whole |-> FALSE]
TemporaryFile == [by : Writers, whole : BOOLEAN] \cup {Absent}
RecordFile == [by : Writers, whole : {TRUE}] \cup {Absent}
ReceiptFile == [by : Probes, whole : BOOLEAN] \cup {Absent}

FileInit ==
    /\ record = Absent
    /\ temporary = [w \in Writers |-> Absent]
    /\ receipt = Absent
    /\ pc = [q \in Writers \cup Probes |-> "idle"]
    /\ told = [p \in Probes |-> "nothing"]
    /\ orphaned = {}
    /\ killed = {}
    /\ removals = 0

\* In particular a reader of the record, which is replaced as a whole, never
\* finds a part of it, whichever of its writers were interrupted; the receipt
\* has no such promise.
FileTypeOK ==
    /\ record \in RecordFile
    /\ temporary \in [Writers -> TemporaryFile]
    /\ receipt \in ReceiptFile
    /\ pc \in [Writers \cup Probes -> {"idle", "write", "undo"}]
    /\ told \in [Probes -> {"nothing", "created", "exists", "failed"}]
    /\ orphaned \subseteq Probes
    /\ killed \subseteq Probes
    /\ removals \in 0..MaxRemovals

GoTo(q, place) == pc' = [pc EXCEPT ![q] = place]

-----------------------------------------------------------------------------
(***************************************************************************)
(* atomic_write_json                                                        *)
(***************************************************************************)

\* mkstemp in the directory of the record.
WriteStart(w) ==
    /\ pc[w] = "idle"
    /\ temporary' = [temporary EXCEPT ![w] = [by |-> w, whole |-> FALSE]]
    /\ GoTo(w, "write")
    /\ UNCHANGED <<record, receipt, told, orphaned, killed, removals>>

\* json.dump, flush and fsync.
Dump(w) ==
    /\ pc[w] = "write"
    /\ ~temporary[w].whole
    /\ temporary' = [temporary EXCEPT ![w] = [by |-> w, whole |-> TRUE]]
    /\ UNCHANGED <<record, receipt, pc, told, orphaned, killed, removals>>

\* Fault: the file is renamed before it has been written out.
Opened(w) == temporary[w] # Absent

Dumped(w) == temporary[w].whole

Replace(w) ==
    /\ pc[w] = "write"
    /\ Dumped(w)
    /\ record' = temporary[w]
    /\ temporary' = [temporary EXCEPT ![w] = Absent]
    /\ GoTo(w, "idle")
    /\ UNCHANGED <<receipt, told, orphaned, killed, removals>>

\* An exception unlinks the temporary file; a kill leaves it there for ever,
\* under a name that is not used again.  The process may start again.
WriteEnds(w) ==
    /\ pc[w] = "write"
    /\ temporary' = [temporary EXCEPT ![w] = Absent]
    /\ GoTo(w, "idle")
    /\ UNCHANGED <<record, receipt, told, orphaned, killed, removals>>

-----------------------------------------------------------------------------
(***************************************************************************)
(* atomic_create_json, and what "forge probe" makes of it                   *)
(***************************************************************************)

Tell(p, what) == told' = [told EXCEPT ![p] = what]

\* Fault: open(2) with O_CREAT and without O_EXCL.
AlwaysCreates == TRUE

CreateSucceeds == receipt = Absent

\* os.open with O_CREAT and O_EXCL.
Open(p) ==
    /\ pc[p] = "idle"
    /\ \/ /\ CreateSucceeds
          /\ receipt' = [by |-> p, whole |-> FALSE]
          /\ GoTo(p, "write")
          /\ Tell(p, "nothing")
          /\ orphaned' = orphaned \ {p}
          /\ killed' = killed \ {p}
       \/ /\ ~CreateSucceeds
          /\ Tell(p, "exists")
          /\ UNCHANGED <<receipt, pc, orphaned, killed>>
       \/ /\ Tell(p, "failed")
          /\ UNCHANGED <<receipt, pc, orphaned, killed>>
    /\ UNCHANGED <<record, temporary, removals>>

\* The file p has open is the one at the path.
InPlace(p) == receipt.by = p /\ p \notin orphaned

\* json.dump, flush and fsync into the open file, wherever it is.
Fill(p) ==
    /\ pc[p] = "write"
    /\ receipt' = IF InPlace(p) THEN [by |-> p, whole |-> TRUE] ELSE receipt
    /\ Tell(p, "created")
    /\ GoTo(p, "idle")
    /\ UNCHANGED <<record, temporary, orphaned, killed, removals>>

FillFails(p) ==
    /\ pc[p] = "write"
    /\ GoTo(p, "undo")
    /\ UNCHANGED <<record, temporary, receipt, told, orphaned, killed, removals>>

\* Fault: the path is not unlinked when the file could not be written.
LeftThere(p) == receipt

\* unlink(missing_ok=True) removes whatever is at the path by now.
AfterUndo(p) == Absent

Undo(p) ==
    /\ pc[p] = "undo"
    /\ receipt' = AfterUndo(p)
    /\ orphaned' = IF receipt = Absent \/ InPlace(p) THEN orphaned
                   ELSE orphaned \cup {receipt.by}
    /\ Tell(p, "failed")
    /\ GoTo(p, "idle")
    /\ UNCHANGED <<record, temporary, killed, removals>>

\* The process is killed; what it has written so far stays at the path.
ProbeKilled(p) ==
    /\ pc[p] \in {"write", "undo"}
    /\ GoTo(p, "idle")
    /\ Tell(p, "nothing")
    /\ killed' = killed \cup {p}
    /\ UNCHANGED <<record, temporary, receipt, orphaned, removals>>

OperatorRemoves ==
    /\ receipt # Absent
    /\ removals < MaxRemovals
    /\ removals' = removals + 1
    /\ orphaned' = orphaned \cup {receipt.by}
    /\ receipt' = Absent
    /\ UNCHANGED <<record, temporary, pc, told, killed>>

FileNext ==
    \/ \E w \in Writers : WriteStart(w) \/ Dump(w) \/ Replace(w) \/ WriteEnds(w)
    \/ \E p \in Probes : Open(p) \/ Fill(p) \/ FillFails(p) \/ Undo(p) \/ ProbeKilled(p)
    \/ OperatorRemoves

FileSpec == FileInit /\ [][FileNext]_fileVars

-----------------------------------------------------------------------------
(***************************************************************************)
(* Properties                                                               *)
(***************************************************************************)

\* What a probe reports is true: a receipt it has created is at the path, all of
\* it, until the operator removes it or, having removed the file of another
\* probe before, makes that probe's cleanup unlink this one.
CreatedIsKept ==
    \A p \in Probes :
        told[p] = "created" => p \in orphaned \/ receipt = [by |-> p, whole |-> TRUE]

\* "Without ever replacing an existing path": no step turns one probe's receipt
\* into another's, and none but the operator and a probe that failed unlinks it.
NeverReplaced ==
    [][(receipt # Absent /\ receipt'.by # receipt.by) =>
          /\ receipt' = Absent
          /\ \/ removals' = removals + 1
             \/ \E p \in orphaned \cup {receipt.by} : pc[p] = "undo" /\ pc'[p] = "idle"]_fileVars

\* A receipt is found unfinished only while its probe is at work on it, or if
\* that probe was killed: any other failure leaves the path to the next probe.
UnfinishedOnlyIfKilled ==
    (receipt # Absent /\ ~receipt.whole)
        => receipt.by \in killed \/ pc[receipt.by] \in {"write", "undo"}
=============================================================================
