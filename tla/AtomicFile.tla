----------------------------- MODULE AtomicFile -----------------------------
(***************************************************************************)
(* How the system replaces a document on disk: SafeStateFileStore (the     *)
(* processing state of the three Kafka workers) and writeRulesAtomically   *)
(* (the active conversion rules). Both write a temporary file of a fresh   *)
(* name in the directory of the document and rename it over the document,  *)
(* and delete what is left of the temporary file on the way out.           *)
(*                                                                         *)
(* The state is a directory: names, and the files (inodes) behind them. A  *)
(* write creates its own file, so a file is named by its write. A reader   *)
(* holds the file it opened whatever the name points to afterwards.        *)
(* Processes may die; the file system does not.                            *)
(***************************************************************************)
EXTENDS Naturals

CONSTANTS
    Writes,    \* calls that replace the document
    Reads,     \* calls that return it
    Absent,    \* there is no file of this name yet
    Torn,      \* what a reader makes of a file that is not complete
    Chunks     \* buffers a document is written and flushed in

ASSUME FileAssumption ==
    /\ Absent \notin Writes
    /\ Torn \notin Writes \union {Absent}
    /\ Chunks \in Nat \ {0}

VARIABLES
    name,      \* the file the document's name points to, or Absent
    temps,     \* writes whose temporary name exists
    written,   \* chunks in the file of each write
    pc,        \* program counter of each write
    opened     \* <<>>, or <<f>> once a read has file f (or Absent) in hand

fileVars == <<name, temps, written, pc, opened>>

FileInit ==
    /\ name = Absent
    /\ temps = {}
    /\ written = [w \in Writes |-> 0]
    /\ pc = [w \in Writes |-> "idle"]
    /\ opened = [r \in Reads |-> <<>>]

-----------------------------------------------------------------------------
(* new FileStream(tempPath, FileMode.CreateNew): the name is a fresh GUID. *)
CreateTemp(w) ==
    /\ pc[w] = "idle"
    /\ pc' = [pc EXCEPT ![w] = "writing"]
    /\ temps' = temps \union {w}
    /\ UNCHANGED <<name, written, opened>>

(* SerializeAsync writes the document buffer by buffer.                    *)
WriteChunk(w) ==
    /\ pc[w] = "writing"
    /\ written[w] < Chunks
    /\ written' = [written EXCEPT ![w] = @ + 1]
    /\ UNCHANGED <<name, temps, pc, opened>>

\* Mutant: the stream is moved before it is flushed and closed.
CloseUnflushed(w) ==
    /\ pc[w] = "writing"
    /\ pc' = [pc EXCEPT ![w] = "closed"]
    /\ UNCHANGED <<name, temps, written, opened>>

(* FlushAsync, and the end of the await using block.                       *)
CloseTemp(w) ==
    /\ pc[w] = "writing"
    /\ written[w] = Chunks
    /\ pc' = [pc EXCEPT ![w] = "closed"]
    /\ UNCHANGED <<name, temps, written, opened>>

(* File.Move(tempPath, resolvedPath, overwrite: true).                     *)
Rename(w) ==
    /\ pc[w] = "closed"
    /\ name' = w
    /\ temps' = temps \ {w}
    /\ pc' = [pc EXCEPT ![w] = "renamed"]
    /\ UNCHANGED <<written, opened>>

(* Disk full, access denied, cancellation: the exception leaves the try.   *)
Throw(w) ==
    /\ pc[w] \in {"idle", "writing", "closed"}
    /\ pc' = [pc EXCEPT ![w] = "throwing"]
    /\ UNCHANGED <<name, temps, written, opened>>

(* finally: the temporary file is deleted if it still exists.              *)
DeleteTemp(w) ==
    /\ pc[w] \in {"renamed", "throwing"}
    /\ temps' = temps \ {w}
    /\ pc' = [pc EXCEPT ![w] = IF @ = "renamed" THEN "ok" ELSE "failed"]
    /\ UNCHANGED <<name, written, opened>>

(* The process dies in the middle of the write: no finally block runs.     *)
Die(w) ==
    /\ pc[w] \in {"writing", "closed", "renamed", "throwing"}
    /\ pc' = [pc EXCEPT ![w] = "dead"]
    /\ UNCHANGED <<name, temps, written, opened>>

(* ReadAsync: File.Exists says no, and the read returns default ...        *)
FindNothing(r) ==
    /\ opened[r] = <<>>
    /\ name = Absent
    /\ opened' = [opened EXCEPT ![r] = <<Absent>>]
    /\ UNCHANGED <<name, temps, written, pc>>

(* ... or the file the name points to is opened and read to its end.       *)
OpenDocument(r) ==
    /\ opened[r] = <<>>
    /\ name # Absent
    /\ opened' = [opened EXCEPT ![r] = <<name>>]
    /\ UNCHANGED <<name, temps, written, pc>>

FileNext ==
    \/ \E w \in Writes :
         \/ CreateTemp(w) \/ WriteChunk(w) \/ CloseTemp(w) \/ Rename(w)
         \/ Throw(w) \/ DeleteTemp(w) \/ Die(w)
    \/ \E r \in Reads : FindNothing(r) \/ OpenDocument(r)

FileSpec == FileInit /\ [][FileNext]_fileVars

-----------------------------------------------------------------------------
\* The document in a file, as a reader parses it.
Document(f) ==
    IF f \in Writes /\ written[f] < Chunks THEN Torn ELSE f

CellOutcome ==
    [w \in Writes |->
        CASE pc[w] \in {"writing", "closed", "throwing"} -> "running"
          [] pc[w] = "renamed" -> "applied"
          [] pc[w] = "dead" -> "lost"
          [] OTHER -> pc[w]]

CellResult ==
    [r \in Reads |->
        IF opened[r] = <<>> THEN <<>> ELSE <<Document(opened[r][1])>>]

Cell == INSTANCE FileCell WITH
    cell <- Document(name), outcome <- CellOutcome, result <- CellResult

(* Whatever writers fail, die or race, and whenever a reader opens the     *)
(* file, the document behaves as an atomic cell: no reader sees a torn or  *)
(* half-replaced document, a write reported as failed changed nothing, and *)
(* a write reported as done is in the file until another write replaces it.*)
ImplementsCell == Cell!CellSpec

(* Type correctness of the directory and of the writes in progress.        *)
FilesTypeOK ==
    /\ name \in Writes \union {Absent}
    /\ temps \subseteq Writes
    /\ written \in [Writes -> 0 .. Chunks]
    /\ pc \in [Writes -> {"idle", "writing", "closed", "renamed", "throwing",
                          "ok", "failed", "dead"}]
    /\ opened \in [Reads -> {<<>>} \union {<<f>> : f \in Writes \union {Absent}}]

(* Temporary files do not pile up next to the document: one exists only    *)
(* for a write in progress or for a process that died in the middle of     *)
(* one, and never under a write that has replaced the document.            *)
NoLitter ==
    \A w \in temps :
        /\ pc[w] \in {"writing", "closed", "throwing", "dead"}
        /\ w # name

=============================================================================
