------------------------------ MODULE FileCell ------------------------------
(***************************************************************************)
(* What the services rely on when they keep a document in one file: an     *)
(* atomic cell. A write takes effect at one instant between its start and  *)
(* its return, and not at all when it is reported as failed; a read        *)
(* returns what the cell held at one instant. A write whose process died   *)
(* may have taken effect or not.                                           *)
(*                                                                         *)
(* Every write stores a document of its own, so the document is named by   *)
(* the write that stored it.                                               *)
(***************************************************************************)
CONSTANTS
    Writes,    \* calls that replace the document
    Reads,     \* calls that return it
    Absent     \* there is no file yet

VARIABLES
    cell,      \* the document, or Absent
    outcome,   \* how far each write is
    result     \* <<>> until a read has taken its value v, then <<v>>

cellVars == <<cell, outcome, result>>

CellInit ==
    /\ cell = Absent
    /\ outcome = [w \in Writes |-> "idle"]
    /\ result = [r \in Reads |-> <<>>]

Start(w) ==
    /\ outcome[w] = "idle"
    /\ outcome' = [outcome EXCEPT ![w] = "running"]
    /\ UNCHANGED <<cell, result>>

Apply(w) ==
    /\ outcome[w] = "running"
    /\ outcome' = [outcome EXCEPT ![w] = "applied"]
    /\ cell' = w
    /\ UNCHANGED result

Succeed(w) ==
    /\ outcome[w] = "applied"
    /\ outcome' = [outcome EXCEPT ![w] = "ok"]
    /\ UNCHANGED <<cell, result>>

Reject(w) ==
    /\ outcome[w] = "running"
    /\ outcome' = [outcome EXCEPT ![w] = "failed"]
    /\ UNCHANGED <<cell, result>>

Lose(w) ==
    /\ outcome[w] \in {"running", "applied"}
    /\ outcome' = [outcome EXCEPT ![w] = "lost"]
    /\ UNCHANGED <<cell, result>>

Take(r) ==
    /\ result[r] = <<>>
    /\ result' = [result EXCEPT ![r] = <<cell>>]
    /\ UNCHANGED <<cell, outcome>>

CellNext ==
    \/ \E w \in Writes : Start(w) \/ Apply(w) \/ Succeed(w) \/ Reject(w) \/ Lose(w)
    \/ \E r \in Reads : Take(r)

CellSpec == CellInit /\ [][CellNext]_cellVars
=============================================================================
