--------------------------- MODULE InstructionGate ---------------------------
(***************************************************************************)
(* What an on-chain program that uses the generated interface promises,   *)
(* with no decoding or account tables in sight: requests arrive one at a   *)
(* time, and each is judged once; a request is accepted exactly when it is *)
(* genuine, i.e. it names an operation and carries, for that operation,    *)
(* the accounts and privileges the operation requires.  The detailed       *)
(* StakePoolProgram is shown to implement it under a refinement mapping.   *)
(***************************************************************************)
CONSTANTS
    Ops,      \* the operations the program can perform (with their arguments)
    NoOp      \* the request names no operation (its data does not decode)

VARIABLES
    request,  \* the request being judged: [op, genuine], or NoOp when idle
    verdict   \* "idle", "pending", then "accept" or "reject"

gvars == <<request, verdict>>

Requests == [op : Ops \cup {NoOp}, genuine : BOOLEAN]

GateInit ==
    /\ request = [op |-> NoOp, genuine |-> FALSE]
    /\ verdict = "idle"

\* a request arrives while none is in the gate; a request that names no
\* operation is never genuine
Submit ==
    /\ verdict = "idle"
    /\ request' \in Requests
    /\ request'.op = NoOp => ~request'.genuine
    /\ verdict' = "pending"

\* the request is judged: accepted exactly when it is genuine
Judge ==
    /\ verdict = "pending"
    /\ verdict' = IF request.genuine THEN "accept" ELSE "reject"
    /\ UNCHANGED request

\* the judged request leaves the gate
Retire ==
    /\ verdict \in {"accept", "reject"}
    /\ request' = [op |-> NoOp, genuine |-> FALSE]
    /\ verdict' = "idle"

GateNext == Submit \/ Judge \/ Retire

GateSpec == GateInit /\ [][GateNext]_gvars

====
