--------------------------- MODULE MCTestUtils ---------------------------
(***************************************************************************)
(* The two helper families of sanctum-solana-test-utils/src/tx.rs checked  *)
(* in one run: a test may read a transaction's error (ErrorSurfacing) and  *)
(* another transaction's return data (ReturnData) in any order.  The two   *)
(* share no state, so each step is a step of one of them with the other's  *)
(* variables unchanged; each keeps its own phase under its own name.       *)
(***************************************************************************)
VARIABLES
    esPhase, failure, reported, test,   \* ErrorSurfacing
    rdPhase, data, received, result     \* ReturnData

esVars == <<esPhase, failure, reported, test>>
rdVars == <<rdPhase, data, received, result>>
vars == <<esVars, rdVars>>

\* code 0 (the edge of Custom), an ordinary code, and the engine's code
MC_CustomCodes == {0, 6, 696969}
MC_BuiltinErrors == {"InvalidAccountData", "MissingRequiredSignature"}
MC_RuntimeErrors == {"PrivilegeEscalation"}
MC_TxErrors == {"AccountNotFound"}
MC_TransportErrors == {"RpcError"}

ES == INSTANCE ErrorSurfacing WITH
    CustomCodes <- MC_CustomCodes, BuiltinErrors <- MC_BuiltinErrors,
    RuntimeErrors <- MC_RuntimeErrors, TxErrors <- MC_TxErrors,
    TransportErrors <- MC_TransportErrors, phase <- esPhase

\* N = 2; return data up to 3 bytes of 0 and 7: shorter than, as long as
\* and longer than N, with zero and nonzero tails
RD == INSTANCE ReturnData WITH N <- 2, MaxLen <- 3, Bytes <- {0, 7}, phase <- rdPhase

Init == ES!Init /\ RD!Init

Next ==
    \/ ES!Next /\ UNCHANGED rdVars
    \/ RD!Next /\ UNCHANGED esVars

Spec == Init /\ [][Next]_vars

\* The properties of the two components (stated in their modules).
ProgramErrorAssertExact == ES!ProgramErrorAssertExact
CustomAssertByCode == ES!CustomAssertByCode
PaddedReturnDataRecovers == RD!PaddedReturnDataRecovers
PanicsOnlyOnNonzeroExcess == RD!PanicsOnlyOnNonzeroExcess

====
