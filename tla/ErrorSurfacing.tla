--------------------------- MODULE ErrorSurfacing ---------------------------
(***************************************************************************)
(* How a failure inside a program reaches a program-test assertion.        *)
(*                                                                         *)
(*   MathError --From (err/onchain.rs)--> ProgramError                     *)
(*     --runtime--> InstructionError --> TransactionError                  *)
(*     --BanksClient--> BanksClientError                                   *)
(*     --extract_* / assert_* (sanctum-solana-test-utils/src/tx.rs)        *)
(*                                                                         *)
(* A test runs in three steps: the program fails, the banks client reports *)
(* the failure (from process_transaction, from a simulation, or as a       *)
(* transport error), and the test calls one assertion helper.  The         *)
(* runtime's conversions between ProgramError and InstructionError are     *)
(* the identity on the error kinds both have; InstructionErrors the        *)
(* runtime raises by itself have no ProgramError.                          *)
(***************************************************************************)
EXTENDS Integers, TLC

CONSTANTS
    CustomCodes,    \* u32 codes of the program's own custom errors
    BuiltinErrors,  \* built-in ProgramError variants (InvalidAccountData, ...)
    RuntimeErrors,  \* InstructionErrors with no ProgramError (PrivilegeEscalation, ...)
    TxErrors,       \* TransactionErrors raised before any instruction runs
    TransportErrors \* BanksClientErrors other than a transaction error

MathErrors == {"Overflow", "InvalidFeeSpec"}

Returned(v) == [panic |-> FALSE, val |-> v]
Panicked == [panic |-> TRUE]

Custom(c) == [kind |-> "Custom", code |-> c]
Builtin(b) == [kind |-> b]

\* err/onchain.rs: MATH_ERROR_PROGRAM_ERROR_CODE
MATH_ERROR_PROGRAM_ERROR_CODE == 696969

\* impl From<MathError> for ProgramError: the variant is dropped
ProgramErrorOfMath(e) == Custom(MATH_ERROR_PROGRAM_ERROR_CODE)

\* An error value of the program's source, and its Into<ProgramError>.
Source == [src : {"math"}, err : MathErrors] \cup [src : {"custom"}, code : CustomCodes]
          \cup [src : {"builtin"}, err : BuiltinErrors]

IntoProgramError(s) ==
    CASE s.src = "math"    -> ProgramErrorOfMath(s.err)
      [] s.src = "custom"  -> Custom(s.code)
      [] s.src = "builtin" -> Builtin(s.err)

ProgramErrors == {Custom(c) : c \in CustomCodes \cup {MATH_ERROR_PROGRAM_ERROR_CODE}}
                 \cup {Builtin(b) : b \in BuiltinErrors}
InstructionErrors == ProgramErrors \cup {Builtin(r) : r \in RuntimeErrors}

\* TransactionError::InstructionError(0, e), and the transaction-level errors
IxFailed(ie) == [kind |-> "InstructionError", index |-> 0, err |-> ie]
TransactionErrors == {IxFailed(ie) : ie \in InstructionErrors} \cup {[kind |-> t] : t \in TxErrors}

\* TryFrom<InstructionError> for ProgramError
ProgramErrorOfIx(ie) == IF ie \in ProgramErrors THEN Returned(ie) ELSE Panicked

-----------------------------------------------------------------------------
(* tx.rs                                                                   *)

\* Variant: a simulation's error not recognised.
extract_tx_err_no_sim(b) ==
    IF b.kind = "TransactionError" THEN Returned(b.err) ELSE Panicked

\* extract_tx_err: the TransactionError of a processed or simulated
\* transaction; any other BanksClientError panics.
extract_tx_err(b) ==
    IF b.kind \in {"TransactionError", "SimulationError"} THEN Returned(b.err) ELSE Panicked

\* extract_ix_err: the InstructionError; any other TransactionError panics.
extract_ix_err(b) ==
    LET t == extract_tx_err(b)
    IN  IF t.panic \/ t.val.kind # "InstructionError" THEN Panicked
        ELSE Returned(t.val.err)

\* Variant: a non-custom error read as code 0.
extract_ix_err_code_zero(ie) ==
    IF ie.kind = "Custom" THEN Returned(ie.code) ELSE Returned(0)

\* extract_ix_err_code: the code of InstructionError::Custom, else a panic.
extract_ix_err_code(ie) ==
    IF ie.kind = "Custom" THEN Returned(ie.code) ELSE Panicked

\* the outcome of assert_eq!
AssertEq(actual, expected) == IF actual = expected THEN "pass" ELSE "fail"

\* assert_custom_err: codes compared; an expected error that is not custom panics
assert_custom_err(b, expected) ==
    LET ie == extract_ix_err(b)
        code == IF ie.panic THEN Panicked ELSE extract_ix_err_code(ie.val)
        exp == IntoProgramError(expected)
    IN  IF code.panic \/ exp.kind # "Custom" THEN "panic"
        ELSE AssertEq(code.val, exp.code)

\* assert_built_in_prog_err: the code against expected_err.to_u32()
assert_built_in_prog_err(b, expectedCode) ==
    LET ie == extract_ix_err(b)
        code == IF ie.panic THEN Panicked ELSE extract_ix_err_code(ie.val)
    IN  IF code.panic THEN "panic" ELSE AssertEq(code.val, expectedCode)

\* assert_program_error: ix_err.try_into().unwrap(), then equality
assert_program_error(b, expected) ==
    LET ie == extract_ix_err(b)
        pe == IF ie.panic THEN Panicked ELSE ProgramErrorOfIx(ie.val)
    IN  IF pe.panic THEN "panic" ELSE AssertEq(pe.val, expected)

\* assert_transaction_error
assert_transaction_error(b, expected) ==
    LET t == extract_tx_err(b)
    IN  IF t.panic THEN "panic" ELSE AssertEq(t.val, expected)

-----------------------------------------------------------------------------
(* A program test: the program fails, the client reports, the test asserts *)

VARIABLES
    phase,     \* "idle", "failed", "reported" or "asserted"
    failure,   \* how the transaction failed
    reported,  \* the BanksClientError the test receives
    test       \* the assertion helper called, its expected error, its outcome

vars == <<phase, failure, reported, test>>

\* a program returning a source error, the runtime aborting the instruction,
\* or the transaction rejected before it runs
Failures ==
    [at : {"program"}, src : Source] \cup [at : {"runtime"}, err : RuntimeErrors]
    \cup [at : {"tx"}, err : TxErrors]

TxErrorOf(f) ==
    CASE f.at = "program" -> IxFailed(IntoProgramError(f.src))
      [] f.at = "runtime" -> IxFailed(Builtin(f.err))
      [] f.at = "tx"      -> [kind |-> f.err]

Helpers == {"assert_custom_err", "assert_built_in_prog_err",
            "assert_program_error", "assert_transaction_error"}

Expected(h) ==
    CASE h = "assert_custom_err"        -> Source
      [] h = "assert_built_in_prog_err" -> CustomCodes
      [] h = "assert_program_error"     -> ProgramErrors
      [] h = "assert_transaction_error" -> TransactionErrors

Outcome(h, b, e) ==
    CASE h = "assert_custom_err"        -> assert_custom_err(b, e)
      [] h = "assert_built_in_prog_err" -> assert_built_in_prog_err(b, e)
      [] h = "assert_program_error"     -> assert_program_error(b, e)
      [] h = "assert_transaction_error" -> assert_transaction_error(b, e)

Init ==
    /\ phase = "idle"
    /\ failure = [at |-> "none"]
    /\ reported = [kind |-> "none"]
    /\ test = [helper |-> "none"]

ProgramFails(f) ==
    /\ phase \in {"idle", "asserted"}
    /\ phase' = "failed"
    /\ failure' = f
    /\ reported' = [kind |-> "none"]
    /\ test' = [helper |-> "none"]

\* BanksClient::process_transaction or simulate_transaction returns the
\* failure; or the request itself fails
ClientReports(kind) ==
    /\ phase = "failed"
    /\ phase' = "reported"
    /\ reported' = IF kind \in {"TransactionError", "SimulationError"}
                   THEN [kind |-> kind, err |-> TxErrorOf(failure)]
                   ELSE [kind |-> kind]
    /\ UNCHANGED <<failure, test>>

TestAsserts(h, e) ==
    /\ phase = "reported"
    /\ phase' = "asserted"
    /\ test' = [helper |-> h, expected |-> e, outcome |-> Outcome(h, reported, e)]
    /\ UNCHANGED <<failure, reported>>

Next ==
    \/ \E f \in Failures : ProgramFails(f)
    \/ \E k \in {"TransactionError", "SimulationError"} \cup TransportErrors : ClientReports(k)
    \/ \E h \in Helpers : \E e \in Expected(h) : TestAsserts(h, e)

Spec == Init /\ [][Next]_vars

-----------------------------------------------------------------------------
(* Properties                                                              *)

\* The ProgramError the test can observe: the program's own error, reported
\* by process_transaction or by a simulation.
ObservedProgramError ==
    IF reported.kind \in {"TransactionError", "SimulationError"} /\ failure.at = "program"
    THEN {IntoProgramError(failure.src)} ELSE {}

\* assert_program_error passes exactly when the program failed with the
\* expected ProgramError, fails when it failed with another, and panics
\* (rather than failing) when no ProgramError reached the test: a transport
\* error, a transaction-level error, or an error the runtime raised itself.
ProgramErrorAssertExact ==
    phase = "asserted" /\ test.helper = "assert_program_error" =>
        test.outcome = IF ObservedProgramError = {} THEN "panic"
                       ELSE IF test.expected \in ObservedProgramError THEN "pass" ELSE "fail"

\* assert_custom_err and assert_built_in_prog_err pass exactly when the
\* program failed with ProgramError::Custom of the expected code, whichever
\* way the banks client reported it.
CustomAssertByCode ==
    phase = "asserted" /\ test.helper \in {"assert_custom_err", "assert_built_in_prog_err"} =>
        LET exp == IntoProgramError(test.expected)
            codes == IF test.helper = "assert_built_in_prog_err" THEN {test.expected}
                     ELSE IF exp.kind = "Custom" THEN {exp.code} ELSE {}
        IN  (test.outcome = "pass") =
              (\E c \in codes, pe \in ObservedProgramError : pe = Custom(c))

====
