----------------------------- MODULE ReturnData -----------------------------
(***************************************************************************)
(* Program return data seen from a program test                            *)
(* (sanctum-solana-test-utils/src/tx.rs, zero_padded_return_data).  The    *)
(* program sets its return data; the TransactionReturnData the client      *)
(* receives has every trailing zero byte cut off (the comment at tx.rs 8); *)
(* the test pads it back into a [u8; N].                                   *)
(***************************************************************************)
EXTENDS Integers, Sequences, SequencesExt

CONSTANTS
    N,        \* the size of the array the test reads the return data into
    MaxLen,   \* bound on the length of the program's return data
    Bytes     \* byte values: 0 and some nonzero ones

ASSUME N \in Nat /\ MaxLen \in Nat /\ 0 \in Bytes

Returned(v) == [panic |-> FALSE, val |-> v]
Panicked == [panic |-> TRUE]

\* The runtime's TransactionReturnData: rightmost zero bytes removed.
RECURSIVE TrimTrailingZeros(_)
TrimTrailingZeros(s) ==
    IF s # << >> /\ Last(s) = 0 THEN TrimTrailingZeros(Front(s)) ELSE s

Zeros(n) == [i \in 1 .. n |-> 0]

\* Variant: the data copied to the end of the array.
zero_padded_return_data_right(n, rd) ==
    IF Len(rd) > n THEN Panicked ELSE Returned(Zeros(n - Len(rd)) \o rd)

\* Variant: the data cut to n bytes instead of the get_mut(..len).unwrap().
zero_padded_return_data_clamped(n, rd) ==
    LET k == IF Len(rd) > n THEN n ELSE Len(rd)
    IN  Returned(SubSeq(rd, 1, k) \o Zeros(n - k))

\* zero_padded_return_data::<N>: a zeroed [u8; N] with the data copied to
\* its front; res.get_mut(..len) is None, and unwrap panics, when len > N.
zero_padded_return_data(n, rd) ==
    IF Len(rd) > n THEN Panicked ELSE Returned(rd \o Zeros(n - Len(rd)))

VARIABLES
    phase,     \* "idle", "returned", "received" or "read"
    data,      \* what the program passed to set_return_data
    received,  \* the return data the client sees
    result     \* what zero_padded_return_data::<N> gave the test

vars == <<phase, data, received, result>>

Init ==
    /\ phase = "idle"
    /\ data = << >> /\ received = << >>
    /\ result = Returned(Zeros(N))

ProgramReturns(v) ==
    /\ phase \in {"idle", "read"}
    /\ phase' = "returned"
    /\ data' = v
    /\ UNCHANGED <<received, result>>

ClientReceives ==
    /\ phase = "returned"
    /\ phase' = "received"
    /\ received' = TrimTrailingZeros(data)
    /\ UNCHANGED <<data, result>>

TestReads ==
    /\ phase = "received"
    /\ phase' = "read"
    /\ result' = zero_padded_return_data(N, received)
    /\ UNCHANGED <<data, received>>

Next ==
    \/ \E v \in SeqOf(Bytes, MaxLen) : ProgramReturns(v)
    \/ ClientReceives
    \/ TestReads

Spec == Init /\ [][Next]_vars

-----------------------------------------------------------------------------
(* Properties                                                              *)

\* Whatever zeros the runtime cut off, a test reading return data of at most
\* N bytes gets back exactly what the program returned, zero-padded to N.
PaddedReturnDataRecovers ==
    phase = "read" /\ Len(data) <= N =>
        result = Returned(data \o Zeros(N - Len(data)))

\* The helper panics exactly when the program returned a nonzero byte past
\* position N: a longer return value whose excess is all zeros reads back
\* silently as its first N bytes.
PanicsOnlyOnNonzeroExcess ==
    phase = "read" =>
        (result = Panicked) = (\E i \in (N + 1) .. Len(data) : data[i] # 0)

====
