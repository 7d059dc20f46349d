-------------------------- MODULE TokenRatioCalls --------------------------
(***************************************************************************)
(* A caller of the token-ratio engine.  Each step is one call of the       *)
(* library's public API on inputs drawn from the bounded domains; `call`   *)
(* records the call and its result.  No call depends on an earlier one     *)
(* (spec section 5), so any call may follow any other.                     *)
(***************************************************************************)
EXTENDS TokenRatio

VARIABLE call

vars == <<call>>

Roundings == {"floor", "ceil"}

Init == call = [op |-> "none"]

\* U64Ratio == U64Ratio (PartialEq::eq)
CallEq(l, r) ==
    call' = [op |-> "eq", lhs |-> l, rhs |-> r, out |-> eq(l, r)]

\* U64Ratio < U64Ratio, cmp, partial_cmp (all through cmp_inner)
CallCmp(l, r) ==
    call' = [op |-> "cmp", lhs |-> l, rhs |-> r, out |-> cmp_inner(l, r)]

\* ReversibleRatio::apply of FloorDiv / CeilDiv
CallApply(rnd, r, amt) ==
    call' = [op |-> "apply", rounding |-> rnd, ratio |-> r, in |-> amt,
             out |-> RoundApply(rnd, r, amt)]

\* ReversibleRatio::reverse of FloorDiv / CeilDiv
CallReverse(rnd, r, y) ==
    call' = [op |-> "reverse", rounding |-> rnd, ratio |-> r, in |-> y,
             out |-> RoundReverse(rnd, r, y)]

\* U64FeeCeil::apply and U64BpsFeeCeil::apply (through as_u64_fee_ceil)
CallFeeApply(f, amt) ==
    call' = [op |-> "fee_apply", fee |-> f, in |-> amt, out |-> FeeCeilApply(f, amt)]

CallBpsApply(bps, amt) ==
    call' = [op |-> "fee_apply", fee |-> as_u64_fee_ceil(bps), in |-> amt,
             out |-> BpsApply(bps, amt)]

\* U64FeeCeil::pseudo_reverse and U64BpsFeeCeil::pseudo_reverse
CallFeePseudoReverse(f, y) ==
    call' = [op |-> "pseudo_reverse", fee |-> f, in |-> y,
             out |-> FeeCeilPseudoReverse(f, y)]

CallBpsPseudoReverse(bps, y) ==
    call' = [op |-> "pseudo_reverse", fee |-> as_u64_fee_ceil(bps), in |-> y,
             out |-> BpsPseudoReverse(bps, y)]

\* U64BpsFeeCeil::is_valid
CallBpsIsValid(bps) ==
    call' = [op |-> "is_valid", bps |-> bps, out |-> is_valid(bps)]

Next ==
    \/ \E l, r \in Ratios : CallEq(l, r) \/ CallCmp(l, r)
    \/ \E rnd \in Roundings, r \in Ratios, x \in U64 :
          CallApply(rnd, r, x) \/ CallReverse(rnd, r, x)
    \/ \E f \in FeeSpecs, x \in U64 : CallFeeApply(f, x) \/ CallFeePseudoReverse(f, x)
    \/ \E b \in BpsValues, x \in U64 : CallBpsApply(b, x) \/ CallBpsPseudoReverse(b, x)
    \/ \E b \in BpsValues : CallBpsIsValid(b)

Spec == Init /\ [][Next]_vars

-----------------------------------------------------------------------------
(* Properties                                                              *)

Result(T) == [ok : {TRUE}, val : T] \cup [ok : {FALSE}, err : {"Overflow", "InvalidFeeSpec"}]

Outcome(T) == [panic : {FALSE}, val : T] \cup {Panicked}

TypeOK ==
    \/ call = [op |-> "none"]
    \/ /\ call.op = "eq"
       /\ call.out \in Outcome(BOOLEAN)
    \/ /\ call.op = "cmp"
       /\ call.out \in Outcome({"Less", "Equal", "Greater"})
    \/ /\ call.op \in {"apply", "pseudo_reverse"}
       /\ call.out \in Result(U64)
    \/ /\ call.op = "reverse"
       /\ call.out \in Result({U64ValueRange(lo, hi) : lo, hi \in U64})
       /\ call.out.ok => call.out.val.min <= call.out.val.max
    \/ /\ call.op = "fee_apply"
       /\ call.out \in Result([amt_after_fee : U64, fees_charged : U64])
    \/ /\ call.op = "is_valid"
       /\ call.out \in BOOLEAN

\* Reference order of two ratios with nonzero denominators: a is no greater
\* than b iff it applies to no more than b on every amount (x = da * db is
\* the amount where the two values meet exactly).
AppliesNoMore(a, b) ==
    \A x \in 0 .. (a.denom * b.denom) :
        (x * a.num) \div a.denom <= (x * b.num) \div b.denom

ValueOrder(a, b) ==
    CASE AppliesNoMore(a, b) /\ ~AppliesNoMore(b, a) -> "Less"
      [] AppliesNoMore(a, b) /\ AppliesNoMore(b, a)  -> "Equal"
      [] ~AppliesNoMore(a, b)                        -> "Greater"

\* PartialEq::eq and cmp_inner (two copies of the cross-multiplication) order
\* ratios with nonzero denominators by the value they apply, whatever their
\* representation: equal ratios apply alike, a Less ratio never applies more.
CmpIsValueOrder ==
    /\ call.op \in {"eq", "cmp"}
    /\ call.lhs.denom > 0 /\ call.rhs.denom > 0
    => call.out = Returned(IF call.op = "eq"
                           THEN ValueOrder(call.lhs, call.rhs) = "Equal"
                           ELSE ValueOrder(call.lhs, call.rhs))

\* The "panic on overflow, even if overflow checks off" of eq and cmp_inner
\* never fires for u64 operands: the widened products always fit in u128.
NoComparisonPanic ==
    call.op \in {"eq", "cmp"} => call.out # Panicked

\* The u64 amounts that apply (with the call's rounding) onto y.
Preimage(rnd, r, y) == {x \in U64 : RoundApply(rnd, r, x) = Ok(y)}

\* reverse is sound and tight (spec 4.2, 8): every amount that applies onto
\* y lies in reverse(y), and for a nonzero ratio the range holds nothing else.
ReverseIsExact ==
    call.op = "reverse" =>
        LET pre == Preimage(call.rounding, call.ratio, call.in)
            rng == {x \in U64 : call.out.ok /\ call.out.val.min <= x
                                            /\ x <= call.out.val.max}
        IN  /\ pre \subseteq rng
            /\ pre # {} => call.out.ok
            /\ call.ratio.num > 0 /\ call.ratio.denom > 0 /\ call.out.ok
               => rng = pre

\* U64FeeCeil::apply / U64BpsFeeCeil::apply with a valid spec split the amount
\* exactly (amt_after_fee + fees_charged = amount) and the fee is the exact
\* fee rounded up: the protocol is never short, the payer never pays a unit
\* more than rounding requires.
FeeSplitExactCeil ==
    /\ call.op = "fee_apply" /\ call.out.ok /\ call.fee.fee_denom > 0
    => LET s == call.out.val
           n == call.fee.fee_num
           d == call.fee.fee_denom
       IN  /\ s.amt_after_fee + s.fees_charged = call.in
           /\ s.fees_charged * d >= call.in * n
           /\ (s.fees_charged - 1) * d < call.in * n

\* U64BpsFeeCeil::is_valid and apply agree (spec 4.4, test valid_invalid):
\* apply of a bps fee fails exactly when is_valid says the fee is invalid.
BpsValidIffApplies ==
    /\ call.op = "fee_apply"
    /\ call.fee.fee_denom = BPS_DENOMINATOR
    => call.out.ok = is_valid(call.fee.fee_num)

\* pseudo_reverse returns "a possible amount that was fed into apply": for
\* every y some amount's apply leaves, apply(pseudo_reverse(y)) leaves y.
PseudoReverseRoundTrip ==
    /\ call.op = "pseudo_reverse"
    /\ \E x \in U64 : LET a == FeeCeilApply(call.fee, x)
                      IN  a.ok /\ a.val.amt_after_fee = call.in
    => /\ call.out.ok
       /\ FeeCeilApply(call.fee, call.out.val).val.amt_after_fee = call.in

-----------------------------------------------------------------------------
(* Properties the code does not have (violation runs)                      *)

\* The proptest `ord` (ratio.rs 143-168) passes on the draw of every
\* comparison of two ratios over a common denominator: equal parts compare equal, and {smaller, common} < {larger, common}
\* and {common, larger} < {common, smaller} under cmp_inner.
OrdTestExpectation ==
    call.op = "cmp" /\ call.lhs.denom = call.rhs.denom =>
        ord(call.lhs.denom, call.lhs.num, call.rhs.num)

\* Eq is an equivalence over the whole domain (spec 4.1): a ratio equal to
\* another is equal to everything the other is equal to.
EqTransitive ==
    call.op = "eq" /\ call.out = Returned(TRUE) =>
        \A c \in Ratios : eq(call.rhs, c) = Returned(TRUE) => eq(call.lhs, c) = Returned(TRUE)

\* The Hash/Eq contract a HashMap or HashSet key relies on: equal ratios hash
\* alike, even when both denominators are nonzero.
HashConsistentWithEq ==
    /\ call.op = "eq" /\ call.out = Returned(TRUE)
    /\ call.lhs.denom > 0 /\ call.rhs.denom > 0
    => Hash(call.lhs) = Hash(call.rhs)

=============================================================================
