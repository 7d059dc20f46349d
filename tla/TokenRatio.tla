----------------------------- MODULE TokenRatio -----------------------------
(***************************************************************************)
(* The sanctum-token-ratio engine: U64Ratio and its exact comparison       *)
(* (src/sanctum-token-ratio/src/u64_ratio/ratio.rs), the FloorDiv/CeilDiv  *)
(* rounding policies with apply and reverse, U64FeeCeil and U64BpsFeeCeil  *)
(* (src/sanctum-token-ratio/src/u64_bps_fee_ceil.rs).                      *)
(*                                                                         *)
(* Every operation is a pure function.  The state is the last call a      *)
(* caller made and its result; the properties compare that result with a   *)
(* reference definition of what the call promises.  u64 is scaled down to  *)
(* 0..U64_MAX and u128 to the square of its range, so that "the product of *)
(* two u64 values fits in u128" keeps its meaning.                          *)
(***************************************************************************)
EXTENDS Integers, FiniteSets

CONSTANTS
    U64_MAX,      \* the largest u64 value of the model
    RatioParts,   \* values given to num/denom of U64Ratio and fee_num/fee_denom of U64FeeCeil
    BpsValues     \* u16 values given to U64BpsFeeCeil

U64 == 0 .. U64_MAX
U128_MAX == (U64_MAX + 1) * (U64_MAX + 1) - 1
U16_MAX == 65535

ASSUME /\ U64_MAX \in Nat \ {0}
       /\ RatioParts \subseteq U64
       /\ BpsValues \subseteq 0 .. U16_MAX

\* crate::BPS_DENOMINATOR, the implicit denominator of a basis-point fee
BPS_DENOMINATOR == 10000

\* Result<T, MathError>
Ok(v) == [ok |-> TRUE, val |-> v]
Err(e) == [ok |-> FALSE, err |-> e]

\* a call that returns v, and one that panics
Returned(v) == [panic |-> FALSE, val |-> v]
Panicked == [panic |-> TRUE]

U64Ratio(n, d) == [num |-> n, denom |-> d]
Ratios == {U64Ratio(n, d) : n, d \in RatioParts}

-----------------------------------------------------------------------------
(* ratio.rs: comparison by cross-multiplication in u128                    *)

\* Variant: the operands widened to u64 instead of u128.
MulOverflowsU64(a, b) == a * b > U64_MAX

\* u128::checked_mul(..).unwrap() panics when the product does not fit
MulOverflows(a, b) == a * b > U128_MAX

\* impl PartialEq for U64Ratio: ln * rd == rn * ld, a panic on overflow
eq(l, r) ==
    IF MulOverflows(l.num, r.denom) \/ MulOverflows(r.num, l.denom)
    THEN Panicked
    ELSE Returned(l.num * r.denom = r.num * l.denom)

\* Variant: each numerator multiplied by its own denominator.
cmp_inner_own_denom(l, r) ==
    IF MulOverflows(l.num, l.denom) \/ MulOverflows(r.num, r.denom)
    THEN Panicked
    ELSE LET lhs == l.num * l.denom
             rhs == r.num * r.denom
         IN  Returned(CASE lhs < rhs -> "Less"
                        [] lhs = rhs -> "Equal"
                        [] lhs > rhs -> "Greater")

\* cmp_inner, used by both PartialOrd::partial_cmp and Ord::cmp
cmp_inner(l, r) ==
    IF MulOverflows(l.num, r.denom) \/ MulOverflows(r.num, l.denom)
    THEN Panicked
    ELSE LET lhs == l.num * r.denom
             rhs == r.num * l.denom
         IN  Returned(CASE lhs < rhs -> "Less"
                        [] lhs = rhs -> "Equal"
                        [] lhs > rhs -> "Greater")

\* #[derive(Hash)] on U64Ratio feeds num then denom to the hasher
Hash(r) == <<r.num, r.denom>>

-----------------------------------------------------------------------------
(* ReversibleRatio for FloorDiv<U64Ratio> and CeilDiv<U64Ratio>            *)
(* (the impls are not in this source tree; modelled from spec 4.2)         *)

\* floor(amount * num / denom) in u128; a zero denom applies to 0
FloorDivApply(r, amt) ==
    IF r.denom = 0 THEN Ok(0)
    ELSE LET q == (amt * r.num) \div r.denom
         IN  IF q > U64_MAX THEN Err("Overflow") ELSE Ok(q)

\* ceil(amount * num / denom) in u128; a zero denom applies to 0
CeilDivApply(r, amt) ==
    IF r.denom = 0 THEN Ok(0)
    ELSE LET q == (amt * r.num + r.denom - 1) \div r.denom
         IN  IF q > U64_MAX THEN Err("Overflow") ELSE Ok(q)

U64ValueRange(lo, hi) == [min |-> lo, max |-> hi]

\* The interval of u64 amounts between two wide bounds; an empty one is an
\* error since a returned range always has min <= max.
RangeWithin(lo, hi) ==
    LET top == IF hi > U64_MAX THEN U64_MAX ELSE hi
    IN  IF lo > top THEN Err("Overflow") ELSE Ok(U64ValueRange(lo, top))

\* Variant: the upper bound taken as floor((y+1)*d/n), one too far.
FloorDivReverseInclusive(r, y) ==
    IF r.num = 0 \/ r.denom = 0 THEN Ok(U64ValueRange(0, U64_MAX))
    ELSE RangeWithin((y * r.denom + r.num - 1) \div r.num,
                     ((y + 1) * r.denom) \div r.num)

\* floor(x*n/d) = y  <=>  ceil(y*d/n) <= x <= floor(((y+1)*d - 1)/n)
FloorDivReverse(r, y) ==
    IF r.num = 0 \/ r.denom = 0 THEN Ok(U64ValueRange(0, U64_MAX))
    ELSE RangeWithin((y * r.denom + r.num - 1) \div r.num,
                     ((y + 1) * r.denom - 1) \div r.num)

\* ceil(x*n/d) = y  <=>  floor((y-1)*d/n) + 1 <= x <= floor(y*d/n)
CeilDivReverse(r, y) ==
    IF r.num = 0 \/ r.denom = 0 THEN Ok(U64ValueRange(0, U64_MAX))
    ELSE IF y = 0 THEN Ok(U64ValueRange(0, 0))
    ELSE RangeWithin(((y - 1) * r.denom) \div r.num + 1,
                     (y * r.denom) \div r.num)

RoundApply(rnd, r, amt) ==
    IF rnd = "floor" THEN FloorDivApply(r, amt) ELSE CeilDivApply(r, amt)

RoundReverse(rnd, r, y) ==
    IF rnd = "floor" THEN FloorDivReverse(r, y) ELSE CeilDivReverse(r, y)

-----------------------------------------------------------------------------
(* U64FeeCeil (not in this source tree; modelled from spec 4.3) and        *)
(* U64BpsFeeCeil (u64_bps_fee_ceil.rs)                                      *)

U64FeeCeil(n, d) == [fee_num |-> n, fee_denom |-> d]
FeeSpecs == {U64FeeCeil(n, d) : n, d \in RatioParts}

AmtsAfterFee(after, fees) == [amt_after_fee |-> after, fees_charged |-> fees]

\* the remainder ratio (fee_denom - fee_num) / fee_denom, applied rounding down
OneMinusFeeFloor(f) == U64Ratio(f.fee_denom - f.fee_num, f.fee_denom)

\* Variant: no check that fee_num <= fee_denom.
FeeCeilApplyUnchecked(f, amt) ==
    IF f.fee_denom = 0 THEN Ok(AmtsAfterFee(amt, 0))
    ELSE LET a == FloorDivApply(OneMinusFeeFloor(f), amt)
         IN  IF a.ok THEN Ok(AmtsAfterFee(a.val, amt - a.val)) ELSE a

\* Variant: the remainder rounded up, so the fee rounds down.
FeeCeilApplyCeilRemainder(f, amt) ==
    IF f.fee_num > f.fee_denom THEN Err("InvalidFeeSpec")
    ELSE IF f.fee_denom = 0 THEN Ok(AmtsAfterFee(amt, 0))
    ELSE LET a == CeilDivApply(OneMinusFeeFloor(f), amt)
         IN  IF a.ok THEN Ok(AmtsAfterFee(a.val, amt - a.val)) ELSE a

\* U64FeeCeil::apply: the remainder rounds down, the fee is what is left;
\* a zero fee_denom is no fee (spec section 3)
FeeCeilApply(f, amt) ==
    IF f.fee_num > f.fee_denom THEN Err("InvalidFeeSpec")
    ELSE IF f.fee_denom = 0 THEN Ok(AmtsAfterFee(amt, 0))
    ELSE LET a == FloorDivApply(OneMinusFeeFloor(f), amt)
         IN  IF a.ok THEN Ok(AmtsAfterFee(a.val, amt - a.val)) ELSE a

\* Variant: the amount after fee plus the fee it would itself be charged.
FeeCeilPseudoReverseAddFee(f, y) ==
    IF f.fee_num > f.fee_denom THEN Err("InvalidFeeSpec")
    ELSE IF f.fee_num = 0 \/ f.fee_denom = 0 THEN Ok(y)
    ELSE LET fee == CeilDivApply(U64Ratio(f.fee_num, f.fee_denom), y)
         IN  IF fee.ok THEN Ok(y + fee.val) ELSE fee

\* U64FeeCeil::pseudo_reverse: the least amount the remainder maps onto y
FeeCeilPseudoReverse(f, y) ==
    IF f.fee_num > f.fee_denom THEN Err("InvalidFeeSpec")
    ELSE IF f.fee_num = 0 \/ f.fee_denom = 0 THEN Ok(y)
    ELSE LET r == FloorDivReverse(OneMinusFeeFloor(f), y)
         IN  IF r.ok THEN Ok(r.val.min) ELSE r

\* U64BpsFeeCeil::as_u64_fee_ceil: the bps over BPS_DENOMINATOR
as_u64_fee_ceil(bps) == U64FeeCeil(bps, BPS_DENOMINATOR)

\* U64BpsFeeCeil::apply
BpsApply(bps, amt) == FeeCeilApply(as_u64_fee_ceil(bps), amt)

\* Variant: a 100% fee (10_000 bps) rejected.
is_valid_strict(bps) == bps < BPS_DENOMINATOR

is_valid(bps) == bps <= BPS_DENOMINATOR

BpsPseudoReverse(bps, y) == FeeCeilPseudoReverse(as_u64_fee_ceil(bps), y)

-----------------------------------------------------------------------------
(* The proptest of ratio.rs as the verdict of one test case: TRUE when     *)
(* every prop_assert holds and nothing panics.                             *)

\* prop_assert!(s < l): PartialOrd::lt through partial_cmp, i.e. cmp_inner
RatioLt(s, l) == cmp_inner(s, l) = Returned("Less")

\* proptest `ord` (ratio.rs): equal numerators (or denominators) over a
\* common denominator (or numerator) compare equal, and otherwise the
\* smaller one is less
ord(common, a, b) ==
    LET smaller == IF a < b THEN a ELSE b
        larger == IF a < b THEN b ELSE a
    IN  /\ a = b => /\ eq(U64Ratio(a, common), U64Ratio(b, common)) = Returned(TRUE)
                    /\ eq(U64Ratio(common, a), U64Ratio(common, b)) = Returned(TRUE)
        /\ RatioLt(U64Ratio(smaller, common), U64Ratio(larger, common))
        /\ RatioLt(U64Ratio(common, larger), U64Ratio(common, smaller))

=============================================================================
