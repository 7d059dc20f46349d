---------------------------- MODULE MCTokenRatio ----------------------------
(* Bounds for TokenRatioCalls: u64 is 0..7 (u128 is then 0..63), ratio and *)
(* fee parts 0..3 (zero num, zero denom, ratios below, at and above one),    *)
(* and the bps values at the edges of the valid range and of u16.           *)
EXTENDS TokenRatioCalls

MC_U64_MAX == 7
MC_RatioParts == 0 .. 3
MC_BpsValues == {0, 1, 2500, 5000, 9999, 10000, 10001, 65535}
=============================================================================
