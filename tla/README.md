# TLA+ models of sanctum-solana-utils

This directory holds TLA+ models of the Rust crates under `src/`, the TLC
configurations that check them, and `PROJECT.json`. `PROJECT.json` lists the
components, the runs, the mutants, the map from each definition to the source
lines it models, the findings, and the hazards.

## The system

The repository is a set of small libraries that Solana programs and their
tests use.

| Part | Source | What it does | State |
|---|---|---|---|
| token-ratio engine | `sanctum-token-ratio/src/u64_ratio/ratio.rs`, `u64_bps_fee_ceil.rs` | `U64Ratio` with exact comparison (cross-multiplication in u128). `FloorDiv`/`CeilDiv` rounding with `apply` and `reverse`. `U64FeeCeil` and `U64BpsFeeCeil` fees with `apply`, `is_valid` and `pseudo_reverse` | none (pure functions) |
| on-chain error mapping | `sanctum-token-ratio/src/err/onchain.rs` | every `MathError` becomes `ProgramError::Custom(696969)`. It also has logging | none |
| test utils | `sanctum-solana-test-utils/src/tx.rs`, `stake.rs` | return-data padding; extracting and asserting errors from a `BanksClientError`; stake-account fixtures added to a program-test genesis | the genesis map (fixtures); otherwise none |
| burn resolver | `libs/sanctum-token-lib/src/account_resolvers/burn.rs` | reads a token account and derives the `Burn`/`BurnChecked` keys | none; the model adds the token account the client holds |
| stake-pool interface | `generated/spl_stake_pool_interface/src/instructions.rs` | twelve SPL stake-pool instructions. For each: the client builder (`<x>_ix`), the data codec, the CPI wrappers (`<x>_invoke`, `<x>_invoke_signed`) and the on-chain checks (`<x>_verify_account_keys`, `_privileges`). Also the program-wide `SplStakePoolProgramIx` codec | none; the models add a client, a calling program and a program around it |

How the parts interact:

- The token-ratio engine fails with `MathError`.
- `onchain.rs` turns that error into a `ProgramError` that a program returns.
- The test utils unpack that error from a `BanksClientError` in tests.
- The stake-pool interface is what a client and a program share. The client builds an `Instruction`; the program decodes it and verifies its accounts.

None of this code is concurrent, and none of it persists anything. The hard
behaviours are of four kinds:

- numeric edges: overflow, zero denominators, rounding at the one-unit boundary, a length bound;
- several copies of one table that must agree: discriminators, AccountMeta flags, verify lists, and the CPI account arrays;
- what a hostile client or calling program can put into an instruction;
- errors that change shape on their way from a program to a test, where distinct failures collapse or a helper panics.

## Modules

| Module | Models | State | Actions |
|---|---|---|---|
| `TokenRatio` | `ratio.rs` and `u64_bps_fee_ceil.rs` with the proptest `ord` (as the verdict of one test case), and the `FloorDiv`/`CeilDiv`/`U64FeeCeil` impls (not in this tree; spec_modelled from spec sections 4.2-4.3) | operators only | none |
| `TokenRatioCalls` | a caller of the engine's public API | `call`: the last call and its result | one per API function (`CallEq`, `CallCmp`, `CallApply`, `CallReverse`, `CallFeeApply`, `CallBpsApply`, `CallFeePseudoReverse`, `CallBpsPseudoReverse`, `CallBpsIsValid`) |
| `MCTokenRatio` | bounds for TLC | | |
| `StakePoolIx` | `instructions.rs`: one `<X>IxData` record per instruction (its discriminator and whether it carries an argument struct), one `<X>Ix` record of its AccountMeta list, one `<X>Verify` record of its verify lists, one `<X>Arrays` record of its three array conversions and one `<X>KeyChecks` list of its `verify_account_keys` pairs, each as written in the code. It also has the enum codec (`Deserialize`, `Serialize`, `DeserializeArms`), the per-instruction codec (`IxDataDeserialize`, `IxDataSerialize`), the builder (`BuildIx`), the conversions (`KeysFromPubkeys`, `AccountsFromArray`, `AccountsArray`, `AccountsKeys`) and the checks (`VerifyAccountKeys`, `VerifyWritablePrivileges`, `VerifySignerPrivileges`, `VerifyAccountPrivileges`) | operators only | none |
| `StakePoolProgram` | a client and a program using the interface | `phase`, `sent` (instruction in flight), `outcome` (the program's verdict) | `SendHonest`, `SendHonestEnum`, `SendHonestFromPubkeys`, `SendSubstitutedKey`, `SendWithoutPrivileges`, `SendRawData`, `Process`, `Complete` |
| `MCStakePoolProgram` | bounds for TLC | | |
| `InstructionGate` | the abstract promise of a program using the interface: one request at a time is judged, and accepted exactly when it is genuine | `request` (`[op, genuine]`), `verdict` | `Submit`, `Judge`, `Retire` |
| `StakePoolCpi` | a calling program using the CPI wrappers: `From<XAccounts>` for `XKeys` (`AccountsKeys`) and for `[AccountInfo; N]` (`AccountsArray`), `<x>_invoke(_signed)` (`InvokeSigned`), and the runtime's `invoke_signed` rules (`RuntimeInvoke`, not in this repository) | `phase`, `call`, `outcome` | `CallerInvokes`, `CallerReturns` |
| `ErrorSurfacing` | `onchain.rs` (`ProgramErrorOfMath`) and every function of `tx.rs` but the padding: `extract_tx_err`, `extract_ix_err`, `extract_ix_err_code`, `assert_custom_err`, `assert_built_in_prog_err`, `assert_program_error`, `assert_transaction_error` | `phase`, `failure`, `reported` (the `BanksClientError`), `test` (helper, expected error, outcome) | `ProgramFails`, `ClientReports`, `TestAsserts` |
| `MCTestUtils` | `ErrorSurfacing` and `ReturnData` composed by `INSTANCE ... WITH` (each keeps its `phase` under its own name), with their bounds: each step is a step of one with the other's variables unchanged | both modules' | both modules' |
| `BurnResolver` | `burn.rs`: `initialized_token_account`, `resolve`, `resolve_checked` and both `TryFrom` impls. The verdicts of `try_into_valid` and `try_into_initialized` (defined outside this repository) are fields of the account; their errors are model values | `account` (the token account on chain), `call` (entry point, result) | `Resolve` (one per entry point) |
| `ReturnData` | `zero_padded_return_data::<N>` and the runtime's truncation of trailing zero bytes (`TrimTrailingZeros`, RECURSIVE) that its doc comment describes | `phase`, `data` (what the program returned), `received`, `result` | `ProgramReturns`, `ClientReceives`, `TestReads` |
| `StakeFixtures` | `stake.rs`: `into_account`, `add_stake_account`, `add_fresh_inactive_stake_account`, `add_live_stake_account` (over a `LiveStakeAccountParams`), `add_active_unlocked_stake_account` (with its `From` conversion, `LiveParamsOfActive`) | `build` (debug or release), `genesis` (address to account), `panicked` | one per builder |

Mapping choices:

- **Numbers.** u64 is scaled to `0..U64_MAX`. u128 is the square of that range, so "a product of two u64 fits in u128" keeps its meaning.
- **Results.** A `Result` is `Ok(v)`/`Err(e)`. A function that may panic returns `Returned(v)` or `Panicked`.
- **Accounts.** A pubkey is the name of the account slot it fills when it is the key the program expects, and the model value `Intruder` otherwise.
- **Account order.** The generated code writes each instruction's account order five times: the AccountMeta list, `From<[Pubkey; N]>` for `XKeys`, `From<XAccounts>` for `[AccountInfo; N]`, `From<&[AccountInfo; N]>` for `XAccounts`, and the loop of `verify_account_keys`. The model keeps each copy as written, and an `XAccounts` or `XKeys` is a function from field name to value. The program reads the first `N` AccountInfos with `From<&[AccountInfo; N]>` (`AccountsFromArray`). So the runs check that the copies agree instead of assuming it; a mutant that swaps two fields in one copy is caught.
- **Instruction arguments.** An argument struct is one byte: borsh either reads it or fails at end of input. Validity of bool and enum bytes inside it is abstracted away.
- **The program is not in this repository.** `ProcessInstruction` is the use of the interface: decode with `SplStakePoolProgramIx::deserialize`, refuse fewer accounts than the instruction's `N`, then `verify_account_keys` and `verify_account_privileges`. `StakePoolProgram` and `StakePoolCpi` both run it.
- **The runtime is not in this repository.** `RuntimeInvoke` states the rules of `invoke_signed`: each meta's key must be among the AccountInfos passed; a writable meta needs a writable AccountInfo; a signer meta needs a signing AccountInfo or a PDA signed by the seeds (a PDA is the key its seeds derive, so here the honest key of a slot the caller signs for). `ClientReports` is the banks client: `process_transaction`, `simulate_transaction`, or a transport failure. `ClientReceives` is the runtime's trimming of return data.
- **Errors.** A `ProgramError` is `Custom(code)` or a built-in kind. Runtime-only `InstructionError`s (`PrivilegeEscalation`) have no `ProgramError`, so the `TryFrom` that `assert_program_error` unwraps panics on them. Display strings are left out.
- **Builds.** `staked_lamports + rent_exempt_reserve` panics on overflow in a debug build and wraps modulo `U64_MAX + 1` in a release build. The build is chosen in `Init`.
- **Resets.** After a transaction ends (`Complete`, `CallerReturns`), the models forget the last instruction. That keeps one idle state, from which every next instruction is possible, instead of one per history.

Choices for the spec_modelled rounding code:

- `reverse` over an empty preimage is `Err(Overflow)`.
- A zero numerator or denominator reverses to the full range.
- `U64FeeCeil::apply` with `fee_denom == 0` is no fee (spec section 3): the whole amount remains.
- `pseudo_reverse` checks the fee is valid, then checks for a zero fee, then returns the lowest preimage.

## Runs

Passing runs:

| Run | Bounds | Properties | What it shows |
|---|---|---|---|
| `tokenratio_core` (`MCTokenRatio.cfg`) | `U64_MAX = 7`, ratio parts `0..3`, bps in {0, 1, 2500, 5000, 9999, 10000, 10001, 65535} | `TypeOK`, `CmpIsValueOrder`, `NoComparisonPanic`, `ReverseIsExact`, `FeeSplitExactCeil`, `BpsValidIffApplies`, `PseudoReverseRoundTrip` | Comparison is the order of the values the ratios apply. `reverse` returns exactly the preimage. The fee split is exact and the fee is the ceiling. `is_valid` agrees with `apply`. `pseudo_reverse` round-trips. The bps proptests `u64_fee_invariants`, `u64_zero_fee` and `valid_invalid` state what `FeeSplitExactCeil` and `BpsValidIffApplies` check for every modelled bps value. About 1.4k states. |
| `stakepool_ix` (`MCStakePoolProgram.cfg`) | all 12 instructions; args in {0, 1}; forged data up to 2 bytes over the 12 discriminators plus the unused 3; up to 2 withheld privileges; any one slot substituted | `TypeOK`, `HonestIxAccepted`, `DecodersAgree`, `ImplementsInstructionGate` | Honest instructions, built from the keys struct, from a `[Pubkey; N]` or with the enum encoder, are accepted as sent. No forged key or withheld flag is accepted. The two decoders agree on every byte string. The model refines `InstructionGate` under the mapping `request <- [op, genuine]`, where `op` is what the data decodes to and `genuine` says the delivered accounts carry that operation's keys and privileges. So even arbitrary bytes with another instruction's accounts are accepted exactly when genuine. About 5k states in 6 s. |
| `stakepool_cpi` (`MCStakePoolCpi.cfg`) | all 12 instructions; args in {0, 1}; any one slot substituted; up to 2 privileges missing; any set of signer slots signed as PDAs | `CpiWithHeldPrivilegesAccepted`, `CpiForgeryRejected` | A caller holding, or PDA-signing, every privilege reaches the stake pool with the instruction it meant. A wrong account or an unheld privilege is refused. An unheld privilege is refused by the runtime. A wrong account in an unprivileged slot is refused only by the callee's key check. About 4k states. |
| `testutils` (`MCTestUtils.cfg`) | custom codes {0, 6, 696969}; two built-in errors; one runtime-only error; one transaction-level error; one transport error; both math errors. `N = 2`; return data up to 3 bytes over {0, 7} | `ProgramErrorAssertExact`, `CustomAssertByCode`, `PaddedReturnDataRecovers`, `PanicsOnlyOnNonzeroExcess` | `assert_program_error` passes on the expected error and fails on another. It panics when no `ProgramError` reached the test. The custom-code helpers pass exactly on the expected code. A simulation's report counts as well as a processed transaction's. Trimming and then padding gives back what the program returned whenever it fits in `N`. The padding panics exactly when a nonzero byte lies past `N`; longer data with a zero tail is read without complaint. The two helper families interleave freely. About 133k states in 8 s. |
| `burn_resolver` (`MCBurnResolver.cfg`) | one token account address; three authorities; three mints; every combination of the two checks' verdicts | `ResolvedKeysNameInitializedAccount` | For each of the four entry points, keys come exactly from an account both checks accept, and name it, its authority and its mint. Otherwise the error is the first refusing check's. 180 states. |

The bounds reach every case the code distinguishes:

- products around u128 overflow;
- zero numerators and denominators, and non-reduced ratios;
- amounts where a division is inexact;
- the bps boundary 10_000/10_001;
- every discriminator, an unknown one, empty data, and data too short for the arguments;
- every account of every instruction, substituted or stripped of its privilege, with or without seeds;
- every `BanksClientError` shape and every error origin;
- return data shorter than, equal to, and longer than `N`, with zero and nonzero tails;
- stake sums below, at and past `u64::MAX`.

Violation runs, each checking one property (see "findings" in PROJECT.json):

| Run | Property | Counterexample |
|---|---|---|
| `tokenratio_ord_test` | `OrdTestExpectation`: the proptest `ord` (the operator `ord`) on every comparison over a common denominator | `0/0` vs `0/0`: the test expects strict order; the code says Equal |
| `tokenratio_eq_transitive` | `EqTransitive` | `1/0 == 0/0 == 1/1` but `1/0 != 1/1`: `0/0` equals every ratio, `1/0` only the ratios with a zero denominator |
| `tokenratio_hash_eq` | `HashConsistentWithEq` | `0/2 == 0/1` with different derived hashes |
| `stakefixtures_release` | `StakeAccountsBacked` | release build, `staked = 13`, reserve 3, `U64_MAX = 15`: the stake account holds 0 lamports |

Each property of a passing run has a mutant in PROJECT.json. The mutant is a
plausible bug in the mapped code, and TLC finds it.

No fairness is assumed and no liveness is checked. Every operation here is a
synchronous function call. That includes the CPI, which the runtime runs to
completion inside the caller's instruction. Nothing waits on anything else.
The only progress question is whether a call returns, and in the code every
call either returns or panics. The models state the panics as outcomes and
check them as safety properties. Progress across transactions, such as a
transaction being processed at all, belongs to the validator, not to this code.

## Not modelled, and why

1. **What the burn resolver's checks check.** `try_into_valid` and `try_into_initialized` and the token-account layout they read are in crates that are neither in this tree nor in the spec. `BurnResolver` models only their order and what the resolver does with their verdicts. The token program that later runs the `Burn` is not modelled either.
2. **Borsh validity inside argument structs.** Each argument struct is one opaque byte. A model that went further would have to enumerate every field type of twelve structs, and no property here depends on them.
3. **Logging.** `PrintProgramError`, `msg!`, `DecodeError::type_of` and the helpers' panic messages have no state.
4. **The runtime and the banks client.** They are modelled only by the rules the code relies on (see "Mapping choices"), not as components of their own.
