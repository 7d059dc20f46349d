---------------------------- MODULE StakeFixtures ----------------------------
(***************************************************************************)
(* The stake-account fixtures of sanctum-solana-test-utils/src/stake.rs: a *)
(* test adds stake accounts to a ProgramTest genesis through                *)
(* StakeProgramTest.  The account data (Meta, Stake, Delegation) is kept   *)
(* as a record of the fields the fixtures set; voter, credits_observed and *)
(* the authorities' keys are left out, since no fixture computes them.     *)
(*                                                                         *)
(* u64 is scaled to 0..U64_MAX.  `staked_lamports + rent_exempt_reserve`   *)
(* is unchecked Rust addition: a debug build panics on overflow, a release *)
(* build (overflow-checks off by default) wraps; the build is chosen in    *)
(* Init.                                                                   *)
(***************************************************************************)
EXTENDS Integers

CONSTANTS
    U64_MAX,             \* the largest u64 of the model
    RENT_EXEMPT_RESERVE, \* est_rent_exempt_lamports(StakeState::size_of())
    Addrs,               \* stake account addresses
    Amounts,             \* lamport amounts given to the fixtures
    Epochs,              \* activation/deactivation epochs given to the fixtures
    Builds               \* the builds considered: "debug", "release"

ASSUME /\ RENT_EXEMPT_RESERVE \in 0 .. U64_MAX
       /\ Amounts \subseteq 0 .. U64_MAX /\ Epochs \subseteq 0 .. U64_MAX
       /\ Builds \subseteq {"debug", "release"}

Lockups == {"default", "locked"}

Returned(v) == [panic |-> FALSE, val |-> v]
Panicked == [panic |-> TRUE]

\* u64 `a + b` in the build: a panic on overflow in debug, wrapped in release
AddU64(build, a, b) ==
    IF a + b <= U64_MAX THEN Returned(a + b)
    ELSE IF build = "release" THEN Returned((a + b) % (U64_MAX + 1)) ELSE Panicked

\* impl IntoAccount for StakeStateAndLamports: owned by the stake program,
\* lamports = total_lamports, rent_epoch = u64::MAX
into_account(stakeState, total) ==
    [owner |-> "stake_program", lamports |-> total, state |-> stakeState,
     executable |-> FALSE, rent_epoch |-> U64_MAX]

\* StakeState::Initialized(Meta { rent_exempt_reserve, authorized, lockup })
Initialized(lockup) ==
    [kind |-> "Initialized", rent_exempt_reserve |-> RENT_EXEMPT_RESERVE, lockup |-> lockup]

\* StakeState::Stake(Meta { .. }, Stake { delegation: Delegation { .. } })
StakeStake(lockup, stake, activation, deactivation) ==
    [kind |-> "Stake", rent_exempt_reserve |-> RENT_EXEMPT_RESERVE, lockup |-> lockup,
     stake |-> stake, activation_epoch |-> activation, deactivation_epoch |-> deactivation]

\* total_lamports of add_live_stake_account
LiveTotal(build, staked) == AddU64(build, staked, RENT_EXEMPT_RESERVE)

\* LiveStakeAccountParams (voter, authorized, credits_observed left out)
LiveStakeAccountParams(staked, activation, deactivation, lockup) ==
    [staked_lamports |-> staked, activation_epoch |-> activation,
     deactivation_epoch |-> deactivation, lockup |-> lockup]

\* ActiveOrActivatingUnlockedStakeAccount (voter, authorized, credits_observed left out)
ActiveOrActivatingUnlockedStakeAccount(staked, activation) ==
    [staked_lamports |-> staked, activation_epoch |-> activation]

\* From<ActiveOrActivatingUnlockedStakeAccount> for LiveStakeAccountParams:
\* never deactivating (deactivation_epoch = u64::MAX), default lockup
LiveParamsOfActive(p) ==
    LiveStakeAccountParams(p.staked_lamports, p.activation_epoch, U64_MAX, "default")

VARIABLES
    build,     \* the build the test runs in
    genesis,   \* address -> the account the ProgramTest will start with
    panicked   \* the test panicked while building its fixtures

vars == <<build, genesis, panicked>>

Init ==
    /\ build \in Builds
    /\ genesis = [a \in {} |-> 0]
    /\ panicked = FALSE

\* add_stake_account: add_keyed_account of into_account(); the later of two
\* accounts at one address is the one the genesis keeps
add_stake_account(addr, stakeState, total) ==
    genesis' = [a \in DOMAIN genesis \cup {addr} |->
                  IF a = addr THEN into_account(stakeState, total) ELSE genesis[a]]

add_fresh_inactive_stake_account(addr, total) ==
    /\ ~panicked
    /\ add_stake_account(addr, Initialized("default"), total)
    /\ UNCHANGED <<build, panicked>>

add_live_stake_account(addr, params) ==
    /\ ~panicked
    /\ LET total == LiveTotal(build, params.staked_lamports)
       IN  IF total.panic
           THEN panicked' = TRUE /\ UNCHANGED genesis
           ELSE /\ add_stake_account(addr,
                       StakeStake(params.lockup, params.staked_lamports,
                                  params.activation_epoch, params.deactivation_epoch),
                       total.val)
                /\ UNCHANGED panicked
    /\ UNCHANGED build

\* add_active_unlocked_stake_account: add_live_stake_account of params.into()
add_active_unlocked_stake_account(addr, params) ==
    add_live_stake_account(addr, LiveParamsOfActive(params))

Next ==
    \/ \E a \in Addrs, t \in Amounts : add_fresh_inactive_stake_account(a, t)
    \/ \E a \in Addrs, s \in Amounts, e1, e2 \in Epochs, l \in Lockups :
          add_live_stake_account(a, LiveStakeAccountParams(s, e1, e2, l))
    \/ \E a \in Addrs, s \in Amounts, e \in Epochs :
          add_active_unlocked_stake_account(a, ActiveOrActivatingUnlockedStakeAccount(s, e))

Spec == Init /\ [][Next]_vars

-----------------------------------------------------------------------------
(* Properties                                                              *)

\* Every delegated stake account in the genesis holds its rent-exempt
\* reserve and the stake it delegates (StakeStateAndLamports, line 15:
\* "staked amount ~ total_lamports - rent_exempt_reserve"): the stake program
\* would otherwise start the test with an account whose delegation its
\* lamports do not back.
StakeAccountsBacked ==
    \A a \in DOMAIN genesis :
        genesis[a].state.kind = "Stake" =>
            genesis[a].lamports = genesis[a].state.rent_exempt_reserve + genesis[a].state.stake

====
