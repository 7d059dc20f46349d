---------------------------- MODULE StakePoolIx ----------------------------
(***************************************************************************)
(* The generated SPL stake-pool instruction interface                      *)
(* (src/generated/spl_stake_pool_interface/src/instructions.rs): for each  *)
(* of its twelve instructions the discriminator, the argument encoding,    *)
(* the AccountMeta list the client builder emits, and the on-chain checks  *)
(* verify_account_keys / verify_writable_privileges /                       *)
(* verify_signer_privileges / verify_account_privileges; and the program-  *)
(* wide SplStakePoolProgramIx enum with its deserialize and serialize.     *)
(*                                                                         *)
(* Pubkeys are abstracted to the name of the account slot they fill (the   *)
(* key the program expects in that slot) or the model value Intruder.  An  *)
(* instruction's argument struct is abstracted to one byte of ArgBytes: a  *)
(* borsh struct either reads its bytes or fails at end of input.           *)
(***************************************************************************)
EXTENDS Integers, Sequences, FiniteSets, TLC

CONSTANTS
    Intruder,    \* a pubkey other than the one the program expects
    ArgBytes     \* the encodings of an argument struct, one byte each

Ok(v) == [ok |-> TRUE, val |-> v]
Err(e) == [ok |-> FALSE, err |-> e]

\* one element of the generated [AccountMeta; N]
M(slot, signer, writable) ==
    [slot |-> slot, is_signer |-> signer, is_writable |-> writable]

-----------------------------------------------------------------------------
(* Per-instruction tables.  The generated code writes each instruction's  *)
(* account order out five times: the AccountMeta list (<X>Ix), the three  *)
(* array conversions From<[Pubkey; N]> for XKeys, From<XAccounts> for     *)
(* [AccountInfo; N] and From<&[AccountInfo; N]> for XAccounts (<X>Arrays), *)
(* and the loop of <x>_verify_account_keys (<X>KeyChecks).  Each copy is  *)
(* kept as written, so that the runs check that they agree.               *)

\* INITIALIZE_IX_DISCM and whether InitializeIxData carries an InitializeIxArgs struct
InitializeIxData == [discm |-> 0, args |-> TRUE]

\* INITIALIZE: the AccountMeta list of From<InitializeKeys> for [AccountMeta; N]
InitializeIx ==
    [discm |-> InitializeIxData.discm, args |-> InitializeIxData.args,
     metas |-> <<M("stake_pool", FALSE, TRUE),
        M("manager", TRUE, FALSE),
        M("staker", FALSE, FALSE),
        M("withdraw_authority", FALSE, FALSE),
        M("validator_list", FALSE, TRUE),
        M("reserve_stake", FALSE, FALSE),
        M("pool_token_mint", FALSE, FALSE),
        M("manager_fee_account", FALSE, FALSE),
        M("token_program", FALSE, FALSE)>>]

InitializeVerify ==
    [writable |-> <<"stake_pool", "validator_list">>,
     signer |-> <<"manager">>]

\* INITIALIZE: the field each position of its three array conversions holds
InitializeArrays ==
    [from_pubkeys |-> <<"stake_pool", "manager", "staker",
                         "withdraw_authority", "validator_list",
                         "reserve_stake", "pool_token_mint",
                         "manager_fee_account", "token_program">>,
     to_infos |-> <<"stake_pool", "manager", "staker", "withdraw_authority",
                     "validator_list", "reserve_stake", "pool_token_mint",
                     "manager_fee_account", "token_program">>,
     from_infos |-> <<"stake_pool", "manager", "staker",
                       "withdraw_authority", "validator_list",
                       "reserve_stake", "pool_token_mint",
                       "manager_fee_account", "token_program">>]

\* initialize_verify_account_keys: its (actual, expected) pairs in loop order
InitializeKeyChecks ==
    <<<<"stake_pool", "stake_pool">>, <<"manager", "manager">>,
      <<"staker", "staker">>, <<"withdraw_authority", "withdraw_authority">>,
      <<"validator_list", "validator_list">>,
      <<"reserve_stake", "reserve_stake">>,
      <<"pool_token_mint", "pool_token_mint">>,
      <<"manager_fee_account", "manager_fee_account">>,
      <<"token_program", "token_program">>>>

\* ADD_VALIDATOR_TO_POOL_IX_DISCM and whether AddValidatorToPoolIxData carries an AddValidatorToPoolIxArgs struct
AddValidatorToPoolIxData == [discm |-> 1, args |-> TRUE]

\* ADD_VALIDATOR_TO_POOL: the AccountMeta list of From<AddValidatorToPoolKeys> for [AccountMeta; N]
AddValidatorToPoolIx ==
    [discm |-> AddValidatorToPoolIxData.discm, args |-> AddValidatorToPoolIxData.args,
     metas |-> <<M("stake_pool", FALSE, TRUE),
        M("staker", TRUE, FALSE),
        M("reserve_stake", FALSE, TRUE),
        M("withdraw_authority", FALSE, FALSE),
        M("validator_list", FALSE, TRUE),
        M("stake_account", FALSE, TRUE),
        M("validator", FALSE, FALSE),
        M("rent", FALSE, FALSE),
        M("clock", FALSE, FALSE),
        M("stake_history", FALSE, FALSE),
        M("stake_config", FALSE, FALSE),
        M("system_program", FALSE, FALSE),
        M("stake_program", FALSE, FALSE)>>]

AddValidatorToPoolVerify ==
    [writable |-> <<"stake_pool", "reserve_stake", "validator_list", "stake_account">>,
     signer |-> <<"staker">>]

\* ADD_VALIDATOR_TO_POOL: the field each position of its three array conversions holds
AddValidatorToPoolArrays ==
    [from_pubkeys |-> <<"stake_pool", "staker", "reserve_stake",
                         "withdraw_authority", "validator_list",
                         "stake_account", "validator", "rent", "clock",
                         "stake_history", "stake_config", "system_program",
                         "stake_program">>,
     to_infos |-> <<"stake_pool", "staker", "reserve_stake",
                     "withdraw_authority", "validator_list", "stake_account",
                     "validator", "rent", "clock", "stake_history",
                     "stake_config", "system_program", "stake_program">>,
     from_infos |-> <<"stake_pool", "staker", "reserve_stake",
                       "withdraw_authority", "validator_list",
                       "stake_account", "validator", "rent", "clock",
                       "stake_history", "stake_config", "system_program",
                       "stake_program">>]

\* add_validator_to_pool_verify_account_keys: its (actual, expected) pairs in loop order
AddValidatorToPoolKeyChecks ==
    <<<<"stake_pool", "stake_pool">>, <<"staker", "staker">>,
      <<"reserve_stake", "reserve_stake">>,
      <<"withdraw_authority", "withdraw_authority">>,
      <<"validator_list", "validator_list">>,
      <<"stake_account", "stake_account">>, <<"validator", "validator">>,
      <<"rent", "rent">>, <<"clock", "clock">>,
      <<"stake_history", "stake_history">>,
      <<"stake_config", "stake_config">>,
      <<"system_program", "system_program">>,
      <<"stake_program", "stake_program">>>>

\* REMOVE_VALIDATOR_FROM_POOL_IX_DISCM and whether RemoveValidatorFromPoolIxData carries an RemoveValidatorFromPoolIxArgs struct
RemoveValidatorFromPoolIxData == [discm |-> 2, args |-> FALSE]

\* REMOVE_VALIDATOR_FROM_POOL: the AccountMeta list of From<RemoveValidatorFromPoolKeys> for [AccountMeta; N]
RemoveValidatorFromPoolIx ==
    [discm |-> RemoveValidatorFromPoolIxData.discm, args |-> RemoveValidatorFromPoolIxData.args,
     metas |-> <<M("stake_pool", FALSE, TRUE),
        M("staker", TRUE, FALSE),
        M("withdraw_authority", FALSE, FALSE),
        M("validator_list", FALSE, TRUE),
        M("stake_account", FALSE, TRUE),
        M("transient_stake_account", FALSE, TRUE),
        M("clock", FALSE, FALSE),
        M("stake_program", FALSE, FALSE)>>]

RemoveValidatorFromPoolVerify ==
    [writable |-> <<"stake_pool", "validator_list", "stake_account", "transient_stake_account">>,
     signer |-> <<"staker">>]

\* REMOVE_VALIDATOR_FROM_POOL: the field each position of its three array conversions holds
RemoveValidatorFromPoolArrays ==
    [from_pubkeys |-> <<"stake_pool", "staker", "withdraw_authority",
                         "validator_list", "stake_account",
                         "transient_stake_account", "clock", "stake_program">>,
     to_infos |-> <<"stake_pool", "staker", "withdraw_authority",
                     "validator_list", "stake_account",
                     "transient_stake_account", "clock", "stake_program">>,
     from_infos |-> <<"stake_pool", "staker", "withdraw_authority",
                       "validator_list", "stake_account",
                       "transient_stake_account", "clock", "stake_program">>]

\* remove_validator_from_pool_verify_account_keys: its (actual, expected) pairs in loop order
RemoveValidatorFromPoolKeyChecks ==
    <<<<"stake_pool", "stake_pool">>, <<"staker", "staker">>,
      <<"withdraw_authority", "withdraw_authority">>,
      <<"validator_list", "validator_list">>,
      <<"stake_account", "stake_account">>,
      <<"transient_stake_account", "transient_stake_account">>,
      <<"clock", "clock">>, <<"stake_program", "stake_program">>>>

\* UPDATE_VALIDATOR_LIST_BALANCE_IX_DISCM and whether UpdateValidatorListBalanceIxData carries an UpdateValidatorListBalanceIxArgs struct
UpdateValidatorListBalanceIxData == [discm |-> 6, args |-> TRUE]

\* UPDATE_VALIDATOR_LIST_BALANCE: the AccountMeta list of From<UpdateValidatorListBalanceKeys> for [AccountMeta; N]
UpdateValidatorListBalanceIx ==
    [discm |-> UpdateValidatorListBalanceIxData.discm, args |-> UpdateValidatorListBalanceIxData.args,
     metas |-> <<M("stake_pool", FALSE, FALSE),
        M("withdraw_authority", FALSE, FALSE),
        M("validator_list", FALSE, TRUE),
        M("reserve_stake", FALSE, TRUE),
        M("clock", FALSE, FALSE),
        M("stake_history", FALSE, FALSE),
        M("stake_program", FALSE, FALSE)>>]

UpdateValidatorListBalanceVerify ==
    [writable |-> <<"validator_list", "reserve_stake">>,
     signer |-> <<>>]

\* UPDATE_VALIDATOR_LIST_BALANCE: the field each position of its three array conversions holds
UpdateValidatorListBalanceArrays ==
    [from_pubkeys |-> <<"stake_pool", "withdraw_authority",
                         "validator_list", "reserve_stake", "clock",
                         "stake_history", "stake_program">>,
     to_infos |-> <<"stake_pool", "withdraw_authority", "validator_list",
                     "reserve_stake", "clock", "stake_history",
                     "stake_program">>,
     from_infos |-> <<"stake_pool", "withdraw_authority", "validator_list",
                       "reserve_stake", "clock", "stake_history",
                       "stake_program">>]

\* update_validator_list_balance_verify_account_keys: its (actual, expected) pairs in loop order
UpdateValidatorListBalanceKeyChecks ==
    <<<<"stake_pool", "stake_pool">>,
      <<"withdraw_authority", "withdraw_authority">>,
      <<"validator_list", "validator_list">>,
      <<"reserve_stake", "reserve_stake">>, <<"clock", "clock">>,
      <<"stake_history", "stake_history">>,
      <<"stake_program", "stake_program">>>>

\* UPDATE_STAKE_POOL_BALANCE_IX_DISCM and whether UpdateStakePoolBalanceIxData carries an UpdateStakePoolBalanceIxArgs struct
UpdateStakePoolBalanceIxData == [discm |-> 7, args |-> FALSE]

\* UPDATE_STAKE_POOL_BALANCE: the AccountMeta list of From<UpdateStakePoolBalanceKeys> for [AccountMeta; N]
UpdateStakePoolBalanceIx ==
    [discm |-> UpdateStakePoolBalanceIxData.discm, args |-> UpdateStakePoolBalanceIxData.args,
     metas |-> <<M("stake_pool", FALSE, TRUE),
        M("withdraw_authority", FALSE, FALSE),
        M("validator_list", FALSE, TRUE),
        M("reserve_stake", FALSE, FALSE),
        M("manager_fee_account", FALSE, TRUE),
        M("pool_mint", FALSE, TRUE),
        M("token_program", FALSE, FALSE)>>]

UpdateStakePoolBalanceVerify ==
    [writable |-> <<"stake_pool", "validator_list", "manager_fee_account", "pool_mint">>,
     signer |-> <<>>]

\* UPDATE_STAKE_POOL_BALANCE: the field each position of its three array conversions holds
UpdateStakePoolBalanceArrays ==
    [from_pubkeys |-> <<"stake_pool", "withdraw_authority",
                         "validator_list", "reserve_stake",
                         "manager_fee_account", "pool_mint", "token_program">>,
     to_infos |-> <<"stake_pool", "withdraw_authority", "validator_list",
                     "reserve_stake", "manager_fee_account", "pool_mint",
                     "token_program">>,
     from_infos |-> <<"stake_pool", "withdraw_authority", "validator_list",
                       "reserve_stake", "manager_fee_account", "pool_mint",
                       "token_program">>]

\* update_stake_pool_balance_verify_account_keys: its (actual, expected) pairs in loop order
UpdateStakePoolBalanceKeyChecks ==
    <<<<"stake_pool", "stake_pool">>,
      <<"withdraw_authority", "withdraw_authority">>,
      <<"validator_list", "validator_list">>,
      <<"reserve_stake", "reserve_stake">>,
      <<"manager_fee_account", "manager_fee_account">>,
      <<"pool_mint", "pool_mint">>, <<"token_program", "token_program">>>>

\* CLEANUP_REMOVED_VALIDATOR_ENTRIES_IX_DISCM and whether CleanupRemovedValidatorEntriesIxData carries an CleanupRemovedValidatorEntriesIxArgs struct
CleanupRemovedValidatorEntriesIxData == [discm |-> 8, args |-> FALSE]

\* CLEANUP_REMOVED_VALIDATOR_ENTRIES: the AccountMeta list of From<CleanupRemovedValidatorEntriesKeys> for [AccountMeta; N]
CleanupRemovedValidatorEntriesIx ==
    [discm |-> CleanupRemovedValidatorEntriesIxData.discm, args |-> CleanupRemovedValidatorEntriesIxData.args,
     metas |-> <<M("stake_pool", FALSE, FALSE),
        M("validator_list", FALSE, TRUE)>>]

CleanupRemovedValidatorEntriesVerify ==
    [writable |-> <<"validator_list">>,
     signer |-> <<>>]

\* CLEANUP_REMOVED_VALIDATOR_ENTRIES: the field each position of its three array conversions holds
CleanupRemovedValidatorEntriesArrays ==
    [from_pubkeys |-> <<"stake_pool", "validator_list">>,
     to_infos |-> <<"stake_pool", "validator_list">>,
     from_infos |-> <<"stake_pool", "validator_list">>]

\* cleanup_removed_validator_entries_verify_account_keys: its (actual, expected) pairs in loop order
CleanupRemovedValidatorEntriesKeyChecks ==
    <<<<"stake_pool", "stake_pool">>, <<"validator_list", "validator_list">>>>

\* SET_MANAGER_IX_DISCM and whether SetManagerIxData carries an SetManagerIxArgs struct
SetManagerIxData == [discm |-> 11, args |-> FALSE]

\* SET_MANAGER: the AccountMeta list of From<SetManagerKeys> for [AccountMeta; N]
SetManagerIx ==
    [discm |-> SetManagerIxData.discm, args |-> SetManagerIxData.args,
     metas |-> <<M("stake_pool", FALSE, TRUE),
        M("manager", TRUE, FALSE),
        M("new_manager", TRUE, FALSE),
        M("new_manager_fee_account", FALSE, FALSE)>>]

\* Variant: the new manager's fee account required to sign as well.
SetManagerVerifyFeeAccountSigner ==
    [writable |-> <<"stake_pool">>,
     signer |-> <<"manager", "new_manager", "new_manager_fee_account">>]

SetManagerVerify ==
    [writable |-> <<"stake_pool">>,
     signer |-> <<"manager", "new_manager">>]

\* Variant: From<&[AccountInfo; N]> reads manager and new_manager swapped.
SetManagerArraysSwapped ==
    [from_pubkeys |-> <<"stake_pool", "manager", "new_manager",
                         "new_manager_fee_account">>,
     to_infos |-> <<"stake_pool", "manager", "new_manager",
                     "new_manager_fee_account">>,
     from_infos |-> <<"stake_pool", "new_manager", "manager",
                       "new_manager_fee_account">>]

\* SET_MANAGER: the field each position of its three array conversions holds
SetManagerArrays ==
    [from_pubkeys |-> <<"stake_pool", "manager", "new_manager",
                         "new_manager_fee_account">>,
     to_infos |-> <<"stake_pool", "manager", "new_manager",
                     "new_manager_fee_account">>,
     from_infos |-> <<"stake_pool", "manager", "new_manager",
                       "new_manager_fee_account">>]

\* set_manager_verify_account_keys: its (actual, expected) pairs in loop order
SetManagerKeyChecks ==
    <<<<"stake_pool", "stake_pool">>, <<"manager", "manager">>,
      <<"new_manager", "new_manager">>,
      <<"new_manager_fee_account", "new_manager_fee_account">>>>

\* SET_FEE_IX_DISCM and whether SetFeeIxData carries an SetFeeIxArgs struct
SetFeeIxData == [discm |-> 12, args |-> TRUE]

\* SET_FEE: the AccountMeta list of From<SetFeeKeys> for [AccountMeta; N]
SetFeeIx ==
    [discm |-> SetFeeIxData.discm, args |-> SetFeeIxData.args,
     metas |-> <<M("stake_pool", FALSE, TRUE),
        M("manager", TRUE, FALSE)>>]

SetFeeVerify ==
    [writable |-> <<"stake_pool">>,
     signer |-> <<"manager">>]

\* SET_FEE: the field each position of its three array conversions holds
SetFeeArrays ==
    [from_pubkeys |-> <<"stake_pool", "manager">>,
     to_infos |-> <<"stake_pool", "manager">>,
     from_infos |-> <<"stake_pool", "manager">>]

\* set_fee_verify_account_keys: its (actual, expected) pairs in loop order
SetFeeKeyChecks ==
    <<<<"stake_pool", "stake_pool">>, <<"manager", "manager">>>>

\* SET_STAKER_IX_DISCM and whether SetStakerIxData carries an SetStakerIxArgs struct
SetStakerIxData == [discm |-> 13, args |-> FALSE]

\* SET_STAKER: the AccountMeta list of From<SetStakerKeys> for [AccountMeta; N]
SetStakerIx ==
    [discm |-> SetStakerIxData.discm, args |-> SetStakerIxData.args,
     metas |-> <<M("stake_pool", FALSE, TRUE),
        M("signer", TRUE, FALSE),
        M("new_staker", FALSE, FALSE)>>]

SetStakerVerify ==
    [writable |-> <<"stake_pool">>,
     signer |-> <<"signer">>]

\* SET_STAKER: the field each position of its three array conversions holds
SetStakerArrays ==
    [from_pubkeys |-> <<"stake_pool", "signer", "new_staker">>,
     to_infos |-> <<"stake_pool", "signer", "new_staker">>,
     from_infos |-> <<"stake_pool", "signer", "new_staker">>]

\* set_staker_verify_account_keys: its (actual, expected) pairs in loop order
SetStakerKeyChecks ==
    <<<<"stake_pool", "stake_pool">>, <<"signer", "signer">>,
      <<"new_staker", "new_staker">>>>

\* SET_FUNDING_AUTHORITY_IX_DISCM and whether SetFundingAuthorityIxData carries an SetFundingAuthorityIxArgs struct
SetFundingAuthorityIxData == [discm |-> 15, args |-> FALSE]

\* SET_FUNDING_AUTHORITY: the AccountMeta list of From<SetFundingAuthorityKeys> for [AccountMeta; N]
SetFundingAuthorityIx ==
    [discm |-> SetFundingAuthorityIxData.discm, args |-> SetFundingAuthorityIxData.args,
     metas |-> <<M("stake_pool", FALSE, TRUE),
        M("manager", TRUE, FALSE),
        M("new_funding_authority", FALSE, FALSE)>>]

SetFundingAuthorityVerify ==
    [writable |-> <<"stake_pool">>,
     signer |-> <<"manager">>]

\* SET_FUNDING_AUTHORITY: the field each position of its three array conversions holds
SetFundingAuthorityArrays ==
    [from_pubkeys |-> <<"stake_pool", "manager", "new_funding_authority">>,
     to_infos |-> <<"stake_pool", "manager", "new_funding_authority">>,
     from_infos |-> <<"stake_pool", "manager", "new_funding_authority">>]

\* set_funding_authority_verify_account_keys: its (actual, expected) pairs in loop order
SetFundingAuthorityKeyChecks ==
    <<<<"stake_pool", "stake_pool">>, <<"manager", "manager">>,
      <<"new_funding_authority", "new_funding_authority">>>>

\* INCREASE_ADDITIONAL_VALIDATOR_STAKE_IX_DISCM and whether IncreaseAdditionalValidatorStakeIxData carries an IncreaseAdditionalValidatorStakeIxArgs struct
IncreaseAdditionalValidatorStakeIxData == [discm |-> 19, args |-> TRUE]

\* INCREASE_ADDITIONAL_VALIDATOR_STAKE: the AccountMeta list of From<IncreaseAdditionalValidatorStakeKeys> for [AccountMeta; N]
IncreaseAdditionalValidatorStakeIx ==
    [discm |-> IncreaseAdditionalValidatorStakeIxData.discm, args |-> IncreaseAdditionalValidatorStakeIxData.args,
     metas |-> <<M("stake_pool", FALSE, FALSE),
        M("staker", TRUE, FALSE),
        M("withdraw_authority", FALSE, FALSE),
        M("validator_list", FALSE, TRUE),
        M("reserve_stake", FALSE, TRUE),
        M("ephemeral_stake_account", FALSE, TRUE),
        M("transient_stake_account", FALSE, TRUE),
        M("validator_stake_account", FALSE, FALSE),
        M("vote_account", FALSE, FALSE),
        M("clock", FALSE, FALSE),
        M("stake_history", FALSE, FALSE),
        M("stake_config", FALSE, FALSE),
        M("system_program", FALSE, FALSE),
        M("stake_program", FALSE, FALSE)>>]

IncreaseAdditionalValidatorStakeVerify ==
    [writable |-> <<"validator_list", "reserve_stake", "ephemeral_stake_account", "transient_stake_account">>,
     signer |-> <<"staker">>]

\* INCREASE_ADDITIONAL_VALIDATOR_STAKE: the field each position of its three array conversions holds
IncreaseAdditionalValidatorStakeArrays ==
    [from_pubkeys |-> <<"stake_pool", "staker", "withdraw_authority",
                         "validator_list", "reserve_stake",
                         "ephemeral_stake_account",
                         "transient_stake_account",
                         "validator_stake_account", "vote_account", "clock",
                         "stake_history", "stake_config", "system_program",
                         "stake_program">>,
     to_infos |-> <<"stake_pool", "staker", "withdraw_authority",
                     "validator_list", "reserve_stake",
                     "ephemeral_stake_account", "transient_stake_account",
                     "validator_stake_account", "vote_account", "clock",
                     "stake_history", "stake_config", "system_program",
                     "stake_program">>,
     from_infos |-> <<"stake_pool", "staker", "withdraw_authority",
                       "validator_list", "reserve_stake",
                       "ephemeral_stake_account", "transient_stake_account",
                       "validator_stake_account", "vote_account", "clock",
                       "stake_history", "stake_config", "system_program",
                       "stake_program">>]

\* increase_additional_validator_stake_verify_account_keys: its (actual, expected) pairs in loop order
IncreaseAdditionalValidatorStakeKeyChecks ==
    <<<<"stake_pool", "stake_pool">>, <<"staker", "staker">>,
      <<"withdraw_authority", "withdraw_authority">>,
      <<"validator_list", "validator_list">>,
      <<"reserve_stake", "reserve_stake">>,
      <<"ephemeral_stake_account", "ephemeral_stake_account">>,
      <<"transient_stake_account", "transient_stake_account">>,
      <<"validator_stake_account", "validator_stake_account">>,
      <<"vote_account", "vote_account">>, <<"clock", "clock">>,
      <<"stake_history", "stake_history">>,
      <<"stake_config", "stake_config">>,
      <<"system_program", "system_program">>,
      <<"stake_program", "stake_program">>>>

\* DECREASE_ADDITIONAL_VALIDATOR_STAKE_IX_DISCM and whether DecreaseAdditionalValidatorStakeIxData carries an DecreaseAdditionalValidatorStakeIxArgs struct
DecreaseAdditionalValidatorStakeIxData == [discm |-> 20, args |-> TRUE]

\* DECREASE_ADDITIONAL_VALIDATOR_STAKE: the AccountMeta list of From<DecreaseAdditionalValidatorStakeKeys> for [AccountMeta; N]
DecreaseAdditionalValidatorStakeIx ==
    [discm |-> DecreaseAdditionalValidatorStakeIxData.discm, args |-> DecreaseAdditionalValidatorStakeIxData.args,
     metas |-> <<M("stake_pool", FALSE, FALSE),
        M("staker", TRUE, FALSE),
        M("withdraw_authority", FALSE, FALSE),
        M("validator_list", FALSE, TRUE),
        M("reserve_stake", FALSE, TRUE),
        M("validator_stake_account", FALSE, TRUE),
        M("ephemeral_stake_account", FALSE, TRUE),
        M("transient_stake_account", FALSE, TRUE),
        M("clock", FALSE, FALSE),
        M("stake_history", FALSE, FALSE),
        M("system_program", FALSE, FALSE),
        M("stake_program", FALSE, FALSE)>>]

DecreaseAdditionalValidatorStakeVerify ==
    [writable |-> <<"validator_list", "reserve_stake", "validator_stake_account", "ephemeral_stake_account", "transient_stake_account">>,
     signer |-> <<"staker">>]

\* DECREASE_ADDITIONAL_VALIDATOR_STAKE: the field each position of its three array conversions holds
DecreaseAdditionalValidatorStakeArrays ==
    [from_pubkeys |-> <<"stake_pool", "staker", "withdraw_authority",
                         "validator_list", "reserve_stake",
                         "validator_stake_account",
                         "ephemeral_stake_account",
                         "transient_stake_account", "clock", "stake_history",
                         "system_program", "stake_program">>,
     to_infos |-> <<"stake_pool", "staker", "withdraw_authority",
                     "validator_list", "reserve_stake",
                     "validator_stake_account", "ephemeral_stake_account",
                     "transient_stake_account", "clock", "stake_history",
                     "system_program", "stake_program">>,
     from_infos |-> <<"stake_pool", "staker", "withdraw_authority",
                       "validator_list", "reserve_stake",
                       "validator_stake_account", "ephemeral_stake_account",
                       "transient_stake_account", "clock", "stake_history",
                       "system_program", "stake_program">>]

\* decrease_additional_validator_stake_verify_account_keys: its (actual, expected) pairs in loop order
DecreaseAdditionalValidatorStakeKeyChecks ==
    <<<<"stake_pool", "stake_pool">>, <<"staker", "staker">>,
      <<"withdraw_authority", "withdraw_authority">>,
      <<"validator_list", "validator_list">>,
      <<"reserve_stake", "reserve_stake">>,
      <<"validator_stake_account", "validator_stake_account">>,
      <<"ephemeral_stake_account", "ephemeral_stake_account">>,
      <<"transient_stake_account", "transient_stake_account">>,
      <<"clock", "clock">>, <<"stake_history", "stake_history">>,
      <<"system_program", "system_program">>,
      <<"stake_program", "stake_program">>>>


-----------------------------------------------------------------------------
(* The program-wide tables                                                 *)

Variants ==
    {"Initialize", "AddValidatorToPool", "RemoveValidatorFromPool",
     "UpdateValidatorListBalance", "UpdateStakePoolBalance",
     "CleanupRemovedValidatorEntries", "SetManager", "SetFee", "SetStaker",
     "SetFundingAuthority", "IncreaseAdditionalValidatorStake",
     "DecreaseAdditionalValidatorStake"}

IxSpec ==
    ("Initialize" :> InitializeIx) @@
    ("AddValidatorToPool" :> AddValidatorToPoolIx) @@
    ("RemoveValidatorFromPool" :> RemoveValidatorFromPoolIx) @@
    ("UpdateValidatorListBalance" :> UpdateValidatorListBalanceIx) @@
    ("UpdateStakePoolBalance" :> UpdateStakePoolBalanceIx) @@
    ("CleanupRemovedValidatorEntries" :> CleanupRemovedValidatorEntriesIx) @@
    ("SetManager" :> SetManagerIx) @@
    ("SetFee" :> SetFeeIx) @@
    ("SetStaker" :> SetStakerIx) @@
    ("SetFundingAuthority" :> SetFundingAuthorityIx) @@
    ("IncreaseAdditionalValidatorStake" :> IncreaseAdditionalValidatorStakeIx) @@
    ("DecreaseAdditionalValidatorStake" :> DecreaseAdditionalValidatorStakeIx)

IxVerify ==
    ("Initialize" :> InitializeVerify) @@
    ("AddValidatorToPool" :> AddValidatorToPoolVerify) @@
    ("RemoveValidatorFromPool" :> RemoveValidatorFromPoolVerify) @@
    ("UpdateValidatorListBalance" :> UpdateValidatorListBalanceVerify) @@
    ("UpdateStakePoolBalance" :> UpdateStakePoolBalanceVerify) @@
    ("CleanupRemovedValidatorEntries" :> CleanupRemovedValidatorEntriesVerify) @@
    ("SetManager" :> SetManagerVerify) @@
    ("SetFee" :> SetFeeVerify) @@
    ("SetStaker" :> SetStakerVerify) @@
    ("SetFundingAuthority" :> SetFundingAuthorityVerify) @@
    ("IncreaseAdditionalValidatorStake" :> IncreaseAdditionalValidatorStakeVerify) @@
    ("DecreaseAdditionalValidatorStake" :> DecreaseAdditionalValidatorStakeVerify)

\* The match of SplStakePoolProgramIx::deserialize, arm by arm: the
\* discriminator constant an arm matches and the variant it builds.
Arm(pattern, variant) == [pattern |-> pattern, variant |-> variant]

\* Variant: the SetManager and SetStaker arms given each other's constant.
DeserializeArmsSwapped ==
    << Arm("Initialize", "Initialize"),
       Arm("AddValidatorToPool", "AddValidatorToPool"),
       Arm("RemoveValidatorFromPool", "RemoveValidatorFromPool"),
       Arm("UpdateValidatorListBalance", "UpdateValidatorListBalance"),
       Arm("UpdateStakePoolBalance", "UpdateStakePoolBalance"),
       Arm("CleanupRemovedValidatorEntries", "CleanupRemovedValidatorEntries"),
       Arm("SetStaker", "SetManager"),
       Arm("SetFee", "SetFee"),
       Arm("SetManager", "SetStaker"),
       Arm("SetFundingAuthority", "SetFundingAuthority"),
       Arm("IncreaseAdditionalValidatorStake", "IncreaseAdditionalValidatorStake"),
       Arm("DecreaseAdditionalValidatorStake", "DecreaseAdditionalValidatorStake") >>

DeserializeArms ==
    << Arm("Initialize", "Initialize"),
       Arm("AddValidatorToPool", "AddValidatorToPool"),
       Arm("RemoveValidatorFromPool", "RemoveValidatorFromPool"),
       Arm("UpdateValidatorListBalance", "UpdateValidatorListBalance"),
       Arm("UpdateStakePoolBalance", "UpdateStakePoolBalance"),
       Arm("CleanupRemovedValidatorEntries", "CleanupRemovedValidatorEntries"),
       Arm("SetManager", "SetManager"),
       Arm("SetFee", "SetFee"),
       Arm("SetStaker", "SetStaker"),
       Arm("SetFundingAuthority", "SetFundingAuthority"),
       Arm("IncreaseAdditionalValidatorStake", "IncreaseAdditionalValidatorStake"),
       Arm("DecreaseAdditionalValidatorStake", "DecreaseAdditionalValidatorStake") >>

\* The decoded instruction: a variant and its argument bytes.
Decoded(v, args) == [variant |-> v, args |-> args]

\* Variant: a unit variant keeps the bytes that follow its discriminator.
ReadArgsGreedy(v, rest) ==
    IF ~IxSpec[v].args THEN Ok(Decoded(v, rest))
    ELSE IF rest = << >> THEN Err("UnexpectedEof")
    ELSE Ok(Decoded(v, <<Head(rest)>>))

\* What follows the discriminator: <XIxArgs>::deserialize(&mut reader) reads
\* its struct or fails at end of input; a unit variant reads nothing.  Bytes
\* after the arguments are left in the reader and never looked at.
ReadArgs(v, rest) ==
    IF ~IxSpec[v].args THEN Ok(Decoded(v, << >>))
    ELSE IF rest = << >> THEN Err("UnexpectedEof")
    ELSE Ok(Decoded(v, <<Head(rest)>>))

\* SplStakePoolProgramIx::deserialize: read_exact of one discriminator byte,
\* the first arm whose constant it equals, else "discm {:?} not found".
Deserialize(buf) ==
    IF buf = << >> THEN Err("UnexpectedEof")
    ELSE LET hits == SelectSeq(DeserializeArms,
                               LAMBDA a : IxSpec[a.pattern].discm = Head(buf))
         IN  IF hits = << >> THEN Err("DiscmNotFound")
             ELSE ReadArgs(Head(hits).variant, Tail(buf))

\* SplStakePoolProgramIx::serialize / try_to_vec: the variant's discriminator,
\* then its arguments.
Serialize(v, args) == <<IxSpec[v].discm>> \o args

\* <X>IxData::deserialize: the discriminator must be X's own.
IxDataDeserialize(v, buf) ==
    IF buf = << >> THEN Err("UnexpectedEof")
    ELSE IF Head(buf) # IxSpec[v].discm THEN Err("DiscmMismatch")
    ELSE ReadArgs(v, Tail(buf))

\* <X>IxData::serialize / try_to_vec
IxDataSerialize(v, args) == <<IxSpec[v].discm>> \o args

\* <x>_ix_with_program_id (and <x>_ix): the metas of From<XKeys> for
\* [AccountMeta; N], each carrying the key given for its slot, and the data of
\* XIxData::try_to_vec.
BuildIx(v, keys, args) ==
    [accounts |-> [i \in 1 .. Len(IxSpec[v].metas) |->
                      [pubkey |-> keys[IxSpec[v].metas[i].slot],
                       is_signer |-> IxSpec[v].metas[i].is_signer,
                       is_writable |-> IxSpec[v].metas[i].is_writable]],
     data |-> IxDataSerialize(v, args)]

-----------------------------------------------------------------------------
(* The positional conversions.  An XAccounts or XKeys is a function from   *)
(* field (slot) name to AccountInfo or Pubkey; an array is a sequence.     *)

IxArrays ==
    ("Initialize" :> InitializeArrays) @@
    ("AddValidatorToPool" :> AddValidatorToPoolArrays) @@
    ("RemoveValidatorFromPool" :> RemoveValidatorFromPoolArrays) @@
    ("UpdateValidatorListBalance" :> UpdateValidatorListBalanceArrays) @@
    ("UpdateStakePoolBalance" :> UpdateStakePoolBalanceArrays) @@
    ("CleanupRemovedValidatorEntries" :> CleanupRemovedValidatorEntriesArrays) @@
    ("SetManager" :> SetManagerArrays) @@
    ("SetFee" :> SetFeeArrays) @@
    ("SetStaker" :> SetStakerArrays) @@
    ("SetFundingAuthority" :> SetFundingAuthorityArrays) @@
    ("IncreaseAdditionalValidatorStake" :> IncreaseAdditionalValidatorStakeArrays) @@
    ("DecreaseAdditionalValidatorStake" :> DecreaseAdditionalValidatorStakeArrays)

IxKeyChecks ==
    ("Initialize" :> InitializeKeyChecks) @@
    ("AddValidatorToPool" :> AddValidatorToPoolKeyChecks) @@
    ("RemoveValidatorFromPool" :> RemoveValidatorFromPoolKeyChecks) @@
    ("UpdateValidatorListBalance" :> UpdateValidatorListBalanceKeyChecks) @@
    ("UpdateStakePoolBalance" :> UpdateStakePoolBalanceKeyChecks) @@
    ("CleanupRemovedValidatorEntries" :> CleanupRemovedValidatorEntriesKeyChecks) @@
    ("SetManager" :> SetManagerKeyChecks) @@
    ("SetFee" :> SetFeeKeyChecks) @@
    ("SetStaker" :> SetStakerKeyChecks) @@
    ("SetFundingAuthority" :> SetFundingAuthorityKeyChecks) @@
    ("IncreaseAdditionalValidatorStake" :> IncreaseAdditionalValidatorStakeKeyChecks) @@
    ("DecreaseAdditionalValidatorStake" :> DecreaseAdditionalValidatorStakeKeyChecks)

\* a struct filled field by field from array positions: field order[i] takes arr[i]
FieldsFromArray(order, arr) ==
    [f \in {order[i] : i \in DOMAIN order} |->
        arr[CHOOSE i \in DOMAIN order : order[i] = f]]

\* From<[Pubkey; N]> for XKeys
KeysFromPubkeys(v, pubkeys) == FieldsFromArray(IxArrays[v].from_pubkeys, pubkeys)

\* From<&[AccountInfo; N]> for XAccounts
AccountsFromArray(v, infos) == FieldsFromArray(IxArrays[v].from_infos, infos)

-----------------------------------------------------------------------------
(* The on-chain checks over an XAccounts of AccountInfos (each: key,      *)
(* is_signer, is_writable).                                                *)

MinIndex(S) == CHOOSE i \in S : \A j \in S : i <= j

\* Variant: the loop stops before the last pair.
VerifyAccountKeysSkipLast(v, accounts, keys) ==
    LET checks == IxKeyChecks[v]
        bad == {i \in 1 .. Len(checks) - 1 : accounts[checks[i][1]].key # keys[checks[i][2]]}
    IN  IF bad = {} THEN Ok(<< >>)
        ELSE Err(<<accounts[checks[MinIndex(bad)][1]].key, keys[checks[MinIndex(bad)][2]]>>)

\* <x>_verify_account_keys: each pair's actual key against the expected key,
\* in loop order; the first mismatch is returned as (actual, expected).
VerifyAccountKeys(v, accounts, keys) ==
    LET checks == IxKeyChecks[v]
        bad == {i \in 1 .. Len(checks) : accounts[checks[i][1]].key # keys[checks[i][2]]}
    IN  IF bad = {} THEN Ok(<< >>)
        ELSE Err(<<accounts[checks[MinIndex(bad)][1]].key, keys[checks[MinIndex(bad)][2]]>>)

\* The loops of <x>_verify_writable_privileges and _signer_privileges: the
\* first listed account without the flag, with the loop's ProgramError.
VerifyFlag(v, accounts, list, flag, error) ==
    LET bad == {j \in 1 .. Len(list) : ~accounts[list[j]][flag]}
    IN  IF bad = {} THEN Ok(<< >>)
        ELSE Err(<<accounts[list[MinIndex(bad)]].key, error>>)

VerifyWritablePrivileges(v, accounts) ==
    VerifyFlag(v, accounts, IxVerify[v].writable, "is_writable", "InvalidAccountData")

\* (instructions without a signer check have an empty signer list)
VerifySignerPrivileges(v, accounts) ==
    VerifyFlag(v, accounts, IxVerify[v].signer, "is_signer", "MissingRequiredSignature")

\* Variant: the signer list never checked.
VerifyAccountPrivilegesWritableOnly(v, accounts) == VerifyWritablePrivileges(v, accounts)

\* <x>_verify_account_privileges: writable first, then signer
VerifyAccountPrivileges(v, accounts) ==
    LET w == VerifyWritablePrivileges(v, accounts)
    IN  IF w.ok THEN VerifySignerPrivileges(v, accounts) ELSE w

-----------------------------------------------------------------------------
(* The CPI wrappers: <x>_invoke and <x>_invoke_signed take an XAccounts of *)
(* AccountInfos.                                                           *)

\* From<XAccounts> for XKeys: each field's key
AccountsKeys(v, accounts) == [s \in DOMAIN accounts |-> accounts[s].key]

\* Variant: the last field's clone left out of the array.
AccountsArrayShort(v, accounts) ==
    [i \in 1 .. Len(IxArrays[v].to_infos) - 1 |-> accounts[IxArrays[v].to_infos[i]]]

\* From<XAccounts> for [AccountInfo; N]: the fields cloned in its own order
AccountsArray(v, accounts) ==
    [i \in 1 .. Len(IxArrays[v].to_infos) |-> accounts[IxArrays[v].to_infos[i]]]

\* <x>_invoke_signed_with_program_id: the keys of the accounts, the
\* instruction <x>_ix_with_program_id builds from them, and the AccountInfo
\* array invoke_instruction_signed passes to invoke_signed with the seeds
\* (<x>_invoke is the same without seeds).
InvokeSigned(v, accounts, args) ==
    [ix |-> BuildIx(v, AccountsKeys(v, accounts), args),
     account_infos |-> AccountsArray(v, accounts)]

-----------------------------------------------------------------------------
(* The program's entrypoint, as a program using the interface writes it:   *)
(* decode the data, refuse fewer AccountInfos than the decoded             *)
(* instruction's N, read the first N into an XAccounts with               *)
(* From<&[AccountInfo; N]>, then verify its keys against the expected ones *)
(* and its privileges.                                                     *)

ProcessInstruction(data, infos, expectedKeys) ==
    LET d == Deserialize(data)
    IN  IF ~d.ok THEN [status |-> "undecodable", err |-> d.err]
        ELSE LET v == d.val.variant
                 n == Len(IxSpec[v].metas)
                 accounts == AccountsFromArray(v, SubSeq(infos, 1, n))
             IN  IF Len(infos) < n
                 THEN [status |-> "not_enough_accounts", variant |-> v]
                 ELSE [status |-> "checked", variant |-> v, args |-> d.val.args,
                       keys |-> VerifyAccountKeys(v, accounts, expectedKeys),
                       privileges |-> VerifyAccountPrivileges(v, accounts)]

\* every account slot of every instruction; its honest key is its own name
Slots == UNION {{IxSpec[v].metas[i].slot : i \in 1 .. Len(IxSpec[v].metas)} : v \in Variants}
HonestKeys == [s \in Slots |-> s]

ArgsOf(v) == IF IxSpec[v].args THEN {<<b>> : b \in ArgBytes} ELSE {<< >>}

\* the privileges the builder grants: (index, flag) pairs
Granted(v) ==
    {<<i, f>> \in (1 .. Len(IxSpec[v].metas)) \X {"is_signer", "is_writable"} :
        IxSpec[v].metas[i][f]}

IsAccepted(o) == o.status = "checked" /\ o.keys.ok /\ o.privileges.ok

====
