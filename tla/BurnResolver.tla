---------------------------- MODULE BurnResolver ----------------------------
(***************************************************************************)
(* The burn account resolver of sanctum-token-lib                          *)
(* (src/libs/sanctum-token-lib/src/account_resolvers/burn.rs): from the    *)
(* one account a client holds, the token account, it resolves the keys of  *)
(* a Burn or BurnChecked instruction: the token account's own pubkey, and  *)
(* the authority and mint read from its data.                              *)
(*                                                                         *)
(* The two checks it runs first, ReadonlyTokenAccount::try_into_valid and   *)
(* InitializedTokenAccount's try_into_initialized, are defined outside this *)
(* repository; the model keeps their order and the `?` that returns their  *)
(* errors, and takes their verdicts on an account as part of the account   *)
(* (`valid`, `initialized`) and their errors as model values.            *)
(***************************************************************************)
CONSTANTS
    Pubkeys,       \* addresses a token account can have
    Authorities,   \* keys a token account's authority (owner) field can hold
    Mints,         \* mints a token account can belong to
    InvalidError,  \* the ProgramError try_into_valid returns
    UninitError    \* the ProgramError try_into_initialized returns

Ok(v) == [ok |-> TRUE, val |-> v]
Err(e) == [ok |-> FALSE, err |-> e]

\* an account as ReadonlyAccountPubkey and ReadonlyAccountData show it
TokenAccounts ==
    [pubkey : Pubkeys, valid : BOOLEAN, initialized : BOOLEAN,
     authority : Authorities, mint : Mints]

\* BurnFreeAccounts { token_account }
BurnFreeAccounts(acc) == [token_account |-> acc]

\* BurnKeys and BurnCheckedKeys: the three keys of the instruction
BurnKeys(ta, auth, mint) == [token_account |-> ta, authority |-> auth, mint |-> mint]

\* Variant: try_into_initialized never called.
initialized_token_account_valid_only(self) ==
    LET acc == self.token_account
    IN  IF ~acc.valid THEN Err(InvalidError) ELSE Ok(acc)

\* initialized_token_account: try_into_valid()?, then try_into_initialized()
initialized_token_account(self) ==
    LET acc == self.token_account
    IN  IF ~acc.valid THEN Err(InvalidError)
        ELSE IF ~acc.initialized THEN Err(UninitError)
        ELSE Ok(acc)

\* resolve: the `?` on the checks, then the token account's pubkey and the
\* authority and mint of its data
resolve(self) ==
    LET t == initialized_token_account(self)
    IN  IF ~t.ok THEN t
        ELSE Ok(BurnKeys(self.token_account.pubkey, t.val.authority, t.val.mint))

\* resolve_checked: its own copy of the same projection, into BurnCheckedKeys
resolve_checked(self) ==
    LET t == initialized_token_account(self)
    IN  IF ~t.ok THEN t
        ELSE Ok(BurnKeys(self.token_account.pubkey, t.val.authority, t.val.mint))

\* TryFrom<BurnFreeAccounts> for BurnKeys and for BurnCheckedKeys
TryFromBurnKeys(value) == resolve(value)
TryFromBurnCheckedKeys(value) == resolve_checked(value)

\* the four ways a client resolves the keys
Entries == {"resolve", "resolve_checked", "try_from_burn", "try_from_burn_checked"}

Resolved(entry, self) ==
    CASE entry = "resolve"               -> resolve(self)
      [] entry = "resolve_checked"       -> resolve_checked(self)
      [] entry = "try_from_burn"         -> TryFromBurnKeys(self)
      [] entry = "try_from_burn_checked" -> TryFromBurnCheckedKeys(self)

-----------------------------------------------------------------------------

VARIABLES
    account,   \* the token account as it is on chain
    call       \* the last resolution: entry point and result

vars == <<account, call>>

Init ==
    /\ account \in TokenAccounts
    /\ call = [entry |-> "none"]

\* the client resolves the keys of the account it holds
Resolve(entry) ==
    /\ call' = [entry |-> entry, out |-> Resolved(entry, BurnFreeAccounts(account))]
    /\ UNCHANGED account

Next == \E e \in Entries : Resolve(e)

Spec == Init /\ [][Next]_vars

-----------------------------------------------------------------------------
(* Properties                                                              *)

\* Resolution succeeds exactly on an account both checks accept, and then
\* names that account, its authority and its mint; otherwise it returns the
\* error of the first check that refused it (try_into_valid before
\* try_into_initialized), so an account whose data was closed or never
\* initialized never yields keys.
ResolvedKeysNameInitializedAccount ==
    call.entry # "none" =>
        IF account.valid /\ account.initialized
        THEN call.out = Ok(BurnKeys(account.pubkey, account.authority, account.mint))
        ELSE call.out = Err(IF account.valid THEN UninitError ELSE InvalidError)

====
