---------------------------- MODULE StakePoolCpi ----------------------------
(***************************************************************************)
(* A calling program invoking the stake pool through the generated CPI     *)
(* wrappers, composed with the stake pool's checks.  The caller fills an   *)
(* XAccounts with AccountInfos it holds (possibly a wrong account in one   *)
(* slot, possibly without some signature or writable flag the instruction  *)
(* needs) and calls <x>_invoke, or <x>_invoke_signed with the seeds of PDAs *)
(* it signs for.  The wrapper builds the instruction from the accounts'    *)
(* keys and passes the accounts in meta order.                             *)
(*                                                                         *)
(* The runtime's invoke_signed (not part of this repository) is modelled   *)
(* by its rules: every meta's key must be among the AccountInfos passed, a *)
(* writable meta needs a writable AccountInfo, a signer meta a signing     *)
(* AccountInfo or a PDA signed by the seeds; the callee then sees each     *)
(* account with its meta's flags and runs ProcessInstruction.              *)
(***************************************************************************)
EXTENDS StakePoolIx

CONSTANT MaxDropped   \* bound on the privileges the caller lacks

FSE == INSTANCE FiniteSetsExt

VARIABLES
    phase,     \* "idle" or "invoked"
    call,      \* the wrapper called, with the caller's accounts and seeds
    outcome    \* the runtime's and the callee's verdict

vars == <<phase, call, outcome>>

SlotsOf(v) == {IxSpec[v].metas[i].slot : i \in 1 .. Len(IxSpec[v].metas)}

\* the privileges of v as (slot, flag) pairs
GrantedSlots(v) == {<<IxSpec[v].metas[p[1]].slot, p[2]>> : p \in Granted(v)}

SignerSlots(v) == {s \in SlotsOf(v) : <<s, "is_signer">> \in GrantedSlots(v)}

\* The caller's XAccounts: slot `sub` holds Intruder's account; the caller
\* holds every privilege of v except those in `missing`.
CallerAccounts(v, sub, missing) ==
    [s \in SlotsOf(v) |->
        [key |-> IF s = sub THEN Intruder ELSE HonestKeys[s],
         is_signer |-> <<s, "is_signer">> \in GrantedSlots(v) \ missing,
         is_writable |-> <<s, "is_writable">> \in GrantedSlots(v) \ missing]]

\* invoke_signed as the runtime performs it
RuntimeInvoke(ix, infos, pdaKeys) ==
    LET metas == ix.accounts
        passed(k) == {j \in DOMAIN infos : infos[j].key = k}
        held(k, f) == \E j \in passed(k) : infos[j][f]
    IN  IF \E i \in DOMAIN metas : passed(metas[i].pubkey) = {}
        THEN [status |-> "missing_account"]
        ELSE IF \E i \in DOMAIN metas :
                  \/ metas[i].is_writable /\ ~held(metas[i].pubkey, "is_writable")
                  \/ metas[i].is_signer /\ ~held(metas[i].pubkey, "is_signer")
                     /\ metas[i].pubkey \notin pdaKeys
        THEN [status |-> "privilege_escalation"]
        ELSE ProcessInstruction(ix.data,
                 [i \in DOMAIN metas |-> [key |-> metas[i].pubkey,
                                          is_signer |-> metas[i].is_signer,
                                          is_writable |-> metas[i].is_writable]],
                 HonestKeys)

Init ==
    /\ phase = "idle"
    /\ call = [wrapper |-> "none"]
    /\ outcome = [status |-> "none"]

\* <x>_invoke (no seeds) or <x>_invoke_signed (seeds of the PDAs in pdas)
CallerInvokes(v, args, sub, missing, pdas) ==
    /\ phase = "idle"
    /\ phase' = "invoked"
    /\ LET accounts == CallerAccounts(v, sub, missing)
           cpi == InvokeSigned(v, accounts, args)
       IN  /\ call' = [wrapper |-> IF pdas = {} THEN "invoke" ELSE "invoke_signed",
                       kind |-> v, args |-> args, sub |-> sub,
                       missing |-> missing, pdas |-> pdas]
           /\ outcome' = RuntimeInvoke(cpi.ix, cpi.account_infos,
                                       {HonestKeys[s] : s \in pdas})

\* the caller's instruction completes and it may invoke again
CallerReturns ==
    /\ phase = "invoked"
    /\ phase' = "idle"
    /\ call' = [wrapper |-> "none"]
    /\ outcome' = [status |-> "none"]

Next ==
    \/ \E v \in Variants : \E a \in ArgsOf(v), sub \in SlotsOf(v) \cup {"none"},
                               pdas \in SUBSET SignerSlots(v) :
          \E k \in 0 .. MaxDropped : \E missing \in FSE!kSubset(k, GrantedSlots(v)) :
             CallerInvokes(v, a, sub, missing, pdas)
    \/ CallerReturns

Spec == Init /\ [][Next]_vars

-----------------------------------------------------------------------------
(* Properties                                                              *)

\* the privileges the caller lacks and signs no PDA for
Unheld(c) == {p \in c.missing : p[2] = "is_writable" \/ p[1] \notin c.pdas}

\* A caller that passes the right accounts and holds (or signs with seeds
\* for) every privilege the instruction needs gets it through the runtime
\* and the stake pool's checks, as the instruction and arguments it meant:
\* the wrapper's keys, meta list and AccountInfo array agree.
CpiWithHeldPrivilegesAccepted ==
    phase = "invoked" /\ call.sub = "none" /\ Unheld(call) = {} =>
        /\ IsAccepted(outcome)
        /\ outcome.variant = call.kind
        /\ outcome.args = call.args

\* A CPI with a wrong account in any slot, or without a privilege the
\* caller neither holds nor signs for, is refused; a missing privilege by the
\* runtime before the stake pool runs.  A wrong account that needs no
\* privilege passes the runtime, and only the callee's
\* verify_account_keys stands between it and the stake pool.
CpiForgeryRejected ==
    phase = "invoked" =>
        /\ call.sub # "none" \/ Unheld(call) # {} => ~IsAccepted(outcome)
        /\ Unheld(call) # {} => outcome.status = "privilege_escalation"

====
