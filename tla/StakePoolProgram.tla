-------------------------- MODULE StakePoolProgram --------------------------
(***************************************************************************)
(* A client and an on-chain program talking through the generated stake-  *)
(* pool interface.  The client sends one instruction at a time: one built  *)
(* honestly by <x>_ix or by SplStakePoolProgramIx::try_to_vec, or one a    *)
(* hostile client forged (an account swapped for Intruder, a signature or  *)
(* a writable flag withheld, or arbitrary instruction data).  The program  *)
(* decodes the data with SplStakePoolProgramIx::deserialize, takes the     *)
(* first N AccountInfos of the decoded instruction, and runs               *)
(* <x>_verify_account_keys and <x>_verify_account_privileges against the   *)
(* keys it expects.  The program itself is not part of the repository:     *)
(* it is the use of the interface its documentation describes.             *)
(***************************************************************************)
EXTENDS StakePoolIx

CONSTANTS
    DataBytes,    \* byte values of forged instruction data
    MaxDataLen,   \* bound on the length of forged instruction data
    MaxDropped    \* bound on the privileges a forged instruction withholds

ASSUME /\ ArgBytes \subseteq DataBytes
       /\ MaxDataLen \in Nat /\ MaxDropped \in Nat

VARIABLES
    phase,     \* "idle", "sent" (an instruction in flight) or "done"
    sent,      \* the instruction sent: how it was made, its kind, accounts, data
    outcome    \* what the program concluded about it

vars == <<phase, sent, outcome>>

RawData == UNION {[1 .. n -> DataBytes] : n \in 0 .. MaxDataLen}

\* the AccountInfos the runtime hands the program for the instruction's metas
Delivered(accounts) ==
    [i \in DOMAIN accounts |-> [key |-> accounts[i].pubkey,
                                is_signer |-> accounts[i].is_signer,
                                is_writable |-> accounts[i].is_writable]]

Init ==
    /\ phase = "idle"
    /\ sent = [how |-> "none"]
    /\ outcome = [status |-> "none"]

Send(how, v, args, ix) ==
    /\ phase = "idle"
    /\ phase' = "sent"
    /\ sent' = [how |-> how, kind |-> v, args |-> args,
                accounts |-> ix.accounts, data |-> ix.data]
    /\ outcome' = [status |-> "none"]

\* <x>_ix with the expected keys
SendHonest(v, args) == Send("honest", v, args, BuildIx(v, HonestKeys, args))

\* the expected keys, with the data of SplStakePoolProgramIx::try_to_vec
SendHonestEnum(v, args) ==
    Send("honest", v, args,
         [BuildIx(v, HonestKeys, args) EXCEPT !.data = Serialize(v, args)])

\* the expected keys given as a [Pubkey; N] in the order of the instruction's
\* accounts and converted with From<[Pubkey; N]> for XKeys
SendHonestFromPubkeys(v, args) ==
    LET order == [i \in 1 .. Len(IxSpec[v].metas) |-> IxSpec[v].metas[i].slot]
    IN  Send("honest", v, args,
             BuildIx(v, KeysFromPubkeys(v, [i \in DOMAIN order |-> HonestKeys[order[i]]]), args))

\* a slot filled with another account
SendSubstitutedKey(v, args, slot) ==
    Send("forged", v, args, BuildIx(v, [HonestKeys EXCEPT ![slot] = Intruder], args))

\* some signer or writable privileges the builder grants withheld
SendWithoutPrivileges(v, args, dropped) ==
    LET ix == BuildIx(v, HonestKeys, args)
    IN  Send("forged", v, args,
             [ix EXCEPT !.accounts = [i \in DOMAIN @ |->
                 [f \in DOMAIN @[i] |->
                     IF <<i, f>> \in dropped THEN FALSE ELSE @[i][f]]]])

\* the honest accounts of v with arbitrary data
SendRawData(v, data) ==
    Send("raw", v, << >>, [BuildIx(v, HonestKeys, << >>) EXCEPT !.data = data])

\* The program runs the instruction sent with the AccountInfos of its metas.
Process ==
    /\ phase = "sent"
    /\ phase' = "done"
    /\ outcome' = ProcessInstruction(sent.data, Delivered(sent.accounts), HonestKeys)
    /\ UNCHANGED sent

\* the transaction ends; the client may send its next instruction
Complete ==
    /\ phase = "done"
    /\ phase' = "idle"
    /\ sent' = [how |-> "none"]
    /\ outcome' = [status |-> "none"]

Next ==
    \/ \E v \in Variants : \E a \in ArgsOf(v) :
          \/ SendHonest(v, a)
          \/ SendHonestEnum(v, a)
          \/ SendHonestFromPubkeys(v, a)
          \/ \E s \in {IxSpec[v].metas[i].slot : i \in 1 .. Len(IxSpec[v].metas)} :
                SendSubstitutedKey(v, a, s)
          \/ \E D \in SUBSET Granted(v) :
                D # {} /\ Cardinality(D) <= MaxDropped /\ SendWithoutPrivileges(v, a, D)
    \/ \E v \in Variants, data \in RawData : SendRawData(v, data)
    \/ Process
    \/ Complete

Spec == Init /\ [][Next]_vars

-----------------------------------------------------------------------------
(* Properties                                                              *)

Accepted == IsAccepted(outcome)

TypeOK ==
    /\ phase \in {"idle", "sent", "done"}
    /\ outcome.status \in {"none", "undecodable", "not_enough_accounts", "checked"}
    /\ outcome.status = "checked" =>
          /\ outcome.variant \in Variants
          /\ outcome.args \in IF IxSpec[outcome.variant].args
                              THEN {<<b>> : b \in DataBytes} ELSE {<< >>}

\* An instruction built by <x>_ix (or encoded by SplStakePoolProgramIx) with
\* the expected keys and every privilege the builder grants passes the
\* program's decode and checks, as the instruction and arguments sent: the
\* builder's metas, the discriminator tables and the verify lists agree.
HonestIxAccepted ==
    phase = "done" /\ sent.how = "honest" =>
        /\ Accepted
        /\ outcome.variant = sent.kind
        /\ outcome.args = sent.args

\* The program-wide decoder and each instruction's own decoder agree on any
\* data: <X>IxData::deserialize succeeds exactly when
\* SplStakePoolProgramIx::deserialize yields X, with the same arguments.
DecodersAgree ==
    phase = "sent" =>
        \A v \in Variants :
            LET own == IxDataDeserialize(v, sent.data)
                all == Deserialize(sent.data)
            IN  /\ own.ok = (all.ok /\ all.val.variant = v)
                /\ own.ok => own.val = all.val

-----------------------------------------------------------------------------
(* Refinement: the program implements InstructionGate                      *)

\* data that names no operation
Undecodable == Decoded("none", << >>)

\* the operation the data names, as the program-wide decoder reads it
RequestOp == LET d == Deserialize(sent.data) IN IF d.ok THEN d.val ELSE Undecodable

\* the instruction is genuine for that operation: the program receives at
\* least the operation's accounts, each with the key the program expects and
\* every privilege the operation's AccountMeta gives it
Genuine ==
    LET d == Deserialize(sent.data)
        infos == Delivered(sent.accounts)
    IN  /\ d.ok
        /\ LET metas == IxSpec[d.val.variant].metas
           IN  /\ Len(infos) >= Len(metas)
               /\ \A i \in 1 .. Len(metas) :
                     /\ infos[i].key = HonestKeys[metas[i].slot]
                     /\ metas[i].is_signer => infos[i].is_signer
                     /\ metas[i].is_writable => infos[i].is_writable

Gate == INSTANCE InstructionGate WITH
    Ops <- {Decoded(v, a) : v \in Variants,
                            a \in {<< >>} \cup {<<b>> : b \in DataBytes}},
    NoOp <- Undecodable,
    request <- IF phase = "idle" THEN [op |-> Undecodable, genuine |-> FALSE]
               ELSE [op |-> RequestOp, genuine |-> Genuine],
    verdict <- CASE phase = "idle" -> "idle"
                 [] phase = "sent" -> "pending"
                 [] phase = "done" -> IF Accepted THEN "accept" ELSE "reject"

\* Every behaviour of client and program is a behaviour of InstructionGate:
\* each instruction, honest, forged or arbitrary bytes, is judged once after
\* it is sent, and Process (decode, the account count, verify_account_keys,
\* verify_account_privileges) accepts it exactly when it is genuine.
ImplementsInstructionGate == Gate!GateSpec

====
