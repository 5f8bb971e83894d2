-------------------------------- MODULE Escrow --------------------------------
(***************************************************************************)
(* The time-locked bond escrow, contract/contracts/escrow/src/lib.rs.      *)
(*                                                                         *)
(* Anyone deposits a token until an unlock time.  A self-bond goes back to *)
(* its depositor; a lock with a distinct claimant is a one-way send to the *)
(* claimant; a revocable lock (always a self-bond) may be pulled early.    *)
(* There is no admin.  The token is external: a transfer debits the        *)
(* sender and may keep a fee before it credits the receiver.               *)
(***************************************************************************)
EXTENDS Ledger, FiniteSets

CONSTANTS
    Accounts,       \* the addresses that can authorise a call
    EscrowAddr,     \* the contract's own address
    Tokens,         \* the token contracts locks are denominated in
    Fee,            \* Fee[t]: what token t keeps of every transfer
    Commitments,    \* the 32-byte tags a depositor may attach
    InitBalance,    \* what every account holds of every token at the start
    MaxLocks        \* bound: deposits in one behaviour

ASSUME EscrowAssumption ==
    /\ EscrowAddr \notin Accounts
    /\ Fee \in [Tokens -> Nat]
    /\ InitBalance \in Nat
    /\ MaxLocks \in Nat

VARIABLES
    balance,        \* balance[t][a]: what address a holds of token t
    counter,        \* DataKey::Counter, the id of the newest lock
    locks           \* DataKey::Lock(id)

escrowVars == <<balance, counter, locks>>

Holders == Accounts \cup {EscrowAddr}

Lock == [depositor: Accounts, token: Tokens, amount: Nat \ {0},
         unlock_time: Nat, claimant: Accounts, commitment: Commitments,
         revocable: BOOLEAN, released: BOOLEAN]

EscrowTypeOK ==
    /\ now \in Nat
    /\ balance \in [Tokens -> [Holders -> Nat]]
    /\ counter \in Nat
    /\ locks \in [1..counter -> Lock]

EscrowInit ==
    /\ now = 0
    /\ balance = [t \in Tokens |-> [a \in Holders |->
                     IF a = EscrowAddr THEN 0 ELSE InitBalance]]
    /\ counter = 0
    /\ locks = [i \in 1..0 |-> i]

-------------------------------------------------------------------------------
(* The token contract. *)

\* What the receiver of a transfer of amount is credited.
Credit(t, amount) == IF amount > Fee[t] THEN amount - Fee[t] ELSE 0

\* transfer(from, to, amount), from # to; it traps when from holds less than
\* amount.
Transfer(t, from, to, amount) ==
    /\ balance[t][from] >= amount
    /\ balance' = [balance EXCEPT ![t] = [a \in Holders |->
                     CASE a = from -> balance[t][a] - amount
                       [] a = to   -> balance[t][a] + Credit(t, amount)
                       [] OTHER    -> balance[t][a]]]

-------------------------------------------------------------------------------
(* The entry points.  caller is the address whose authorisation the        *)
(* transaction carries; a call that returns an error is a stuttering step. *)

\* Wrong on purpose, as is every definition named ..._wrong: each seeds the
\* bug that one property must catch.  Here the unlock time is not compared.
Unlocked_wrong(lock) == ~lock.released

\* ensure_unlocked
Unlocked(lock) ==
    /\ ~lock.released
    /\ now >= lock.unlock_time

\* Wrong: the amount requested is recorded.
deposit_wrong(from, t, amount, unlock_time, claimant, commitment, revocable) ==
    /\ counter < MaxLocks
    /\ amount > 0
    /\ unlock_time > now
    /\ revocable => claimant = from
    /\ Transfer(t, from, EscrowAddr, amount)
    /\ counter' = counter + 1
    /\ locks' = Put(locks, counter + 1,
                    [depositor |-> from, token |-> t, amount |-> amount,
                     unlock_time |-> unlock_time, claimant |-> claimant,
                     commitment |-> commitment, revocable |-> revocable,
                     released |-> FALSE])

\* deposit.  The amount recorded is the change of the contract's own balance.
deposit(from, t, amount, unlock_time, claimant, commitment, revocable) ==
    LET received == Credit(t, amount) IN
    /\ counter < MaxLocks
    /\ amount > 0
    /\ unlock_time > now
    /\ revocable => claimant = from
    /\ Transfer(t, from, EscrowAddr, amount)
    /\ received > 0
    /\ counter' = counter + 1
    /\ locks' = Put(locks, counter + 1,
                    [depositor |-> from, token |-> t, amount |-> received,
                     unlock_time |-> unlock_time, claimant |-> claimant,
                     commitment |-> commitment, revocable |-> revocable,
                     released |-> FALSE])

\* Wrong: any unlock time in the future is accepted.
set_timelock_wrong(caller, id, new_unlock_time) ==
    /\ caller = locks[id].depositor
    /\ ~locks[id].released
    /\ new_unlock_time > now
    /\ locks' = [locks EXCEPT ![id].unlock_time = new_unlock_time]
    /\ UNCHANGED <<balance, counter>>

\* set_timelock: extend only.
set_timelock(caller, id, new_unlock_time) ==
    /\ caller = locks[id].depositor
    /\ ~locks[id].released
    /\ new_unlock_time > locks[id].unlock_time
    /\ locks' = [locks EXCEPT ![id].unlock_time = new_unlock_time]
    /\ UNCHANGED <<balance, counter>>

\* The common end of withdraw, claim and unbond: mark, save, pay out.
Release(id, payee) ==
    /\ locks' = [locks EXCEPT ![id].released = TRUE]
    /\ Transfer(locks[id].token, EscrowAddr, payee, locks[id].amount)
    /\ UNCHANGED counter

\* Wrong: a one-way lock is not refused.
withdraw_wrong(caller, id) ==
    /\ caller = locks[id].depositor
    /\ Unlocked(locks[id])
    /\ Release(id, locks[id].depositor)

\* withdraw: self-bonds only.
withdraw(caller, id) ==
    /\ caller = locks[id].depositor
    /\ locks[id].claimant = locks[id].depositor
    /\ Unlocked(locks[id])
    /\ Release(id, locks[id].depositor)

\* claim: the one-way send.
claim(caller, id) ==
    /\ caller = locks[id].claimant
    /\ Unlocked(locks[id])
    /\ Release(id, locks[id].claimant)

\* unbond: early exit of a revocable lock.
unbond(caller, id) ==
    /\ caller = locks[id].depositor
    /\ ~locks[id].released
    /\ locks[id].revocable
    /\ Release(id, locks[id].depositor)

\* is_locked: the read other contracts gate on; FALSE for an unknown id.
is_locked(id) ==
    /\ id \in DOMAIN locks
    /\ ~locks[id].released
    /\ now < locks[id].unlock_time

-------------------------------------------------------------------------------
Deposit ==
    \E from, claimant \in Accounts, t \in Tokens, amount \in 0..InitBalance,
       unlock_time \in 0..MaxTime, c \in Commitments, revocable \in BOOLEAN :
        deposit(from, t, amount, unlock_time, claimant, c, revocable)

SetTimelock ==
    \E caller \in Accounts, id \in DOMAIN locks, u \in 0..MaxTime :
        set_timelock(caller, id, u)

Withdraw == \E caller \in Accounts, id \in DOMAIN locks : withdraw(caller, id)

Claim == \E caller \in Accounts, id \in DOMAIN locks : claim(caller, id)

Unbond == \E caller \in Accounts, id \in DOMAIN locks : unbond(caller, id)

EscrowCall == Deposit \/ SetTimelock \/ Withdraw \/ Claim \/ Unbond

EscrowNext ==
    \/ EscrowCall /\ UNCHANGED now
    \/ Tick /\ UNCHANGED escrowVars

EscrowSpec == EscrowInit /\ [][EscrowNext]_<<now, escrowVars>>

-------------------------------------------------------------------------------
(* Properties. *)

\* The unreleased locks of token t, and the single units lock id records.
OpenLocks(t) == {id \in DOMAIN locks : ~locks[id].released
                                       /\ locks[id].token = t}

LockUnits(id) == {id} \X (1..locks[id].amount)

\* What unreleased locks record of token t, unit by unit, so that the sum of
\* their amounts is a cardinality.
OwedUnits(t) == UNION {LockUnits(id) : id \in OpenLocks(t)}

Owed(t) == Cardinality(OwedUnits(t))

(***************************************************************************)
(* Every unreleased lock is backed: the contract holds at least the sum of *)
(* what its unreleased locks record, so no release can be paid with        *)
(* another lock's funds.  This is why deposit measures the amount received *)
(* instead of trusting the amount requested.                               *)
(***************************************************************************)
LocksBacked == \A t \in Tokens : Owed(t) <= balance[t][EscrowAddr]

(***************************************************************************)
(* "Before the unlock time" means "still funded": a non-revocable lock is  *)
(* released only at or after its unlock time, through any sequence of      *)
(* extensions, withdrawals and claims.  The bond gate reads no lock and    *)
(* relies on exactly this.                                                 *)
(***************************************************************************)
HeldUntilUnlock ==
    \A id \in DOMAIN locks :
        locks[id].released /\ ~locks[id].revocable
            => now >= locks[id].unlock_time

\* What a depositor and the readers of a lock agreed on.
Terms(lock) == <<lock.depositor, lock.token, lock.amount, lock.claimant,
                 lock.commitment, lock.revocable>>

(***************************************************************************)
(* A lock once seen never gets weaker: it is never deleted or re-used for  *)
(* another deposit, its parties, token, amount and tag are fixed, its      *)
(* unlock time never moves earlier and a release is never undone.          *)
(***************************************************************************)
LockOnlyStrengthens ==
    [][\A id \in DOMAIN locks :
          /\ id \in DOMAIN locks'
          /\ Terms(locks'[id]) = Terms(locks[id])
          /\ locks'[id].unlock_time >= locks[id].unlock_time
          /\ locks[id].released => locks'[id].released
      ]_<<now, escrowVars>>

(***************************************************************************)
(* A lock's amount leaves the contract once, and only to its claimant:     *)
(* whenever a call releases a lock, the claimant and nobody else is paid,  *)
(* whichever of withdraw, claim and unbond released it.                    *)
(***************************************************************************)
ReleasePaysClaimant ==
    [][\A id \in DOMAIN locks :
          ~locks[id].released /\ locks'[id].released =>
             LET t == locks[id].token IN
             \A a \in Accounts :
                balance'[t][a] = balance[t][a] +
                   (IF a = locks[id].claimant
                    THEN Credit(t, locks[id].amount) ELSE 0)
      ]_<<now, escrowVars>>

===============================================================================
