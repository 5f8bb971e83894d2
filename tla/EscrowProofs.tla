----------------------------- MODULE EscrowProofs -----------------------------
(***************************************************************************)
(* Proofs about the escrow for any accounts, tokens, fees and bounds.      *)
(***************************************************************************)
EXTENDS Escrow, FiniteSetTheorems, TLAPS

USE EscrowAssumption, MaxTimeAssumption

(***************************************************************************)
(* The effect of each call, in the form the later proofs use.              *)
(***************************************************************************)

\* What a transfer leaves of the balances' type.
LEMMA TransferType ==
    ASSUME EscrowTypeOK,
           NEW t \in Tokens, NEW from \in Holders, NEW to \in Holders,
           NEW amount \in Nat, Transfer(t, from, to, amount)
    PROVE  balance' \in [Tokens -> [Holders -> Nat]]
<1>1. Credit(t, amount) \in Nat
  BY DEF Credit
<1>2. \A a \in Holders : balance[t][a] \in Nat
  BY DEF EscrowTypeOK
<1>3. balance[t][from] - amount \in Nat
  BY <1>2 DEF Transfer
<1>4. [a \in Holders |->
         CASE a = from -> balance[t][a] - amount
           [] a = to   -> balance[t][a] + Credit(t, amount)
           [] OTHER    -> balance[t][a]] \in [Holders -> Nat]
  BY <1>1, <1>2, <1>3
<1> QED BY <1>4 DEF Transfer, EscrowTypeOK

\* A deposit adds one lock, under the next id, and keeps every other one.
LEMMA DepositEffect ==
    ASSUME EscrowTypeOK, Deposit
    PROVE  /\ counter' = counter + 1
           /\ counter' \in Nat
           /\ locks' \in [1..counter' -> Lock]
           /\ DOMAIN locks' = (1..counter) \cup {counter + 1}
           /\ \A id \in 1..counter : locks'[id] = locks[id]
           /\ locks'[counter'].released = FALSE
<1> PICK from \in Accounts, claimant \in Accounts, t \in Tokens,
         amount \in 0..InitBalance, unlock_time \in 0..MaxTime,
         c \in Commitments, revocable \in BOOLEAN :
           deposit(from, t, amount, unlock_time, claimant, c, revocable)
  BY DEF Deposit
<1> DEFINE new == [depositor |-> from, token |-> t,
                   amount |-> Credit(t, amount), unlock_time |-> unlock_time,
                   claimant |-> claimant, commitment |-> c,
                   revocable |-> revocable, released |-> FALSE]
<1>1. counter' = counter + 1 /\ locks' = Put(locks, counter + 1, new)
  BY DEF deposit
<1>2. Credit(t, amount) \in Nat \ {0}
  BY DEF deposit, Credit
<1>3. new \in Lock
  BY <1>2 DEF Lock
<1>4. DOMAIN locks = 1..counter /\ counter \in Nat
  BY DEF EscrowTypeOK
<1>5. (1..counter) \cup {counter + 1} = 1..counter'
  BY <1>1, <1>4
<1> HIDE DEF new
<1>6. locks' \in [1..counter' -> Lock]
  BY <1>1, <1>3, <1>4, <1>5 DEF Put, EscrowTypeOK
<1>7. \A id \in 1..counter : locks'[id] = locks[id]
  BY <1>1, <1>4 DEF Put
<1>8. locks'[counter'] = new
  BY <1>1, <1>4 DEF Put
<1>9. new.released = FALSE
  BY DEF new
<1>10. DOMAIN locks' = (1..counter) \cup {counter + 1}
  BY <1>1, <1>4 DEF Put
<1> QED BY <1>1, <1>4, <1>6, <1>7, <1>8, <1>9, <1>10

\* An extension moves one unreleased lock's unlock time later.
LEMMA SetTimelockEffect ==
    ASSUME EscrowTypeOK, SetTimelock
    PROVE  \E id \in 1..counter, u \in Nat :
             /\ ~locks[id].released
             /\ u > locks[id].unlock_time
             /\ locks' = [locks EXCEPT ![id].unlock_time = u]
             /\ locks' \in [1..counter -> Lock]
             /\ UNCHANGED <<balance, counter>>
<1> PICK caller \in Accounts, id \in DOMAIN locks, u \in 0..MaxTime :
           set_timelock(caller, id, u)
  BY DEF SetTimelock
<1>1. u \in Nat /\ id \in 1..counter
  BY DEF EscrowTypeOK
<1>2. locks' \in [1..counter -> Lock]
  BY <1>1 DEF set_timelock, EscrowTypeOK, Lock
<1> QED BY <1>1, <1>2 DEF set_timelock

\* A release marks one unreleased lock and pays its claimant; a lock that is
\* not revocable is released only at or after its unlock time.
LEMMA ReleaseEffect ==
    ASSUME EscrowTypeOK, Withdraw \/ Claim \/ Unbond
    PROVE  \E id \in 1..counter, payee \in Accounts :
             /\ ~locks[id].released
             /\ locks[id].revocable \/ now >= locks[id].unlock_time
             /\ locks' = [locks EXCEPT ![id].released = TRUE]
             /\ locks' \in [1..counter -> Lock]
             /\ counter' = counter
             /\ Transfer(locks[id].token, EscrowAddr, payee, locks[id].amount)
<1>1. PICK caller \in Accounts, id \in DOMAIN locks :
           withdraw(caller, id) \/ claim(caller, id) \/ unbond(caller, id)
  BY DEF Withdraw, Claim, Unbond
<1>2. id \in 1..counter /\ locks[id] \in Lock
  BY DEF EscrowTypeOK
<1>3. PICK payee \in {locks[id].depositor, locks[id].claimant} :
        /\ Release(id, payee)
        /\ ~locks[id].released
        /\ locks[id].revocable \/ now >= locks[id].unlock_time
  BY <1>1 DEF withdraw, claim, unbond, Unlocked
<1>4. payee \in Accounts
  BY <1>2, <1>3 DEF Lock
<1>5. locks' \in [1..counter -> Lock]
  BY <1>2, <1>3 DEF Release, EscrowTypeOK, Lock
<1> QED BY <1>2, <1>3, <1>4, <1>5 DEF Release

-------------------------------------------------------------------------------
(* Type correctness. *)

LEMMA TypeInit == EscrowInit => EscrowTypeOK
<1> SUFFICES ASSUME EscrowInit PROVE EscrowTypeOK
  OBVIOUS
<1>1. locks \in [1..counter -> Lock]
  BY DEF EscrowInit
<1> QED BY <1>1 DEF EscrowInit, EscrowTypeOK, Holders

LEMMA TypeStep ==
    EscrowTypeOK /\ [EscrowNext]_<<now, escrowVars>> => EscrowTypeOK'
<1> SUFFICES ASSUME EscrowTypeOK, [EscrowNext]_<<now, escrowVars>>
             PROVE  EscrowTypeOK'
  OBVIOUS
<1>1. CASE Deposit /\ UNCHANGED now
  <2> PICK from \in Accounts, claimant \in Accounts, t \in Tokens,
           amount \in 0..InitBalance, unlock_time \in 0..MaxTime,
           c \in Commitments, revocable \in BOOLEAN :
             deposit(from, t, amount, unlock_time, claimant, c, revocable)
    BY <1>1 DEF Deposit
  <2>1. balance' \in [Tokens -> [Holders -> Nat]]
    <3>1. Transfer(t, from, EscrowAddr, amount) /\ amount \in Nat
      BY DEF deposit
    <3> QED BY <3>1, TransferType DEF Holders
  <2> QED BY <1>1, <2>1, DepositEffect DEF EscrowTypeOK
<1>2. CASE SetTimelock /\ UNCHANGED now
  BY <1>2, SetTimelockEffect DEF EscrowTypeOK
<1>3. CASE (Withdraw \/ Claim \/ Unbond) /\ UNCHANGED now
  <2>1. PICK id \in 1..counter, payee \in Accounts :
             /\ locks' \in [1..counter -> Lock]
             /\ counter' = counter
             /\ Transfer(locks[id].token, EscrowAddr, payee, locks[id].amount)
    BY <1>3, ReleaseEffect
  <2>2. locks[id].token \in Tokens /\ locks[id].amount \in Nat
    BY DEF EscrowTypeOK, Lock
  <2>3. balance' \in [Tokens -> [Holders -> Nat]]
    BY <2>1, <2>2, TransferType DEF Holders
  <2> QED BY <1>3, <2>1, <2>3 DEF EscrowTypeOK
<1>4. CASE Tick /\ UNCHANGED escrowVars
  BY <1>4 DEF Tick, escrowVars, EscrowTypeOK
<1>5. CASE UNCHANGED <<now, escrowVars>>
  BY <1>5 DEF escrowVars, EscrowTypeOK
<1> QED BY <1>1, <1>2, <1>3, <1>4, <1>5 DEF EscrowNext, EscrowCall

(***************************************************************************)
(* Every reachable state of the escrow is well typed: balances never go    *)
(* negative and the lock ids in use are exactly 1..counter.                *)
(***************************************************************************)
THEOREM EscrowTypeCorrect == EscrowSpec => []EscrowTypeOK
BY TypeInit, TypeStep, PTL DEF EscrowSpec

-------------------------------------------------------------------------------
(* Funds stay until the unlock time. *)

LEMMA HeldStep ==
    EscrowTypeOK /\ HeldUntilUnlock /\ [EscrowNext]_<<now, escrowVars>>
        => HeldUntilUnlock'
<1> SUFFICES ASSUME EscrowTypeOK, HeldUntilUnlock,
                    [EscrowNext]_<<now, escrowVars>>
             PROVE  HeldUntilUnlock'
  OBVIOUS
<1>0. DOMAIN locks = 1..counter /\ counter \in Nat /\ now \in Nat
      /\ \A id \in 1..counter : locks[id] \in Lock
  BY DEF EscrowTypeOK
<1>1. CASE Deposit /\ UNCHANGED now
  <2>1. DOMAIN locks' = 1..(counter + 1)
    BY <1>1, DepositEffect
  <2> SUFFICES ASSUME NEW id \in 1..(counter + 1), locks'[id].released,
                      ~locks'[id].revocable
               PROVE  now' >= locks'[id].unlock_time
    BY <2>1 DEF HeldUntilUnlock
  <2>2. id \in 1..counter
    <3>1. locks'[counter + 1].released = FALSE
      BY <1>1, DepositEffect
    <3> QED BY <1>0, <3>1
  <2>3. locks'[id] = locks[id]
    BY <1>1, <2>2, DepositEffect
  <2> QED BY <1>0, <1>1, <2>2, <2>3 DEF HeldUntilUnlock
<1>2. CASE SetTimelock /\ UNCHANGED now
  <2>1. PICK id \in 1..counter, u \in Nat :
             /\ ~locks[id].released
             /\ locks' = [locks EXCEPT ![id].unlock_time = u]
    BY <1>2, SetTimelockEffect
  <2> QED BY <1>0, <1>2, <2>1 DEF HeldUntilUnlock, Lock
<1>3. CASE (Withdraw \/ Claim \/ Unbond) /\ UNCHANGED now
  <2>1. PICK id \in 1..counter :
             /\ locks[id].revocable \/ now >= locks[id].unlock_time
             /\ locks' = [locks EXCEPT ![id].released = TRUE]
    BY <1>3, ReleaseEffect
  <2> QED BY <1>0, <1>3, <2>1 DEF HeldUntilUnlock, Lock
<1>4. CASE Tick /\ UNCHANGED escrowVars
  BY <1>0, <1>4 DEF Tick, escrowVars, HeldUntilUnlock, Lock
<1>5. CASE UNCHANGED <<now, escrowVars>>
  BY <1>5 DEF escrowVars, HeldUntilUnlock
<1> QED BY <1>1, <1>2, <1>3, <1>4, <1>5 DEF EscrowNext, EscrowCall

(***************************************************************************)
(* A non-revocable lock is never released before its unlock time.          *)
(***************************************************************************)
THEOREM EscrowHolds == EscrowSpec => []HeldUntilUnlock
<1>1. EscrowInit => HeldUntilUnlock
  BY DEF EscrowInit, HeldUntilUnlock
<1> QED BY <1>1, HeldStep, EscrowTypeCorrect, PTL DEF EscrowSpec

-------------------------------------------------------------------------------
(* Every unreleased lock is backed. *)

\* n units of one lock are n.
LEMMA UnitsCount ==
    ASSUME NEW id, NEW n \in Nat
    PROVE  /\ IsFiniteSet({id} \X (1..n))
           /\ Cardinality({id} \X (1..n)) = n
<1>1. IsFiniteSet({id}) /\ Cardinality({id}) = 1
  BY FS_Singleton
<1>2. IsFiniteSet(1..n) /\ Cardinality(1..n) = n
  BY FS_Interval
<1>3. /\ IsFiniteSet({id} \X (1..n))
      /\ Cardinality({id} \X (1..n)) = Cardinality({id}) * Cardinality(1..n)
  BY <1>1, <1>2, FS_Product
<1> QED BY <1>1, <1>2, <1>3

\* Adding disjoint elements adds their number; removing elements subtracts it.
LEMMA CardinalityChange ==
    ASSUME NEW S, IsFiniteSet(S), NEW T, IsFiniteSet(T)
    PROVE  /\ IsFiniteSet(S \cup T) /\ IsFiniteSet(S \ T)
           /\ S \cap T = {} =>
                Cardinality(S \cup T) = Cardinality(S) + Cardinality(T)
           /\ T \subseteq S =>
                Cardinality(S \ T) = Cardinality(S) - Cardinality(T)
<1>1. Cardinality(S) \in Nat /\ Cardinality(T) \in Nat
  BY FS_CardinalityType
<1>2. /\ IsFiniteSet(S \cup T)
      /\ Cardinality(S \cup T) =
            Cardinality(S) + Cardinality(T) - Cardinality(S \cap T)
  BY FS_Union
<1>3. /\ IsFiniteSet(S \ T)
      /\ Cardinality(S \ T) = Cardinality(S) - Cardinality(S \cap T)
  BY FS_Difference
<1>4. Cardinality({}) = 0
  BY FS_EmptySet
<1>5. ASSUME S \cap T = {}
      PROVE  Cardinality(S \cup T) = Cardinality(S) + Cardinality(T)
  <2>1. Cardinality(S \cap T) = 0
    BY <1>4, <1>5
  <2> QED BY <1>1, <1>2, <2>1
<1>6. ASSUME T \subseteq S
      PROVE  Cardinality(S \ T) = Cardinality(S) - Cardinality(T)
  <2>1. S \cap T = T
    BY <1>6
  <2> QED BY <1>3, <2>1
<1> QED BY <1>2, <1>3, <1>5, <1>6

\* What a transfer into and out of the contract does to its own balances.
LEMMA EscrowBalance ==
    ASSUME EscrowTypeOK, NEW t \in Tokens, NEW a \in Accounts, NEW n \in Nat
    PROVE  /\ Transfer(t, a, EscrowAddr, n) =>
                \A s \in Tokens : balance'[s][EscrowAddr] =
                   balance[s][EscrowAddr] + (IF s = t THEN Credit(t, n) ELSE 0)
           /\ Transfer(t, EscrowAddr, a, n) =>
                \A s \in Tokens : balance'[s][EscrowAddr] =
                   balance[s][EscrowAddr] - (IF s = t THEN n ELSE 0)
<1>1. a # EscrowAddr /\ EscrowAddr \in Holders
      /\ \A s \in Tokens : balance[s][EscrowAddr] \in Nat
  BY DEF Holders, EscrowTypeOK
<1> QED BY <1>1 DEF Transfer, EscrowTypeOK

\* The inductive form of LocksBacked: the owed units are also finitely many.
Backed ==
    \A t \in Tokens : /\ IsFiniteSet(OwedUnits(t))
                      /\ Owed(t) <= balance[t][EscrowAddr]

\* A deposit owes exactly the units it received more.
LEMMA DepositBacked ==
    ASSUME EscrowTypeOK, Backed, Deposit
    PROVE  Backed'
<1> PICK from \in Accounts, claimant \in Accounts, t \in Tokens,
         amount \in 0..InitBalance, unlock_time \in 0..MaxTime,
         c \in Commitments, revocable \in BOOLEAN :
           deposit(from, t, amount, unlock_time, claimant, c, revocable)
  BY DEF Deposit
<1> PICK id : id = counter + 1
  OBVIOUS
<1> DEFINE r == Credit(t, amount)
<1>1. /\ DOMAIN locks = 1..counter /\ counter \in Nat
      /\ DOMAIN locks' = (1..counter) \cup {id}
      /\ \A i \in 1..counter : locks'[i] = locks[i]
  BY DepositEffect DEF EscrowTypeOK
<1>2. locks'[id].token = t /\ locks'[id].amount = r /\ ~locks'[id].released
  BY <1>1 DEF deposit, Put
<1>3. r \in Nat /\ amount \in Nat
  BY DEF Credit
<1>4. \A s \in Tokens : balance'[s][EscrowAddr] =
         balance[s][EscrowAddr] + (IF s = t THEN r ELSE 0)
  BY <1>3, EscrowBalance DEF deposit
<1> SUFFICES ASSUME NEW s \in Tokens
             PROVE  /\ IsFiniteSet(OwedUnits(s)')
                    /\ Owed(s)' <= balance'[s][EscrowAddr]
  BY DEF Backed
<1>5. /\ IsFiniteSet(OwedUnits(s)) /\ Cardinality(OwedUnits(s)) \in Nat
      /\ Cardinality(OwedUnits(s)) <= balance[s][EscrowAddr]
      /\ balance[s][EscrowAddr] \in Nat
  BY FS_CardinalityType DEF Backed, Owed, EscrowTypeOK, Holders
<1>6. CASE s # t
  <2>1. OpenLocks(s)' = OpenLocks(s)
    BY <1>1, <1>2, <1>6 DEF OpenLocks
  <2>2. \A i \in OpenLocks(s) : LockUnits(i)' = LockUnits(i)
    BY <1>1 DEF OpenLocks, LockUnits
  <2>3. OwedUnits(s)' = OwedUnits(s)
    BY <2>1, <2>2 DEF OwedUnits
  <2> QED BY <1>4, <1>5, <1>6, <2>3 DEF Owed
<1>7. CASE s = t
  <2>1. OpenLocks(s)' = OpenLocks(s) \cup {id}
    BY <1>1, <1>2, <1>7 DEF OpenLocks
  <2>2. \A i \in OpenLocks(s) : LockUnits(i)' = LockUnits(i)
    BY <1>1 DEF OpenLocks, LockUnits
  <2>3. LockUnits(id)' = {id} \X (1..r)
    BY <1>2 DEF LockUnits
  <2>4. OwedUnits(s)' = OwedUnits(s) \cup ({id} \X (1..r))
    BY <2>1, <2>2, <2>3 DEF OwedUnits
  <2>5. OwedUnits(s) \cap ({id} \X (1..r)) = {}
    BY <1>1 DEF OwedUnits, OpenLocks, LockUnits
  <2>6. IsFiniteSet({id} \X (1..r)) /\ Cardinality({id} \X (1..r)) = r
    BY <1>3, UnitsCount
  <2>7. /\ IsFiniteSet(OwedUnits(s)')
        /\ Cardinality(OwedUnits(s)') = Cardinality(OwedUnits(s)) + r
    BY <1>5, <2>4, <2>5, <2>6, CardinalityChange
  <2> QED BY <1>3, <1>4, <1>5, <1>7, <2>7 DEF Owed
<1> QED BY <1>6, <1>7

\* A release pays exactly the units it stops owing.
LEMMA ReleaseBacked ==
    ASSUME EscrowTypeOK, Backed, Withdraw \/ Claim \/ Unbond
    PROVE  Backed'
<1>1. PICK id \in 1..counter, payee \in Accounts :
        /\ ~locks[id].released
        /\ locks' = [locks EXCEPT ![id].released = TRUE]
        /\ Transfer(locks[id].token, EscrowAddr, payee, locks[id].amount)
  BY ReleaseEffect
<1> DEFINE t == locks[id].token
           n == locks[id].amount
<1>2. /\ DOMAIN locks = 1..counter /\ DOMAIN locks' = 1..counter
      /\ t \in Tokens /\ n \in Nat
      /\ \A i \in 1..counter : locks'[i].token = locks[i].token
                               /\ locks'[i].amount = locks[i].amount
      /\ \A i \in (1..counter) \ {id} : locks'[i] = locks[i]
      /\ locks'[id].released
  BY <1>1 DEF EscrowTypeOK, Lock
<1>3. \A s \in Tokens : balance'[s][EscrowAddr] =
         balance[s][EscrowAddr] - (IF s = t THEN n ELSE 0)
  BY <1>1, <1>2, EscrowBalance
<1> SUFFICES ASSUME NEW s \in Tokens
             PROVE  /\ IsFiniteSet(OwedUnits(s)')
                    /\ Owed(s)' <= balance'[s][EscrowAddr]
  BY DEF Backed
<1>4. /\ IsFiniteSet(OwedUnits(s)) /\ Cardinality(OwedUnits(s)) \in Nat
      /\ Cardinality(OwedUnits(s)) <= balance[s][EscrowAddr]
      /\ balance[s][EscrowAddr] \in Nat
  BY FS_CardinalityType DEF Backed, Owed, EscrowTypeOK, Holders
<1>5. \A i \in 1..counter : LockUnits(i)' = LockUnits(i)
  BY <1>2 DEF LockUnits
<1>6. CASE s # t
  <2>1. OpenLocks(s)' = OpenLocks(s)
    BY <1>1, <1>2, <1>6 DEF OpenLocks
  <2>2. OwedUnits(s)' = OwedUnits(s)
    BY <1>2, <1>5, <2>1 DEF OwedUnits, OpenLocks
  <2> QED BY <1>3, <1>4, <1>6, <2>2 DEF Owed
<1>7. CASE s = t
  <2>1. OpenLocks(s)' = OpenLocks(s) \ {id} /\ id \in OpenLocks(s)
    BY <1>1, <1>2, <1>7 DEF OpenLocks
  <2>2. \A i \in OpenLocks(s) : i # id => LockUnits(i) \cap LockUnits(id) = {}
    BY DEF LockUnits
  <2>3. OwedUnits(s)' = OwedUnits(s) \ LockUnits(id)
    BY <1>2, <1>5, <2>1, <2>2 DEF OwedUnits, OpenLocks
  <2>4. LockUnits(id) \subseteq OwedUnits(s)
    BY <2>1 DEF OwedUnits
  <2>5. IsFiniteSet(LockUnits(id)) /\ Cardinality(LockUnits(id)) = n
    BY <1>2, UnitsCount DEF LockUnits
  <2>6. /\ IsFiniteSet(OwedUnits(s)')
        /\ Cardinality(OwedUnits(s)') = Cardinality(OwedUnits(s)) - n
    BY <1>4, <2>3, <2>4, <2>5, CardinalityChange
  <2> QED BY <1>2, <1>3, <1>4, <1>7, <2>6 DEF Owed
<1> QED BY <1>6, <1>7

LEMMA BackedStep ==
    EscrowTypeOK /\ Backed /\ [EscrowNext]_<<now, escrowVars>> => Backed'
<1> SUFFICES ASSUME EscrowTypeOK, Backed, [EscrowNext]_<<now, escrowVars>>
             PROVE  Backed'
  OBVIOUS
<1>1. CASE SetTimelock
  <2>1. PICK id \in 1..counter, u \in Nat :
             /\ locks' = [locks EXCEPT ![id].unlock_time = u]
             /\ UNCHANGED <<balance, counter>>
    BY <1>1, SetTimelockEffect
  <2>2. /\ DOMAIN locks' = DOMAIN locks
        /\ \A i \in DOMAIN locks : /\ locks'[i].token = locks[i].token
                                   /\ locks'[i].amount = locks[i].amount
                                   /\ locks'[i].released = locks[i].released
    BY <2>1 DEF EscrowTypeOK, Lock
  <2>3. \A t \in Tokens : OwedUnits(t)' = OwedUnits(t)
    BY <2>2 DEF OwedUnits, OpenLocks, LockUnits
  <2> QED BY <2>1, <2>3 DEF Backed, Owed
<1>2. CASE UNCHANGED escrowVars
  <2>1. \A t \in Tokens : OwedUnits(t)' = OwedUnits(t)
    BY <1>2 DEF escrowVars, OwedUnits, OpenLocks, LockUnits
  <2> QED BY <1>2, <2>1 DEF escrowVars, Backed, Owed
<1> QED BY <1>1, <1>2, DepositBacked, ReleaseBacked DEF EscrowNext, EscrowCall

(***************************************************************************)
(* The escrow always holds at least what its unreleased locks record, for  *)
(* every token, whatever fee the token keeps of a transfer.                *)
(***************************************************************************)
THEOREM EscrowBacked == EscrowSpec => []LocksBacked
<1>1. EscrowInit => Backed
  <2> SUFFICES ASSUME EscrowInit PROVE Backed
    OBVIOUS
  <2>1. \A t \in Tokens : OwedUnits(t) = {} /\ balance[t][EscrowAddr] = 0
    BY DEF EscrowInit, OwedUnits, OpenLocks, Holders
  <2> QED BY <2>1, FS_EmptySet DEF Backed, Owed
<1>2. Backed => LocksBacked
  BY DEF Backed, LocksBacked
<1> QED BY <1>1, <1>2, BackedStep, EscrowTypeCorrect, PTL DEF EscrowSpec

-------------------------------------------------------------------------------
(* A lock never gets weaker. *)

Stronger ==
    \A id \in DOMAIN locks :
        /\ id \in DOMAIN locks'
        /\ Terms(locks'[id]) = Terms(locks[id])
        /\ locks'[id].unlock_time >= locks[id].unlock_time
        /\ locks[id].released => locks'[id].released

LEMMA StrongerStep ==
    EscrowTypeOK /\ [EscrowNext]_<<now, escrowVars>> => Stronger
<1> SUFFICES ASSUME EscrowTypeOK, [EscrowNext]_<<now, escrowVars>>
             PROVE  Stronger
  OBVIOUS
<1>0. DOMAIN locks = 1..counter /\ \A id \in 1..counter : locks[id] \in Lock
  BY DEF EscrowTypeOK
<1>1. CASE \A id \in 1..counter : id \in DOMAIN locks' /\ locks'[id] = locks[id]
  BY <1>0, <1>1 DEF Lock, Terms, Stronger
<1>2. CASE Deposit
  <2>1. \A id \in 1..counter : id \in DOMAIN locks' /\ locks'[id] = locks[id]
    BY <1>2, DepositEffect
  <2> QED BY <1>1, <2>1
<1>3. CASE SetTimelock
  <2>1. PICK id \in 1..counter, u \in Nat :
           /\ u > locks[id].unlock_time
           /\ locks' = [locks EXCEPT ![id].unlock_time = u]
    BY <1>3, SetTimelockEffect
  <2> QED BY <1>0, <2>1 DEF Lock, Terms, Stronger
<1>4. CASE Withdraw \/ Claim \/ Unbond
  <2>1. PICK id \in 1..counter :
           locks' = [locks EXCEPT ![id].released = TRUE]
    BY <1>4, ReleaseEffect
  <2> QED BY <1>0, <2>1 DEF Lock, Terms, Stronger
<1>5. CASE UNCHANGED escrowVars
  BY <1>0, <1>1, <1>5 DEF escrowVars
<1> QED BY <1>2, <1>3, <1>4, <1>5 DEF EscrowNext, EscrowCall

(***************************************************************************)
(* No step of the escrow weakens a lock anyone has seen: it stays, with    *)
(* its terms, never unlocks earlier and never becomes unreleased again.    *)
(***************************************************************************)
THEOREM EscrowNeverWeakens == EscrowSpec => LockOnlyStrengthens
<1>1. Stronger => [Stronger]_<<now, escrowVars>>
  OBVIOUS
<1> QED BY <1>1, StrongerStep, EscrowTypeCorrect, PTL
        DEF EscrowSpec, LockOnlyStrengthens, Stronger

-------------------------------------------------------------------------------
(* A release pays the claimant and nobody else. *)

\* Only the claimant can be the payee of an early exit.
RevocableIsSelf ==
    \A id \in DOMAIN locks :
        locks[id].revocable => locks[id].claimant = locks[id].depositor

LEMMA RevocableStep ==
    EscrowTypeOK /\ RevocableIsSelf /\ [EscrowNext]_<<now, escrowVars>>
        => RevocableIsSelf'
<1> SUFFICES ASSUME EscrowTypeOK, RevocableIsSelf,
                    [EscrowNext]_<<now, escrowVars>>
             PROVE  RevocableIsSelf'
  OBVIOUS
<1>0. DOMAIN locks = 1..counter /\ counter \in Nat
      /\ \A id \in 1..counter : locks[id] \in Lock
  BY DEF EscrowTypeOK
<1>1. CASE Deposit
  <2>1. PICK from \in Accounts, claimant \in Accounts, t \in Tokens,
             amount \in 0..InitBalance, unlock_time \in 0..MaxTime,
             c \in Commitments, revocable \in BOOLEAN :
               deposit(from, t, amount, unlock_time, claimant, c, revocable)
    BY <1>1 DEF Deposit
  <2>2. /\ DOMAIN locks' = 1..(counter + 1)
        /\ \A id \in 1..counter : locks'[id] = locks[id]
    BY <1>1, DepositEffect
  <2>3. locks'[counter + 1].revocable =>
          locks'[counter + 1].claimant = locks'[counter + 1].depositor
    BY <1>0, <2>1 DEF deposit, Put
  <2> SUFFICES ASSUME NEW id \in 1..(counter + 1), locks'[id].revocable
               PROVE  locks'[id].claimant = locks'[id].depositor
    BY <2>2 DEF RevocableIsSelf
  <2>4. CASE id = counter + 1
    BY <2>3, <2>4
  <2>5. CASE id \in 1..counter
    BY <1>0, <2>2, <2>5 DEF RevocableIsSelf
  <2> QED BY <1>0, <2>4, <2>5
<1>2. CASE ~Deposit
  <2>1. Stronger
    BY StrongerStep
  <2>2. EscrowTypeOK' /\ counter' = counter
    <3>1. EscrowTypeOK'
      BY TypeStep
    <3>2. counter' = counter
      BY <1>2, SetTimelockEffect, ReleaseEffect
         DEF EscrowNext, EscrowCall, escrowVars
    <3> QED BY <3>1, <3>2
  <2> SUFFICES ASSUME NEW id \in 1..counter, locks'[id].revocable
               PROVE  locks'[id].claimant = locks'[id].depositor
    BY <2>2 DEF EscrowTypeOK, RevocableIsSelf
  <2>3. Terms(locks'[id]) = Terms(locks[id])
    BY <1>0, <2>1 DEF Stronger
  <2> QED BY <1>0, <2>3 DEF Terms, RevocableIsSelf
<1> QED BY <1>1, <1>2

\* The three calls that release a lock, seen by the accounts.
LEMMA PaysClaimant ==
    ASSUME EscrowTypeOK, RevocableIsSelf, Withdraw \/ Claim \/ Unbond
    PROVE  \E id \in 1..counter :
             /\ locks' = [locks EXCEPT ![id].released = TRUE]
             /\ Transfer(locks[id].token, EscrowAddr, locks[id].claimant,
                         locks[id].amount)
<1>1. PICK caller \in Accounts, id \in DOMAIN locks :
           withdraw(caller, id) \/ claim(caller, id) \/ unbond(caller, id)
  BY DEF Withdraw, Claim, Unbond
<1>2. Release(id, locks[id].claimant)
  BY <1>1 DEF withdraw, claim, unbond, RevocableIsSelf
<1> QED BY <1>1, <1>2 DEF Release, EscrowTypeOK

PaidRight ==
    \A id \in DOMAIN locks :
        ~locks[id].released /\ locks'[id].released =>
            LET t == locks[id].token IN
            \A a \in Accounts :
               balance'[t][a] = balance[t][a] +
                  (IF a = locks[id].claimant
                   THEN Credit(t, locks[id].amount) ELSE 0)

LEMMA PaidRightStep ==
    ASSUME EscrowTypeOK, RevocableIsSelf, [EscrowNext]_<<now, escrowVars>>
    PROVE  PaidRight
<1>0. DOMAIN locks = 1..counter /\ counter \in Nat
      /\ \A id \in 1..counter : locks[id] \in Lock
  BY DEF EscrowTypeOK
<1> SUFFICES ASSUME NEW id \in 1..counter,
                    ~locks[id].released, locks'[id].released,
                    NEW a \in Accounts
             PROVE  balance'[locks[id].token][a] = balance[locks[id].token][a] +
                       (IF a = locks[id].claimant
                        THEN Credit(locks[id].token, locks[id].amount) ELSE 0)
  BY <1>0 DEF PaidRight
<1>1. Withdraw \/ Claim \/ Unbond
  <2>1. CASE Deposit
    <3>1. locks'[id] = locks[id]
      BY <2>1, DepositEffect
    <3> QED BY <3>1
  <2>2. CASE SetTimelock
    <3>1. PICK l \in 1..counter, u \in Nat :
             locks' = [locks EXCEPT ![l].unlock_time = u]
      BY <2>2, SetTimelockEffect
    <3>2. locks'[id].released = locks[id].released
      BY <1>0, <3>1 DEF Lock
    <3> QED BY <3>2
  <2>3. CASE UNCHANGED escrowVars
    BY <2>3 DEF escrowVars
  <2> QED BY <2>1, <2>2, <2>3 DEF EscrowNext, EscrowCall, escrowVars
<1>2. PICK l \in 1..counter :
        /\ locks' = [locks EXCEPT ![l].released = TRUE]
        /\ Transfer(locks[l].token, EscrowAddr, locks[l].claimant,
                    locks[l].amount)
  BY <1>1, PaysClaimant
<1>3. l = id
  BY <1>0, <1>2 DEF Lock
<1>4. /\ locks[id].token \in Tokens /\ locks[id].claimant \in Accounts
      /\ a \in Holders /\ a # EscrowAddr
  BY <1>0, EscrowAssumption DEF Lock, Holders
<1>5. balance[locks[id].token][a] \in Nat
  BY <1>4 DEF EscrowTypeOK
<1>6. balance'[locks[id].token][a] =
        CASE a = EscrowAddr -> balance[locks[id].token][a] - locks[id].amount
          [] a = locks[id].claimant ->
               balance[locks[id].token][a] + Credit(locks[id].token, locks[id].amount)
          [] OTHER -> balance[locks[id].token][a]
  BY <1>2, <1>3, <1>4 DEF Transfer, EscrowTypeOK
<1> QED BY <1>4, <1>5, <1>6

(***************************************************************************)
(* Whichever call releases a lock, its claimant is paid what the token     *)
(* credits, and no other account's balance of that token moves.            *)
(***************************************************************************)
THEOREM ReleasesPayClaimants == EscrowSpec => ReleasePaysClaimant
<1>1. EscrowInit => RevocableIsSelf
  BY DEF EscrowInit, RevocableIsSelf
<1>2. EscrowTypeOK /\ RevocableIsSelf /\ [EscrowNext]_<<now, escrowVars>>
        => [PaidRight]_<<now, escrowVars>>
  BY PaidRightStep
<1> QED BY <1>1, <1>2, RevocableStep, EscrowTypeCorrect, PTL
        DEF EscrowSpec, ReleasePaysClaimant, PaidRight

===============================================================================
