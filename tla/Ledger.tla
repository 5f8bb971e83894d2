-------------------------------- MODULE Ledger --------------------------------
(***************************************************************************)
(* What every zkorage contract sees of the Stellar ledger it runs on: the  *)
(* close time that env.ledger().timestamp() returns, and key-value         *)
(* storage.  Contract calls are transactions: each is one atomic step that *)
(* either applies completely or, on any error, changes nothing.            *)
(***************************************************************************)
EXTENDS Naturals

CONSTANT MaxTime    \* bound: the last ledger time a behaviour reaches

ASSUME MaxTimeAssumption == MaxTime \in Nat

VARIABLE now        \* ledger close time, unix seconds

(***************************************************************************)
(* The ledger closes with a later timestamp.                               *)
(***************************************************************************)
Tick ==
    /\ now < MaxTime
    /\ now' = now + 1

(***************************************************************************)
(* storage.set(key, value), storage.remove(key): a store is a function     *)
(* whose domain is the set of keys present.                                *)
(***************************************************************************)
Put(store, key, value) ==
    [k \in DOMAIN store \cup {key} |-> IF k = key THEN value ELSE store[k]]

Remove(store, key) ==
    [k \in DOMAIN store \ {key} |-> store[k]]

(***************************************************************************)
(* A store with no keys.                                                   *)
(***************************************************************************)
Empty == [k \in {} |-> k]

===============================================================================
