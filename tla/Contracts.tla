------------------------------- MODULE Contracts -------------------------------
(***************************************************************************)
(* The contracts that are used alone or next to one another, each in the   *)
(* company it reads from.  A behaviour has one deployment; a call to a     *)
(* contract that is not part of it fails.                                  *)
(***************************************************************************)
EXTENDS Fundraise, SolvencyGate, TierGate, SealedDocuments

CONSTANT Deployments    \* [contracts, funds]: the contracts deployed together,
                        \* and what each account then holds of each token

ASSUME ContractsAssumption ==
    \A d \in Deployments : d.funds \in [Tokens -> Nat]

vars == <<now, attestationVars, credentialVars, fundraiseVars, escrowVars,
          reserveVars, solvencyVars, tierVars, sealedVars>>

Init ==
    /\ \E d \in Deployments :
          /\ deployed = d.contracts
          /\ balance = [t \in Tokens |-> [h \in Holders |->
                           IF h = EscrowAddr THEN 0 ELSE d.funds[t]]]
    /\ now = 0
    /\ counter = 0
    /\ locks = Empty
    /\ AttestationInit
    /\ CredentialInit
    /\ FundraiseInit
    /\ ReservesInit
    /\ SolvencyInit
    /\ TierInit
    /\ SealedInit

IssuersChange ==
    /\ \E c \in Listing, k \in Issuers : add_issuer(c, k) \/ remove_issuer(c, k)
    /\ UNCHANGED deployed

Next ==
    \/ /\ "escrow" \in deployed
       /\ EscrowCall
       /\ UNCHANGED <<now, attestationVars, credentialVars, fundraiseVars,
                      reserveVars, solvencyVars, tierVars, sealedVars>>
    \/ /\ IssuersChange
       /\ UNCHANGED <<now, credentialVars, fundraiseVars, escrowVars,
                      reserveVars, solvencyVars, tierVars, sealedVars>>
    \/ /\ CredentialCall
       /\ UNCHANGED <<now, fundraiseVars, escrowVars, reserveVars,
                      solvencyVars, tierVars, sealedVars>>
    \/ /\ FundraiseCall
       /\ UNCHANGED <<now, escrowVars, reserveVars, solvencyVars, tierVars,
                      sealedVars>>
    \/ /\ ReservesCall
       /\ UNCHANGED <<now, credentialVars, fundraiseVars, escrowVars,
                      solvencyVars, tierVars, sealedVars>>
    \/ /\ SolvencyCall
       /\ UNCHANGED <<now, credentialVars, fundraiseVars, tierVars, sealedVars>>
    \/ /\ TierCall
       /\ UNCHANGED <<now, credentialVars, fundraiseVars, reserveVars,
                      solvencyVars, sealedVars>>
    \/ /\ RoomCall
       /\ UNCHANGED <<now, credentialVars, fundraiseVars, escrowVars,
                      reserveVars, solvencyVars, tierVars>>
    \/ /\ Tick
       /\ UNCHANGED <<attestationVars, credentialVars, fundraiseVars,
                      escrowVars, reserveVars, solvencyVars, tierVars,
                      sealedVars>>

Spec == Init /\ [][Next]_vars

===============================================================================
