--------------------------- MODULE KeyReleaseProofs ---------------------------
(***************************************************************************)
(* Proofs about KeyRelease and the reader over it: the composed system     *)
(* keeps its types, behaves towards the data room as any owner and any     *)
(* member may, and withholds a new key from whoever has been barred from   *)
(* the document since; a keyper loses its share of an anchored key only by *)
(* overwriting it; and a reader with two shares in hand misses the key     *)
(* only if one of the two keypers did so.                                  *)
(***************************************************************************)
EXTENDS CommitteeReader, DataRoomProofs

-------------------------------------------------------------------------------
(* The invariant.  Every share, request and release carries a key of its   *)
(* own document.  A key's document is set once, so the history barred of a *)
(* key somebody holds only shrinks; a request that passed the chain check  *)
(* left it then.                                                           *)

ShareTypeOK ==
    /\ share \in [Keypers -> [DocIds -> Keys \cup {None}]]
    /\ disk \in [Keypers -> [DocIds -> Keys \cup {None}]]
    /\ displaced \subseteq Keypers \X Keys

DealTypeOK ==
    /\ dealer \in [Dealers -> Job \cup {None}]
    /\ mail \subseteq Deal
    /\ dealt_for \in [Keys -> DocIds \cup {None}]
    /\ degraded \subseteq DocIds

AskTypeOK == asks \subseteq Ask /\ released \subseteq Release

SharesOwn ==
    \A k \in Keypers, doc \in DocIds :
        /\ share[k][doc] # None => dealt_for[share[k][doc]] = doc
        /\ disk[k][doc] # None => dealt_for[disk[k][doc]] = doc

DealsOwn ==
    /\ \A j \in Dealers :
          dealer[j] # None => dealt_for[dealer[j].key] = dealer[j].doc
    /\ \A m \in mail : dealt_for[m.key] = m.doc

AsksOwn ==
    \A q \in asks :
        /\ dealt_for[q.key] = q.doc
        /\ q.stage = "admitted" => q.accessor \notin barred[q.key]

ReleasesOwn ==
    \A s \in released :
        /\ dealt_for[s.key] = s.doc
        /\ s.accessor \notin barred[s.key]

-------------------------------------------------------------------------------
(* The keypers' shares. *)

\* A keyper stores the share of a key of the document, flushed or not.
LEMMA PutShareOwn ==
    ASSUME ShareTypeOK, SharesOwn,
           NEW k \in Keypers, NEW doc \in DocIds, NEW key \in Keys,
           dealt_for[key] = doc, UNCHANGED dealt_for,
           PutShare(k, doc, key),
           Flush(k) \/ UNCHANGED disk
    PROVE  ShareTypeOK' /\ SharesOwn'
<1>1. share' = [share EXCEPT ![k] = [share[k] EXCEPT ![doc] = key]]
  BY DEF PutShare
<1>2. [share[k] EXCEPT ![doc] = key] \in [DocIds -> Keys \cup {None}]
  BY DEF ShareTypeOK
<1>3. share' \in [Keypers -> [DocIds -> Keys \cup {None}]]
  BY <1>1, <1>2 DEF ShareTypeOK
<1>4. disk' \in [Keypers -> [DocIds -> Keys \cup {None}]]
  BY <1>3 DEF Flush, ShareTypeOK
<1>0. displaced' \subseteq Keypers \X Keys
  <2>1. share[k][doc] \in Keys \cup {None}
    BY DEF ShareTypeOK
  <2>2. {<<k, share[k][doc]>>} \ {<<k, None>>, <<k, key>>} \subseteq Keypers \X Keys
    BY <2>1
  <2> QED BY <2>2 DEF PutShare, ShareTypeOK
<1>5. ASSUME NEW l \in Keypers, NEW d \in DocIds, share'[l][d] # None
      PROVE  dealt_for'[share'[l][d]] = d
  <2>1. CASE l = k /\ d = doc
    <3>1. share'[l][d] = key
      BY <1>1, <2>1 DEF ShareTypeOK
    <3> QED BY <2>1, <3>1
  <2>2. CASE ~(l = k /\ d = doc)
    <3>1. share'[l][d] = share[l][d]
      BY <1>1, <2>2 DEF ShareTypeOK
    <3> QED BY <1>5, <3>1 DEF SharesOwn
  <2> QED BY <2>1, <2>2
<1>6. ASSUME NEW l \in Keypers, NEW d \in DocIds, disk'[l][d] # None
      PROVE  dealt_for'[disk'[l][d]] = d
  <2>1. disk'[l][d] = share'[l][d] \/ disk'[l][d] = disk[l][d]
    BY DEF Flush, ShareTypeOK
  <2> QED BY <1>5, <1>6, <2>1 DEF SharesOwn
<1> QED BY <1>0, <1>3, <1>4, <1>5, <1>6 DEF ShareTypeOK, SharesOwn

\* What stays true of shares nobody touches while keys keep their documents.
LEMMA SharesKept ==
    ASSUME ShareTypeOK, SharesOwn, None \notin DocIds,
           UNCHANGED <<share, disk, displaced>>,
           \A key \in Keys : dealt_for[key] # None => dealt_for'[key] = dealt_for[key]
    PROVE  ShareTypeOK' /\ SharesOwn'
<1>1. ShareTypeOK'
  BY DEF ShareTypeOK
<1>2. ASSUME NEW k \in Keypers, NEW doc \in DocIds
      PROVE  /\ share'[k][doc] # None => dealt_for'[share'[k][doc]] = doc
             /\ disk'[k][doc] # None => dealt_for'[disk'[k][doc]] = doc
  <2>1. share[k][doc] \in Keys \cup {None} /\ disk[k][doc] \in Keys \cup {None}
    BY DEF ShareTypeOK
  <2>2. /\ share[k][doc] # None => dealt_for[share[k][doc]] = doc
        /\ disk[k][doc] # None => dealt_for[disk[k][doc]] = doc
    BY DEF SharesOwn
  <2> QED BY <2>1, <2>2
<1> QED BY <1>1, <1>2 DEF SharesOwn

-------------------------------------------------------------------------------
(* The dealing requests. *)

\* A request that is still there is about the same document and key.
SameDeals ==
    \A j \in Dealers :
        dealer'[j] # None => /\ dealer[j] # None
                             /\ dealer'[j].doc = dealer[j].doc
                             /\ dealer'[j].key = dealer[j].key

LEMMA ReplySame ==
    ASSUME DealTypeOK, NEW j \in Dealers, NEW k \in Keypers,
           NEW outcome \in {"ok", "failed"},
           dealer[j] # None, Reply(j, k, outcome)
    PROVE  dealer' \in [Dealers -> Job \cup {None}] /\ SameDeals
<1> DEFINE job == [dealer[j] EXCEPT !.reply = [dealer[j].reply EXCEPT ![k] = outcome]]
<1>1. dealer[j] \in Job
  BY DEF DealTypeOK
<1>2. job \in Job /\ job.doc = dealer[j].doc /\ job.key = dealer[j].key
  BY <1>1 DEF Job
<1>3. dealer' = [dealer EXCEPT ![j] = job]
  BY DEF Reply
<1> HIDE DEF job
<1> QED BY <1>2, <1>3 DEF DealTypeOK, SameDeals

LEMMA StageSame ==
    ASSUME DealTypeOK, NEW j \in Dealers, NEW stage \in {"dealing", "anchoring"},
           dealer[j] # None, dealer' = [dealer EXCEPT ![j].stage = stage]
    PROVE  dealer' \in [Dealers -> Job \cup {None}] /\ SameDeals
<1> DEFINE job == [dealer[j] EXCEPT !.stage = stage]
<1>1. dealer[j] \in Job
  BY DEF DealTypeOK
<1>2. job \in Job /\ job.doc = dealer[j].doc /\ job.key = dealer[j].key
  BY <1>1 DEF Job
<1>3. dealer' = [dealer EXCEPT ![j] = job]
  OBVIOUS
<1> HIDE DEF job
<1> QED BY <1>2, <1>3 DEF DealTypeOK, SameDeals

LEMMA EndSame ==
    ASSUME DealTypeOK, NEW j \in Dealers, dealer' = [dealer EXCEPT ![j] = None]
    PROVE  dealer' \in [Dealers -> Job \cup {None}] /\ SameDeals
BY DEF DealTypeOK, SameDeals

LEMMA DealsKept ==
    ASSUME DealTypeOK, DealsOwn, UNCHANGED dealt_for,
           dealer' \in [Dealers -> Job \cup {None}] /\ SameDeals,
           mail' \subseteq mail
    PROVE  DealsOwn'
BY DEF DealTypeOK, DealsOwn, SameDeals

-------------------------------------------------------------------------------
(* Every action of the dealing routes. *)

\* What the dealing routes keep: everything but the history barred.
DealInv ==
    /\ ShareTypeOK /\ DealTypeOK
    /\ SharesOwn /\ DealsOwn

\* A key that was made keeps its document.
KeysKept ==
    \A key \in Keys : dealt_for[key] # None => dealt_for'[key] = dealt_for[key]

LEMMA NoneNoDoc == None \notin DocIds /\ None \notin Keys
BY KeyReleaseAssumption DEF DocIds

LEMMA StartDealStep ==
    ASSUME DealInv, NEW j \in Dealers, StartDeal(j)
    PROVE  DealInv' /\ KeysKept
<1>1. PICK kind \in Kinds, doc \in DocIds, key \in Keys :
        /\ dealt_for[key] = None
        /\ dealer' = [dealer EXCEPT ![j] =
              [kind |-> kind, doc |-> doc, key |-> key, stage |-> "uploading",
               reply |-> [k \in Keypers |-> "none"]]]
        /\ dealt_for' = [dealt_for EXCEPT ![key] = doc]
        /\ UNCHANGED <<share, disk, displaced, mail, degraded>>
  BY DEF StartDeal, keyperVars, storeVars
<1> DEFINE job == [kind |-> kind, doc |-> doc, key |-> key, stage |-> "uploading",
                   reply |-> [k \in Keypers |-> "none"]]
<1>2. job \in Job /\ job.doc = doc /\ job.key = key
  BY DEF Job
<1>3. dealer' = [dealer EXCEPT ![j] = job]
  BY <1>1
<1> HIDE DEF job
<1>4. KeysKept /\ dealt_for' \in [Keys -> DocIds \cup {None}]
  BY <1>1 DEF DealInv, DealTypeOK, KeysKept
<1>5. ShareTypeOK' /\ SharesOwn'
  BY <1>1, <1>4, NoneNoDoc, SharesKept DEF DealInv, KeysKept
<1>6. DealTypeOK'
  BY <1>1, <1>2, <1>3, <1>4 DEF DealInv, DealTypeOK
<1>7. ASSUME NEW i \in Dealers, dealer'[i] # None
      PROVE  dealt_for'[dealer'[i].key] = dealer'[i].doc
  <2>1. CASE i = j
    <3>1. dealer'[i] = job
      BY <1>3, <2>1 DEF DealInv, DealTypeOK
    <3> QED BY <1>1, <1>2, <3>1 DEF DealInv, DealTypeOK
  <2>2. CASE i # j
    <3>1. dealer'[i] = dealer[i] /\ dealer[i] \in Job
      BY <1>3, <1>7, <2>2 DEF DealInv, DealTypeOK
    <3>2. dealt_for[dealer[i].key] = dealer[i].doc
      BY <1>7, <3>1 DEF DealInv, DealsOwn
    <3>3. dealer[i].key \in Keys /\ dealer[i].doc # None
      BY <3>1, NoneNoDoc DEF Job
    <3> QED BY <1>4, <3>1, <3>2, <3>3 DEF KeysKept
  <2> QED BY <2>1, <2>2
<1>8. ASSUME NEW m \in mail'
      PROVE  dealt_for'[m.key] = m.doc
  <2>1. m \in mail /\ m \in Deal
    BY <1>1 DEF DealInv, DealTypeOK
  <2>2. dealt_for[m.key] = m.doc /\ m.key \in Keys /\ m.doc # None
    BY <2>1, NoneNoDoc DEF DealInv, DealsOwn, Deal
  <2> QED BY <1>4, <2>2 DEF KeysKept
<1> QED BY <1>4, <1>5, <1>6, <1>7, <1>8 DEF DealInv, DealsOwn

LEMMA SendDealsStep ==
    ASSUME DealInv, NEW j \in Dealers, SendDeals(j)
    PROVE  DealInv' /\ KeysKept
<1> DEFINE new == {[to |-> k, doc |-> dealer[j].doc, key |-> dealer[j].key] :
                     k \in Keypers}
<1>1. /\ dealer[j] # None
      /\ dealer' = [dealer EXCEPT ![j].stage = "dealing"]
      /\ mail' = mail \cup new
      /\ UNCHANGED <<share, disk, displaced, dealt_for, degraded>>
  BY DEF SendDeals, keyperVars, storeVars
<1>2. dealer' \in [Dealers -> Job \cup {None}] /\ SameDeals
  BY <1>1, StageSame DEF DealInv
<1>3. dealer[j] \in Job
  BY <1>1 DEF DealInv, DealTypeOK
<1>4. \A m \in new : m \in Deal /\ m.doc = dealer[j].doc /\ m.key = dealer[j].key
  BY <1>3 DEF Job, Deal
<1>5. ShareTypeOK' /\ SharesOwn'
  BY <1>1, NoneNoDoc, SharesKept DEF DealInv
<1> HIDE DEF new
<1>6. DealTypeOK'
  BY <1>1, <1>2, <1>4 DEF DealInv, DealTypeOK
<1>7. \A m \in new : dealt_for[m.key] = m.doc
  BY <1>1, <1>4 DEF DealInv, DealsOwn
<1>8. DealsOwn'
  BY <1>1, <1>2, <1>7 DEF DealInv, DealsOwn, SameDeals
<1> QED BY <1>1, <1>5, <1>6, <1>8 DEF DealInv, KeysKept

\* The end of a dealing step that makes no key: shares and requests checked
\* apart.
LEMMA DealInvNext ==
    ASSUME DealInv, UNCHANGED dealt_for, degraded' \subseteq DocIds,
           ShareTypeOK' /\ SharesOwn',
           dealer' \in [Dealers -> Job \cup {None}] /\ SameDeals,
           mail' \subseteq mail
    PROVE  DealInv' /\ KeysKept
<1>1. DealsOwn'
  BY DealsKept DEF DealInv
<1>2. DealTypeOK'
  BY DEF DealInv, DealTypeOK
<1> QED BY <1>1, <1>2 DEF DealInv, KeysKept

LEMMA StoreShareStep ==
    ASSUME DealInv, NEW m \in mail, StoreShare(m)
    PROVE  DealInv' /\ KeysKept
<1>1. /\ m.to \in Keypers /\ m.doc \in DocIds /\ m.key \in Keys
      /\ dealt_for[m.key] = m.doc
  BY DEF DealInv, DealTypeOK, DealsOwn, Deal
<1>2. PICK outcome \in {"ok", "failed"} :
        /\ IF outcome = "ok" THEN Flush(m.to) ELSE UNCHANGED disk
        /\ \/ \E j \in Dealers : Waits(j, m.to, m.key) /\ Reply(j, m.to, outcome)
           \/ UNCHANGED dealer
  BY DEF StoreShare
<1>3. /\ PutShare(m.to, m.doc, m.key)
      /\ mail' \subseteq mail
      /\ UNCHANGED <<dealt_for, degraded>>
  BY DEF StoreShare
<1>4. ShareTypeOK' /\ SharesOwn'
  BY <1>1, <1>2, <1>3, PutShareOwn DEF DealInv
<1>5. dealer' \in [Dealers -> Job \cup {None}] /\ SameDeals
  <2>1. CASE UNCHANGED dealer
    BY <2>1 DEF DealInv, DealTypeOK, SameDeals
  <2>2. ASSUME NEW j \in Dealers, Waits(j, m.to, m.key), Reply(j, m.to, outcome)
        PROVE  dealer' \in [Dealers -> Job \cup {None}] /\ SameDeals
    BY <1>1, <2>2, ReplySame DEF DealInv, Waits
  <2> QED BY <1>2, <2>1, <2>2
<1> QED BY <1>3, <1>4, <1>5, DealInvNext DEF DealInv, DealTypeOK

LEMMA DealFailsStep ==
    ASSUME DealInv, NEW j \in Dealers, NEW k \in Keypers, DealFails(j, k)
    PROVE  DealInv' /\ KeysKept
<1> DEFINE doc == dealer[j].doc
           key == dealer[j].key
<1>1. dealer[j] # None
  BY DEF DealFails
<1>2. doc \in DocIds /\ key \in Keys /\ dealt_for[key] = doc
  BY <1>1 DEF DealInv, DealTypeOK, DealsOwn, Job
<1>3. /\ Reply(j, k, "failed")
      /\ mail' \subseteq mail
      /\ \/ UNCHANGED <<share, disk, displaced>>
         \/ PutShare(k, doc, key) /\ Flush(k)
      /\ UNCHANGED <<dealt_for, degraded>>
  BY DEF DealFails, storeVars
<1>4. ShareTypeOK' /\ SharesOwn'
  <2> HIDE DEF doc, key
  <2> QED BY <1>2, <1>3, NoneNoDoc, PutShareOwn, SharesKept DEF DealInv
<1>5. dealer' \in [Dealers -> Job \cup {None}] /\ SameDeals
  BY <1>1, <1>3, ReplySame DEF DealInv
<1> QED BY <1>3, <1>4, <1>5, DealInvNext DEF DealInv, DealTypeOK

LEMMA EndOfDealStep ==
    ASSUME DealInv, NEW j \in Dealers,
           EndDeals(j) \/ AnchorKey(j) \/ AbandonDeal(j)
    PROVE  DealInv' /\ KeysKept
<1>1. /\ dealer[j] # None
      /\ mail' \subseteq mail
      /\ UNCHANGED <<share, disk, displaced, dealt_for>>
  BY DEF EndDeals, AnchorKey, AbandonDeal, keyperVars, storeVars
<1>2. degraded' \subseteq DocIds
  <2>1. dealer[j].doc \in DocIds /\ degraded \subseteq DocIds
    BY <1>1 DEF DealInv, DealTypeOK, Job
  <2> QED BY <2>1 DEF EndDeals, AnchorKey, AbandonDeal
<1>3. dealer' \in [Dealers -> Job \cup {None}] /\ SameDeals
  BY <1>1, StageSame, EndSame DEF DealInv, EndDeals, AnchorKey, AbandonDeal
<1>4. ShareTypeOK' /\ SharesOwn'
  BY <1>1, NoneNoDoc, SharesKept DEF DealInv
<1> QED BY <1>1, <1>2, <1>3, <1>4, DealInvNext

LEMMA DealingStep ==
    ASSUME DealInv, Dealing
    PROVE  DealInv' /\ KeysKept
BY StartDealStep, SendDealsStep, StoreShareStep, DealFailsStep, EndOfDealStep
   DEF Dealing

LEMMA RestartKeyperStep ==
    ASSUME DealInv, NEW k \in Keypers, RestartKeyper(k)
    PROVE  DealInv' /\ KeysKept
<1>1. /\ share' = [share EXCEPT ![k] = disk[k]]
      /\ UNCHANGED <<disk, displaced, dealer, mail, dealt_for, degraded>>
  BY DEF RestartKeyper, dealerVars
<1>2. ShareTypeOK'
  BY <1>1 DEF DealInv, ShareTypeOK
<1>3. \A l \in Keypers : share'[l] = share[l] \/ share'[l] = disk[l]
  BY <1>1 DEF DealInv, ShareTypeOK
<1>4. SharesOwn'
  BY <1>1, <1>3 DEF DealInv, SharesOwn
<1>5. dealer' \in [Dealers -> Job \cup {None}] /\ SameDeals
  BY <1>1 DEF DealInv, DealTypeOK, SameDeals
<1> QED BY <1>1, <1>2, <1>4, <1>5, DealInvNext DEF DealInv, DealTypeOK

LEMMA DealInvKept ==
    ASSUME DealInv, UNCHANGED <<share, disk, displaced, dealerVars>>
    PROVE  DealInv' /\ KeysKept
<1>1. ShareTypeOK' /\ SharesOwn'
  BY NoneNoDoc, SharesKept DEF DealInv, dealerVars
<1>2. dealer' \in [Dealers -> Job \cup {None}] /\ SameDeals
  BY DEF DealInv, DealTypeOK, SameDeals, dealerVars
<1> QED BY <1>1, <1>2, DealInvNext DEF DealInv, DealTypeOK, dealerVars

-------------------------------------------------------------------------------
(* The data room under the composed system. *)

\* Anchoring a key is an owner's call of the contract.
LEMMA AnchorKeyAnchors ==
    ASSUME DealInv, NEW j \in Dealers, AnchorKey(j)
    PROVE  Anchor
<1> DEFINE doc == dealer[j].doc
           key == dealer[j].key
<1>1. dealer[j] \in Job
  BY DEF AnchorKey, DealInv, DealTypeOK
<1>2. doc[1] \in Rooms /\ doc[2] \in Docs /\ key \in Keys
  BY <1>1 DEF Job, DocIds
<1>3. \/ put_committee_document(doc[1], doc[2], key)
      \/ rotate_committee_document(doc[1], doc[2], key)
  BY DEF AnchorKey
<1> HIDE DEF doc, key
<1> QED BY <1>2, <1>3 DEF Anchor

LEMMA DealingOnRoom ==
    ASSUME DealInv, Dealing
    PROVE  [Next]_vars
<1>1. ASSUME NEW j \in Dealers, AnchorKey(j)
      PROVE  [Next]_vars
  BY <1>1, AnchorKeyAnchors DEF Next
<1>2. ASSUME NEW j \in Dealers,
             StartDeal(j) \/ SendDeals(j) \/ EndDeals(j) \/ AbandonDeal(j)
      PROVE  UNCHANGED vars
  BY <1>2 DEF StartDeal, SendDeals, EndDeals, AbandonDeal
<1>3. ASSUME NEW j \in Dealers, NEW k \in Keypers, DealFails(j, k)
      PROVE  UNCHANGED vars
  BY <1>3 DEF DealFails
<1>4. ASSUME NEW m \in mail, StoreShare(m)
      PROVE  UNCHANGED vars
  BY <1>4 DEF StoreShare
<1> QED BY <1>1, <1>2, <1>3, <1>4 DEF Dealing

LEMMA ReleasingOnRoom ==
    ASSUME Releasing
    PROVE  UNCHANGED vars
BY DEF Releasing, AskShare, RestartKeyper, CheckAdmitted, SealShare

LEMMA RoomStep ==
    ASSUME DealInv, [KeyNext]_allVars
    PROVE  [Next]_vars
<1>1. CASE UNCHANGED allVars
  BY <1>1 DEF allVars
<1>2. CASE AccessStep
  BY <1>2 DEF Next
<1> QED BY <1>1, <1>2, DealingOnRoom, ReleasingOnRoom DEF KeyNext

LEMMA DealInvInit == KeyInit => DealInv
BY DEF KeyInit, DealInv, ShareTypeOK, DealTypeOK, SharesOwn, DealsOwn

LEMMA DealInvStep ==
    ASSUME DealInv, [KeyNext]_allVars
    PROVE  DealInv' /\ KeysKept
<1>1. CASE UNCHANGED allVars
  BY <1>1, DealInvKept DEF allVars, keyVars, keyperVars, storeVars
<1>2. CASE UNCHANGED keyVars
  BY <1>2, DealInvKept DEF keyVars, keyperVars, storeVars
<1>3. CASE Releasing
  <2>1. ASSUME NEW k \in Keypers, AskShare(k)
        PROVE  UNCHANGED <<share, disk, displaced, dealerVars>>
    BY <2>1 DEF AskShare, storeVars
  <2>2. ASSUME NEW q \in asks, CheckAdmitted(q) \/ SealShare(q)
        PROVE  UNCHANGED <<share, disk, displaced, dealerVars>>
    BY <2>2 DEF CheckAdmitted, SealShare, storeVars
  <2> QED BY <1>3, <2>1, <2>2, DealInvKept, RestartKeyperStep DEF Releasing
<1> QED BY <1>1, <1>2, <1>3, DealingStep DEF KeyNext

(***************************************************************************)
(* Seen by itself, the contract under backend and keypers is a data room   *)
(* whose owners and members do what they like: everything proved about     *)
(* Spec holds of the composed system too.                                  *)
(***************************************************************************)
THEOREM RoomWithin == KeySpec => Spec
<1>1. KeyInit => Init
  BY DEF KeyInit
<1>2. DealInv /\ [KeyNext]_allVars => [Next]_vars
  BY RoomStep
<1>3. DealInv /\ [KeyNext]_allVars => DealInv'
  BY DealInvStep
<1> QED BY <1>1, <1>2, <1>3, DealInvInit, PTL DEF KeySpec, Spec

-------------------------------------------------------------------------------
(* The history of barred accessors. *)

BarredTypeOK == barred \in [Keys -> SUBSET Accessors]

LEMMA BarredTyped ==
    ASSUME BarredTypeOK, BarredHistory \/ UNCHANGED barred
    PROVE  BarredTypeOK'
BY DEF BarredTypeOK, BarredHistory

\* Of a key that was made, the history only loses accessors.
LEMMA BarredShrinks ==
    ASSUME KeysKept, BarredHistory \/ UNCHANGED barred,
           NEW key \in Keys, dealt_for[key] # None, BarredTypeOK
    PROVE  barred'[key] \subseteq barred[key]
BY DEF KeysKept, BarredHistory, BarredTypeOK

\* The chain's answer depends on the chain alone.
LEMMA SameAnswer ==
    ASSUME UNCHANGED <<vars, dealt_for>>, NEW key, NEW a
    PROVE  AdmittedFor(key, a)' <=> AdmittedFor(key, a)
BY DEF AdmittedFor, is_doc_admitted, EffectiveReq, EffectivePolicy, Decide,
       BondLeg, bond_leg_ok, bond_open_leg_ok, GatesPass, is_granted, GrantedFor,
       OpenGranted, vars, roomVars, memberVars, docVars, policyVars,
       admissionVars, gateVars, promiseVars

\* An accessor the chain admits leaves the history of the document's keys.
LEMMA AdmittedNotBarred ==
    ASSUME UNCHANGED <<vars, dealt_for>>, BarredHistory,
           NEW key \in Keys, NEW a, AdmittedFor(key, a)
    PROVE  a \notin barred'[key]
<1>1. AdmittedFor(key, a)'
  BY SameAnswer
<1>2. barred'[key] = IF dealt_for'[key] = None THEN {}
        ELSE {b \in (IF dealt_for[key] = None THEN Accessors ELSE barred[key]) :
                ~AdmittedFor(key, b)'}
  BY DEF BarredHistory
<1> QED BY <1>1, <1>2

-------------------------------------------------------------------------------
(* The keypers' requests. *)

AskInv == AskTypeOK /\ AsksOwn /\ ReleasesOwn

\* Requests and releases that were there before stay within the invariant.
LEMMA OldAsks ==
    ASSUME DealInv, BarredTypeOK, AskInv, KeysKept,
           BarredHistory \/ UNCHANGED barred
    PROVE  /\ \A q \in asks :
                /\ dealt_for'[q.key] = q.doc
                /\ q.stage = "admitted" => q.accessor \notin barred'[q.key]
           /\ \A s \in released :
                /\ dealt_for'[s.key] = s.doc
                /\ s.accessor \notin barred'[s.key]
<1>1. ASSUME NEW q \in asks
      PROVE  /\ dealt_for'[q.key] = q.doc
             /\ q.stage = "admitted" => q.accessor \notin barred'[q.key]
  <2>1. q.key \in Keys /\ q.doc # None /\ dealt_for[q.key] = q.doc
    BY NoneNoDoc DEF AskInv, AskTypeOK, AsksOwn, Ask
  <2>2. barred'[q.key] \subseteq barred[q.key]
    BY <2>1, BarredShrinks
  <2> QED BY <2>1, <2>2 DEF KeysKept, AskInv, AsksOwn
<1>2. ASSUME NEW s \in released
      PROVE  /\ dealt_for'[s.key] = s.doc
             /\ s.accessor \notin barred'[s.key]
  <2>1. s.key \in Keys /\ s.doc # None /\ dealt_for[s.key] = s.doc
    BY NoneNoDoc DEF AskInv, AskTypeOK, ReleasesOwn, Release
  <2>2. barred'[s.key] \subseteq barred[s.key]
    BY <2>1, BarredShrinks
  <2> QED BY <2>1, <2>2 DEF KeysKept, AskInv, ReleasesOwn
<1> QED BY <1>1, <1>2

LEMMA AsksKept ==
    ASSUME DealInv, BarredTypeOK, AskInv, KeysKept,
           BarredHistory \/ UNCHANGED barred,
           asks' \subseteq asks, UNCHANGED released
    PROVE  AskInv'
<1>1. AskTypeOK'
  BY DEF AskInv, AskTypeOK
<1> QED BY <1>1, OldAsks DEF AskInv, AsksOwn, ReleasesOwn

LEMMA AskShareStep ==
    ASSUME DealInv, BarredTypeOK, AskInv, KeysKept, BarredHistory,
           NEW k \in Keypers, AskShare(k)
    PROVE  AskInv'
<1>1. PICK doc \in DocIds, a \in Accessors :
        /\ share[k][doc] # None
        /\ asks' = asks \cup {[keyper |-> k, doc |-> doc, accessor |-> a,
                               key |-> share[k][doc], stage |-> "checking"]}
        /\ UNCHANGED <<released, dealt_for>>
  BY DEF AskShare, dealerVars
<1> DEFINE q == [keyper |-> k, doc |-> doc, accessor |-> a,
                 key |-> share[k][doc], stage |-> "checking"]
<1>2. share[k][doc] \in Keys
  BY <1>1 DEF DealInv, ShareTypeOK
<1>3. q \in Ask /\ q.doc = doc /\ q.key = share[k][doc] /\ q.stage = "checking"
  BY <1>2 DEF Ask
<1>4. dealt_for[q.key] = q.doc
  BY <1>1 DEF DealInv, SharesOwn
<1>5. asks' = asks \cup {q} /\ UNCHANGED <<released, dealt_for>>
  BY <1>1
<1> HIDE DEF q
<1>6. AskTypeOK'
  BY <1>3, <1>5 DEF AskInv, AskTypeOK
<1>7. \A p \in asks' : /\ dealt_for'[p.key] = p.doc
                       /\ p.stage = "admitted" => p.accessor \notin barred'[p.key]
  BY <1>3, <1>4, <1>5, OldAsks
<1>8. \A s \in released' : /\ dealt_for'[s.key] = s.doc
                           /\ s.accessor \notin barred'[s.key]
  BY <1>5, OldAsks
<1> QED BY <1>6, <1>7, <1>8 DEF AskInv, AsksOwn, ReleasesOwn

LEMMA CheckAdmittedStep ==
    ASSUME DealInv, BarredTypeOK, AskInv, KeysKept, BarredHistory,
           NEW q \in asks, CheckAdmitted(q)
    PROVE  AskInv'
<1>1. CASE ~is_doc_admitted(q.doc[1], q.doc[2], q.accessor)
  <2>1. asks' \subseteq asks /\ UNCHANGED released
    BY <1>1 DEF CheckAdmitted
  <2> QED BY <2>1, AsksKept
<1>2. CASE is_doc_admitted(q.doc[1], q.doc[2], q.accessor)
  <2> DEFINE p == [q EXCEPT !.stage = "admitted"]
  <2>1. /\ asks' = (asks \ {q}) \cup {p}
        /\ UNCHANGED <<vars, released, dealt_for>>
    BY <1>2 DEF CheckAdmitted, dealerVars
  <2>2. /\ p \in Ask /\ p.key = q.key /\ p.doc = q.doc
        /\ p.accessor = q.accessor /\ q.key \in Keys
    BY DEF AskInv, AskTypeOK, Ask
  <2>3. dealt_for[q.key] = q.doc
    BY DEF AskInv, AsksOwn
  <2>4. AdmittedFor(q.key, q.accessor)
    BY <1>2, <2>3 DEF AdmittedFor
  <2>5. q.accessor \notin barred'[q.key]
    BY <2>1, <2>2, <2>4, AdmittedNotBarred
  <2> HIDE DEF p
  <2>6. AskTypeOK'
    BY <2>1, <2>2 DEF AskInv, AskTypeOK
  <2>7. \A o \in asks' : /\ dealt_for'[o.key] = o.doc
                         /\ o.stage = "admitted" => o.accessor \notin barred'[o.key]
    BY <2>1, <2>2, <2>3, <2>5, OldAsks
  <2>8. \A s \in released' : /\ dealt_for'[s.key] = s.doc
                             /\ s.accessor \notin barred'[s.key]
    BY <2>1, OldAsks
  <2> QED BY <2>6, <2>7, <2>8 DEF AskInv, AsksOwn, ReleasesOwn
<1> QED BY <1>1, <1>2

\* The recipient key is one a proof bound.
LEMMA RecipientTyped ==
    ASSUME TypeOK, NEW r \in Rooms, NEW a \in Accessors
    PROVE  admission_recipient_pub(r, a) \in RecipientKeys \cup {None}
<1>1. ASSUME NEW req \in Reqs
      PROVE  OpenRecipientPub(a, req) \in RecipientKeys \cup {None}
  <2>1. <<a, req>> \in DOMAIN open_bonds
          => open_bonds[<<a, req>>].recipient_pub \in RecipientKeys
    BY DEF TypeOK, PromiseTypeOK
  <2> QED BY <2>1 DEF OpenRecipientPub
<1>2. bond_req[r] # None => bond_req[r] \in Reqs
  BY DEF TypeOK
<1>3. <<r, a>> \in DOMAIN grants => grants[<<r, a>>].recipient_pub \in RecipientKeys
  BY DEF TypeOK, Grant
<1> QED BY <1>1, <1>2, <1>3 DEF admission_recipient_pub

LEMMA SealShareStep ==
    ASSUME TypeOK, DealInv, BarredTypeOK, AskInv, KeysKept, BarredHistory,
           NEW q \in asks, SealShare(q)
    PROVE  AskInv'
<1> DEFINE recipient == admission_recipient_pub(q.doc[1], q.accessor)
           s == [keyper |-> q.keyper, doc |-> q.doc, accessor |-> q.accessor,
                 key |-> q.key, recipient_pub |-> recipient]
<1>1. /\ q.stage = "admitted"
      /\ asks' = asks \ {q}
      /\ released' = IF recipient = None THEN released ELSE released \cup {s}
  BY DEF SealShare, SealedKey
<1>2. /\ q.keyper \in Keypers /\ q.doc \in DocIds /\ q.accessor \in Accessors
      /\ q.key \in Keys
  BY DEF AskInv, AskTypeOK, Ask
<1>3. recipient \in RecipientKeys \cup {None}
  <2>1. q.doc[1] \in Rooms
    BY <1>2 DEF DocIds
  <2> QED BY <1>2, <2>1, RecipientTyped
<1> HIDE DEF recipient
<1>4. recipient # None => s \in Release
  BY <1>2, <1>3 DEF Release
<1>5. s.key = q.key /\ s.doc = q.doc /\ s.accessor = q.accessor
  OBVIOUS
<1> HIDE DEF s
<1>6. AskTypeOK'
  BY <1>1, <1>4 DEF AskInv, AskTypeOK
<1>7. \A o \in asks' : /\ dealt_for'[o.key] = o.doc
                       /\ o.stage = "admitted" => o.accessor \notin barred'[o.key]
  BY <1>1, OldAsks
<1>8. \A o \in released' : /\ dealt_for'[o.key] = o.doc
                           /\ o.accessor \notin barred'[o.key]
  BY <1>1, <1>5, OldAsks
<1> QED BY <1>6, <1>7, <1>8 DEF AskInv, AsksOwn, ReleasesOwn

LEMMA AskInvStep ==
    ASSUME TypeOK, DealInv, BarredTypeOK, AskInv, [KeyNext]_allVars
    PROVE  AskInv'
<1>1. KeysKept
  BY DealInvStep
<1>2. CASE UNCHANGED allVars
  BY <1>1, <1>2, AsksKept DEF allVars, keyVars, keyperVars, storeVars
<1>3. CASE AccessStep /\ UNCHANGED keyVars /\ BarredHistory
  BY <1>1, <1>3, AsksKept DEF keyVars, keyperVars, storeVars
<1>4. CASE Dealing /\ BarredHistory
  <2>1. UNCHANGED <<asks, released>>
    BY <1>4 DEF Dealing, StartDeal, SendDeals, EndDeals, AnchorKey, AbandonDeal,
                DealFails, StoreShare, keyperVars, storeVars
  <2> QED BY <1>1, <1>4, <2>1, AsksKept
<1>5. CASE Releasing /\ BarredHistory
  <2>1. ASSUME NEW k \in Keypers, RestartKeyper(k)
        PROVE  AskInv'
    <3>1. asks' \subseteq asks /\ UNCHANGED released
      BY <2>1 DEF RestartKeyper
    <3> QED BY <1>1, <1>5, <3>1, AsksKept
  <2> QED
    BY <1>1, <1>5, <2>1, AskShareStep, CheckAdmittedStep, SealShareStep
       DEF Releasing
<1> QED BY <1>2, <1>3, <1>4, <1>5 DEF KeyNext

-------------------------------------------------------------------------------
KeyIInv == TypeOK /\ DealInv /\ BarredTypeOK /\ AskInv

LEMMA KeyIInvInit == KeyInit => KeyIInv
<1> SUFFICES ASSUME KeyInit PROVE KeyIInv
  OBVIOUS
<1>1. TypeOK
  BY TypeInit DEF KeyInit
<1>2. BarredTypeOK
  BY DEF KeyInit, BarredTypeOK
<1>3. AskInv
  BY DEF KeyInit, AskInv, AskTypeOK, AsksOwn, ReleasesOwn
<1> QED BY <1>1, <1>2, <1>3, DealInvInit DEF KeyIInv

LEMMA KeyIInvStep == KeyIInv /\ [KeyNext]_allVars => KeyIInv'
<1> SUFFICES ASSUME KeyIInv, [KeyNext]_allVars PROVE KeyIInv'
  OBVIOUS
<1>1. TypeOK'
  BY RoomStep, TypeStep DEF KeyIInv
<1>2. BarredTypeOK'
  BY BarredTyped DEF KeyIInv, KeyNext, allVars
<1> QED BY <1>1, <1>2, DealInvStep, AskInvStep DEF KeyIInv

LEMMA KeyInvariant == KeySpec => []KeyIInv
BY KeyIInvInit, KeyIInvStep, PTL DEF KeySpec

(***************************************************************************)
(* Contract, backend and keypers keep their types, for any keypers,        *)
(* threshold, dealing requests and /share requests.                        *)
(***************************************************************************)
THEOREM KeyTypeCorrect == KeySpec => []KeyTypeOK
<1>1. KeyIInv => KeyTypeOK
  BY DEF KeyIInv, DealInv, ShareTypeOK, DealTypeOK, BarredTypeOK, AskInv, AskTypeOK,
         KeyTypeOK
<1> QED BY <1>1, KeyInvariant, PTL

(***************************************************************************)
(* A key made after an accessor lost its access is never released to it    *)
(* unless it was admitted again since, with any number of keypers,         *)
(* requests, rotations, late deals, failed flushes and restarts.           *)
(***************************************************************************)
THEOREM NewKeysAreWithheld == KeySpec => []NewKeyWithheld
<1>1. KeyIInv => NewKeyWithheld
  BY DEF KeyIInv, AskInv, ReleasesOwn, NewKeyWithheld
<1> QED BY <1>1, KeyInvariant, PTL

-------------------------------------------------------------------------------
(* Anchored keys.  A keyper that acknowledged a share has it in memory and *)
(* in its file until it overwrites it (Safe); a document is anchored when  *)
(* every keyper has acknowledged.  Neither depends on who else deals the   *)
(* document, nor on when a /deal arrives.                                  *)

Safe(k, doc, key) ==
    \/ <<k, key>> \in displaced
    \/ share[k][doc] = key /\ disk[k][doc] = key

JobOK(j) ==
    /\ \A k \in Keypers :
          dealer[j].reply[k] = "ok" => Safe(k, dealer[j].doc, dealer[j].key)
    /\ dealer[j].stage = "anchoring" => AllDealt(j)

JobsOK == \A j \in Dealers : dealer[j] # None => JobOK(j)

AnchoredSafe ==
    \A doc \in DOMAIN committee : \A k \in Keypers : Safe(k, doc, committee[doc].key)

SafeInv == JobsOK /\ AnchoredSafe

\* What no step undoes.
SafeKept ==
    \A k \in Keypers, doc \in DocIds, key \in Keys :
        Safe(k, doc, key) => Safe(k, doc, key)'

LEMMA CommitteeQuiet == AccessStep => UNCHANGED committee
<1>1. ASSUME Owner PROVE UNCHANGED committee
  BY <1>1 DEF Owner, create_room, set_eligible_root, set_room_policy,
              set_bond_requirement, set_bond_open_requirement,
              clear_bond_requirement, revoke_access, docVars
<1>2. ASSUME DocOwner PROVE UNCHANGED committee
  BY <1>2 DEF DocOwner, set_doc_policy, set_doc_bond_requirement,
              clear_doc_bond_requirement, docVars
<1>3. ASSUME Anyone PROVE UNCHANGED committee
  BY <1>3 DEF Anyone, request_access, request_room_admission, docVars
<1> QED
  BY <1>1, <1>2, <1>3
     DEF AccessStep, set_membership_image_id, GateAnswerChanges, roomVars, docVars

\* What the shape of a request gives.
LEMMA JobTyped ==
    ASSUME DealInv, NEW j \in Dealers, dealer[j] # None
    PROVE  /\ dealer[j] \in Job /\ dealer[j].doc \in DocIds /\ dealer[j].key \in Keys
           /\ dealer[j].kind \in Kinds
BY DEF DealInv, DealTypeOK, Job

\* A keyper that stores a share overwrites at most the one it had for that
\* document, and then it is in the history.
LEMMA PutSafe ==
    ASSUME ShareTypeOK, NEW k \in Keypers, NEW doc \in DocIds, NEW key \in Keys,
           PutShare(k, doc, key), Flush(k) \/ UNCHANGED disk
    PROVE  SafeKept /\ (Flush(k) => Safe(k, doc, key)')
<1>1. share' = [share EXCEPT ![k] = [share[k] EXCEPT ![doc] = key]]
  BY DEF PutShare
<1>2. \A l \in Keypers, d \in DocIds :
        share'[l][d] = IF l = k /\ d = doc THEN key ELSE share[l][d]
  BY <1>1 DEF ShareTypeOK
<1>3. \A l \in Keypers, d \in DocIds :
        disk'[l][d] = share'[l][d] \/ disk'[l][d] = disk[l][d]
  BY DEF Flush, ShareTypeOK
<1>4. Flush(k) => disk'[k][doc] = share'[k][doc]
  BY DEF Flush, ShareTypeOK
<1>5. ASSUME NEW l \in Keypers, NEW d \in DocIds, NEW y \in Keys, Safe(l, d, y)
      PROVE  Safe(l, d, y)'
  <2>1. CASE <<l, y>> \in displaced
    BY <2>1 DEF Safe, PutShare
  <2>2. CASE share[l][d] = y /\ disk[l][d] = y /\ share'[l][d] = y
    BY <1>3, <2>2 DEF Safe
  <2>3. CASE share[l][d] = y /\ share'[l][d] # y
    <3>1. l = k /\ d = doc /\ key # y
      BY <1>2, <2>3
    <3>2. y # None
      BY NoneNoDoc
    <3>3. <<k, y>> \in displaced'
      BY <2>3, <3>1, <3>2 DEF PutShare
    <3> QED BY <3>1, <3>3 DEF Safe
  <2> QED BY <1>5, <2>1, <2>2, <2>3 DEF Safe
<1> QED BY <1>2, <1>4, <1>5 DEF SafeKept, Safe

\* A restart reads back what the file has.
LEMMA RestartSafe ==
    ASSUME ShareTypeOK, NEW k \in Keypers, RestartKeyper(k)
    PROVE  SafeKept
<1>1. \A l \in Keypers : share'[l] = share[l] \/ share'[l] = disk[l]
  BY DEF RestartKeyper, ShareTypeOK
<1>2. UNCHANGED <<disk, displaced>>
  BY DEF RestartKeyper
<1> QED BY <1>1, <1>2 DEF SafeKept, Safe

LEMMA SameSafe ==
    ASSUME UNCHANGED storeVars
    PROVE  SafeKept
BY DEF SafeKept, Safe, storeVars

\* Requests and documents that are as they were stay safe.
LEMMA JobsKept ==
    ASSUME DealInv, SafeInv, SafeKept, NEW j \in Dealers,
           dealer'[j] = dealer[j], dealer[j] # None
    PROVE  JobOK(j)'
<1>1. dealer[j].doc \in DocIds /\ dealer[j].key \in Keys
  BY JobTyped
<1>2. JobOK(j)
  BY DEF SafeInv, JobsOK
<1> QED BY <1>1, <1>2 DEF JobOK, AllDealt, SafeKept, Safe

LEMMA AnchoredKept ==
    ASSUME TypeOK, SafeInv, SafeKept, NEW doc \in DOMAIN committee,
           committee'[doc].key = committee[doc].key, NEW k \in Keypers
    PROVE  Safe(k, doc, committee[doc].key)'
<1>1. doc \in DocIds /\ committee[doc].key \in Keys
  BY DEF TypeOK, DocIds
<1>2. Safe(k, doc, committee[doc].key)
  BY DEF SafeInv, AnchoredSafe
<1> QED BY <1>1, <1>2 DEF SafeKept, Safe

LEMMA SafeKeptInv ==
    ASSUME TypeOK, DealInv, SafeInv, SafeKept, UNCHANGED <<committee, dealer>>
    PROVE  SafeInv'
<1>1. JobsOK'
  BY JobsKept DEF JobsOK
<1>2. AnchoredSafe'
  BY AnchoredKept DEF AnchoredSafe
<1> QED BY <1>1, <1>2 DEF SafeInv

LEMMA SafeStart ==
    ASSUME TypeOK, DealInv, SafeInv, NEW j \in Dealers, StartDeal(j)
    PROVE  SafeInv'
<1>1. PICK kind \in Kinds, doc \in DocIds, key \in Keys :
        /\ dealer' = [dealer EXCEPT ![j] =
              [kind |-> kind, doc |-> doc, key |-> key, stage |-> "uploading",
               reply |-> [k \in Keypers |-> "none"]]]
        /\ UNCHANGED <<storeVars, committee>>
  BY DEF StartDeal, keyperVars, vars, roomVars, docVars
<1> DEFINE job == [kind |-> kind, doc |-> doc, key |-> key, stage |-> "uploading",
                   reply |-> [k \in Keypers |-> "none"]]
<1>2. job.stage = "uploading" /\ \A k \in Keypers : job.reply[k] = "none"
  OBVIOUS
<1>3. \A i \in Dealers : dealer'[i] = IF i = j THEN job ELSE dealer[i]
  BY <1>1 DEF DealInv, DealTypeOK
<1> HIDE DEF job
<1>4. SafeKept
  BY <1>1, SameSafe
<1>5. JobsOK'
  <2> SUFFICES ASSUME NEW i \in Dealers, dealer'[i] # None PROVE JobOK(i)'
    BY DEF JobsOK
  <2>1. CASE i = j
    BY <1>2, <1>3, <2>1 DEF JobOK
  <2>2. CASE i # j
    BY <1>3, <1>4, <2>2, JobsKept
  <2> QED BY <2>1, <2>2
<1>6. AnchoredSafe'
  BY <1>1, <1>4, AnchoredKept DEF AnchoredSafe
<1> QED BY <1>5, <1>6 DEF SafeInv

\* A request goes on to its next stage: to anchor, all keypers have answered ok.
LEMMA SafeStage ==
    ASSUME TypeOK, DealInv, SafeInv, NEW j \in Dealers, NEW stage \in {"dealing", "anchoring"},
           dealer[j] # None, dealer' = [dealer EXCEPT ![j].stage = stage],
           stage = "anchoring" => AllDealt(j), UNCHANGED <<storeVars, committee>>
    PROVE  SafeInv'
<1> DEFINE job == [dealer[j] EXCEPT !.stage = stage]
<1>1. dealer[j] \in Job
  BY JobTyped
<1>2. /\ job.stage = stage /\ job.reply = dealer[j].reply
      /\ job.doc = dealer[j].doc /\ job.key = dealer[j].key
  BY <1>1 DEF Job
<1>3. \A i \in Dealers : dealer'[i] = IF i = j THEN job ELSE dealer[i]
  BY DEF DealInv, DealTypeOK
<1> HIDE DEF job
<1>4. SafeKept
  BY SameSafe
<1>5. JobsOK'
  <2> SUFFICES ASSUME NEW i \in Dealers, dealer'[i] # None PROVE JobOK(i)'
    BY DEF JobsOK
  <2>1. CASE i = j
    <3>1. JobOK(j)
      BY DEF SafeInv, JobsOK
    <3> QED BY <1>2, <1>3, <2>1, <3>1 DEF JobOK, AllDealt, Safe, storeVars
  <2>2. CASE i # j
    BY <1>3, <1>4, <2>2, JobsKept
  <2> QED BY <2>1, <2>2
<1>6. AnchoredSafe'
  BY <1>4, AnchoredKept DEF AnchoredSafe
<1> QED BY <1>5, <1>6 DEF SafeInv

\* Request j gets its answer from keyper k: if it is ok, the share is safe.
LEMMA SafeReply ==
    ASSUME TypeOK, DealInv, SafeInv, SafeKept,
           NEW j \in Dealers, NEW k \in Keypers, NEW outcome \in {"ok", "failed"},
           dealer[j] # None, dealer[j].stage = "dealing", Reply(j, k, outcome),
           outcome = "ok" => Safe(k, dealer[j].doc, dealer[j].key)',
           UNCHANGED committee
    PROVE  SafeInv'
<1> DEFINE job == [dealer[j] EXCEPT !.reply = [dealer[j].reply EXCEPT ![k] = outcome]]
<1>1. dealer[j] \in Job /\ dealer[j].doc \in DocIds /\ dealer[j].key \in Keys
  BY JobTyped
<1>2. /\ job.doc = dealer[j].doc /\ job.key = dealer[j].key /\ job.stage = "dealing"
      /\ job.reply[k] = outcome
      /\ \A l \in Keypers : l # k => job.reply[l] = dealer[j].reply[l]
  BY <1>1 DEF Job
<1>3. \A i \in Dealers : dealer'[i] = IF i = j THEN job ELSE dealer[i]
  BY DEF Reply, DealInv, DealTypeOK
<1> HIDE DEF job
<1>4. JobsOK'
  <2> SUFFICES ASSUME NEW i \in Dealers, dealer'[i] # None PROVE JobOK(i)'
    BY DEF JobsOK
  <2>1. CASE i = j
    <3>1. dealer'[j].doc = dealer[j].doc /\ dealer'[j].key = dealer[j].key
      BY <1>2, <1>3
    <3>2. ASSUME NEW l \in Keypers, dealer'[j].reply[l] = "ok"
          PROVE  Safe(l, dealer[j].doc, dealer[j].key)'
      <4>1. CASE l = k
        BY <1>2, <1>3, <3>2, <4>1
      <4>2. CASE l # k
        <5>1. Safe(l, dealer[j].doc, dealer[j].key)
          BY <1>2, <1>3, <3>2, <4>2 DEF SafeInv, JobsOK, JobOK
        <5> QED BY <1>1, <3>1, <5>1 DEF SafeKept, Safe
      <4> QED BY <4>1, <4>2
    <3> QED BY <1>2, <1>3, <2>1, <3>2 DEF JobOK
  <2>2. CASE i # j
    BY <1>3, <2>2, JobsKept
  <2> QED BY <2>1, <2>2
<1>5. AnchoredSafe'
  BY AnchoredKept DEF AnchoredSafe
<1> QED BY <1>4, <1>5 DEF SafeInv

LEMMA SafeStore ==
    ASSUME TypeOK, DealInv, SafeInv, NEW m \in mail, StoreShare(m)
    PROVE  SafeInv'
<1>1. /\ m.to \in Keypers /\ m.doc \in DocIds /\ m.key \in Keys
      /\ dealt_for[m.key] = m.doc
  BY DEF DealInv, DealTypeOK, DealsOwn, Deal
<1>2. PutShare(m.to, m.doc, m.key) /\ UNCHANGED committee
  BY DEF StoreShare, vars, roomVars, docVars
<1>3. PICK outcome \in {"ok", "failed"} :
        /\ IF outcome = "ok" THEN Flush(m.to) ELSE UNCHANGED disk
        /\ \/ \E j \in Dealers : Waits(j, m.to, m.key) /\ Reply(j, m.to, outcome)
           \/ UNCHANGED dealer
  BY DEF StoreShare
<1>4. SafeKept /\ (outcome = "ok" => Safe(m.to, m.doc, m.key)')
  BY <1>1, <1>2, <1>3, PutSafe DEF DealInv
<1>5. CASE UNCHANGED dealer
  BY <1>2, <1>4, <1>5, SafeKeptInv
<1>6. ASSUME NEW j \in Dealers, Waits(j, m.to, m.key), Reply(j, m.to, outcome)
      PROVE  SafeInv'
  <2>1. dealer[j] # None /\ dealer[j].key = m.key /\ dealer[j].stage = "dealing"
    BY <1>6 DEF Waits
  <2>2. dealer[j].doc = m.doc
    BY <1>1, <2>1 DEF DealInv, DealsOwn
  <2>3. dealer'[j].doc = dealer[j].doc /\ dealer'[j].key = dealer[j].key
    <3>1. SameDeals /\ dealer'[j] # None
      <4>1. dealer' \in [Dealers -> Job \cup {None}] /\ SameDeals
        BY <1>1, <1>6, <2>1, ReplySame DEF DealInv
      <4>2. dealer'[j] = [dealer[j] EXCEPT !.reply[m.to] = outcome]
        BY <1>6 DEF Reply, DealInv, DealTypeOK
      <4>3. dealer[j] \in Job
        BY <2>1, JobTyped
      <4>4. [dealer[j] EXCEPT !.reply = [dealer[j].reply EXCEPT ![m.to] = outcome]] \in Job
        BY <1>1, <4>3 DEF Job
      <4> QED BY <4>1, <4>2, <4>4, KeyReleaseAssumption
    <3> QED BY <3>1 DEF SameDeals
  <2>4. outcome = "ok" => Safe(m.to, dealer[j].doc, dealer[j].key)'
    BY <1>4, <2>1, <2>2, <2>3 DEF Safe
  <2> QED BY <1>1, <1>2, <1>4, <1>6, <2>1, <2>4, SafeReply
<1> QED BY <1>3, <1>5, <1>6

LEMMA SafeFails ==
    ASSUME TypeOK, DealInv, SafeInv, NEW j \in Dealers, NEW k \in Keypers, DealFails(j, k)
    PROVE  SafeInv'
<1>1. /\ dealer[j] # None /\ dealer[j].stage = "dealing" /\ Reply(j, k, "failed")
      /\ \/ UNCHANGED storeVars
         \/ PutShare(k, dealer[j].doc, dealer[j].key) /\ Flush(k)
      /\ UNCHANGED committee
  BY DEF DealFails, Waits, vars, roomVars, docVars
<1>2. dealer[j].doc \in DocIds /\ dealer[j].key \in Keys
  BY <1>1, JobTyped
<1>3. SafeKept
  BY <1>1, <1>2, SameSafe, PutSafe DEF DealInv
<1> QED BY <1>1, <1>3, SafeReply

\* The key a document is anchored to is safe with every keyper.
LEMMA SafeAnchor ==
    ASSUME TypeOK, DealInv, SafeInv, NEW j \in Dealers, AnchorKey(j)
    PROVE  SafeInv'
<1>1. PICK doc, key :
        /\ doc = dealer[j].doc /\ key = dealer[j].key
        /\ dealer[j] # None /\ dealer[j].stage = "anchoring"
        /\ dealer' = [dealer EXCEPT ![j] = None]
        /\ \/ rotate_committee_document(doc[1], doc[2], key)
           \/ put_committee_document(doc[1], doc[2], key)
        /\ UNCHANGED storeVars
  BY DEF AnchorKey, keyperVars
<1>2. /\ doc \in DocIds /\ key \in Keys
      /\ doc = <<doc[1], doc[2]>>
  BY <1>1, JobTyped DEF DocIds
<1>3. /\ DOMAIN committee' = DOMAIN committee \cup {doc}
      /\ committee'[doc].key = key
      /\ \A d \in DOMAIN committee : d # doc => committee'[d] = committee[d]
  <2> DEFINE val(index) == [index |-> index, key |-> key]
  <2>1. PICK index : committee' = Put(committee, doc, val(index))
    BY <1>1, <1>2 DEF rotate_committee_document, put_committee_document
  <2>2. val(index).key = key
    OBVIOUS
  <2> HIDE DEF val
  <2> QED BY <2>1, <2>2 DEF Put
<1>4. \A i \in Dealers : dealer'[i] = IF i = j THEN None ELSE dealer[i]
  BY <1>1 DEF DealInv, DealTypeOK
<1>5. \A k \in Keypers : Safe(k, doc, key)
  BY <1>1 DEF SafeInv, JobsOK, JobOK, AllDealt
<1>6. SafeKept
  BY <1>1, SameSafe
<1>7. JobsOK'
  BY <1>4, <1>6, JobsKept DEF JobsOK
<1>8. AnchoredSafe'
  <2> SUFFICES ASSUME NEW d \in DOMAIN committee', NEW k \in Keypers
               PROVE  Safe(k, d, committee[d].key)'
    BY DEF AnchoredSafe
  <2>1. CASE d = doc
    BY <1>1, <1>3, <1>5, <2>1 DEF Safe, storeVars
  <2>2. CASE d # doc
    BY <1>3, <1>6, <2>2, AnchoredKept
  <2> QED BY <2>1, <2>2
<1> QED BY <1>7, <1>8 DEF SafeInv

LEMMA SafeAbandon ==
    ASSUME TypeOK, DealInv, SafeInv, NEW j \in Dealers, AbandonDeal(j)
    PROVE  SafeInv'
<1>1. dealer' = [dealer EXCEPT ![j] = None] /\ UNCHANGED <<storeVars, committee>>
  BY DEF AbandonDeal, keyperVars, vars, roomVars, docVars
<1>2. \A i \in Dealers : dealer'[i] = IF i = j THEN None ELSE dealer[i]
  BY <1>1 DEF DealInv, DealTypeOK
<1>3. SafeKept
  BY <1>1, SameSafe
<1>4. JobsOK'
  BY <1>2, <1>3, JobsKept DEF JobsOK
<1>5. AnchoredSafe'
  BY <1>1, <1>3, AnchoredKept DEF AnchoredSafe
<1> QED BY <1>4, <1>5 DEF SafeInv

LEMMA SafeStep ==
    ASSUME TypeOK, DealInv, SafeInv, [KeyNext]_allVars
    PROVE  SafeInv' /\ SafeKept
<1>1. CASE UNCHANGED <<storeVars, dealer, committee>>
  BY <1>1, SafeKeptInv, SameSafe
<1>2. CASE UNCHANGED allVars \/ (AccessStep /\ UNCHANGED keyVars)
  <2>1. UNCHANGED committee
    BY <1>2, CommitteeQuiet DEF allVars, vars, roomVars, docVars
  <2> QED BY <1>1, <1>2, <2>1 DEF allVars, keyVars, keyperVars, dealerVars
<1>3. CASE Dealing
  <2>1. SafeKept
    <3>1. ASSUME NEW m \in mail, StoreShare(m)
          PROVE  SafeKept
      <4>1. m.to \in Keypers /\ m.doc \in DocIds /\ m.key \in Keys
        BY <3>1 DEF DealInv, DealTypeOK, Deal
      <4>2. PutShare(m.to, m.doc, m.key) /\ (Flush(m.to) \/ UNCHANGED disk)
        BY <3>1 DEF StoreShare
      <4> QED BY <4>1, <4>2, PutSafe DEF DealInv
    <3>2. ASSUME NEW j \in Dealers, NEW k \in Keypers, DealFails(j, k)
          PROVE  SafeKept
      <4>1. /\ dealer[j] # None
            /\ \/ UNCHANGED storeVars
               \/ PutShare(k, dealer[j].doc, dealer[j].key) /\ Flush(k)
        BY <3>2 DEF DealFails
      <4>2. dealer[j].doc \in DocIds /\ dealer[j].key \in Keys
        BY <4>1, JobTyped
      <4> QED BY <4>1, <4>2, SameSafe, PutSafe DEF DealInv
    <3>3. ASSUME NEW j \in Dealers,
                 StartDeal(j) \/ SendDeals(j) \/ EndDeals(j) \/ AnchorKey(j) \/ AbandonDeal(j)
          PROVE  SafeKept
      <4>1. UNCHANGED storeVars
        BY <3>3 DEF StartDeal, SendDeals, EndDeals, AnchorKey, AbandonDeal, keyperVars
      <4> QED BY <4>1, SameSafe
    <3> QED BY <1>3, <3>1, <3>2, <3>3 DEF Dealing
  <2>2. ASSUME NEW j \in Dealers, SendDeals(j) \/ EndDeals(j)
        PROVE  SafeInv'
    BY <2>2, SafeStage DEF SendDeals, EndDeals, keyperVars, vars, roomVars, docVars
  <2> QED
    BY <1>3, <2>1, <2>2, SafeStart, SafeStore, SafeFails, SafeAnchor, SafeAbandon
       DEF Dealing
<1>4. CASE Releasing
  <2>1. ASSUME NEW k \in Keypers, RestartKeyper(k)
        PROVE  SafeInv' /\ SafeKept
    <3>1. UNCHANGED <<committee, dealer>>
      BY <2>1 DEF RestartKeyper, dealerVars, vars, roomVars, docVars
    <3> QED BY <2>1, <3>1, RestartSafe, SafeKeptInv DEF DealInv
  <2>2. ASSUME NEW k \in Keypers, AskShare(k)
        PROVE  UNCHANGED <<storeVars, dealer, committee>>
    BY <2>2 DEF AskShare, dealerVars, vars, roomVars, docVars
  <2>3. ASSUME NEW q \in asks, CheckAdmitted(q) \/ SealShare(q)
        PROVE  UNCHANGED <<storeVars, dealer, committee>>
    BY <2>3 DEF CheckAdmitted, SealShare, dealerVars, vars, roomVars, docVars
  <2> QED BY <1>1, <1>4, <2>1, <2>2, <2>3 DEF Releasing
<1> QED BY <1>2, <1>3, <1>4 DEF KeyNext

LEMMA SafeInvariant == KeySpec => []SafeInv
<1>1. KeyInit => SafeInv
  BY DEF KeyInit, Init, Empty, SafeInv, JobsOK, AnchoredSafe
<1>2. KeyIInv /\ SafeInv /\ [KeyNext]_allVars => SafeInv'
  BY SafeStep DEF KeyIInv
<1> QED BY <1>1, <1>2, KeyInvariant, PTL DEF KeySpec

(***************************************************************************)
(* A keyper is without a share of an anchored key only if it overwrote it  *)
(* with a share of another: for any keypers, documents, routes and         *)
(* concurrent dealing requests, with late deals, lost answers, failed      *)
(* flushes, abandoned requests and restarts.                               *)
(***************************************************************************)
THEOREM KeysOutlast == KeySpec => []KeysOutlastFailures
<1>1. ASSUME SafeInv, NEW doc \in DOMAIN committee, NEW k \in Keypers
      PROVE  k \in Holders(doc) \/ <<k, committee[doc].key>> \in displaced
  BY <1>1 DEF SafeInv, AnchoredSafe, Safe, Holders
<1>2. SafeInv => KeysOutlastFailures
  BY <1>1 DEF KeysOutlastFailures
<1> QED BY <1>2, SafeInvariant, PTL

-------------------------------------------------------------------------------
(* The reader.  Its keypers all had the key it read in the commitment: one *)
(* that answers it with another has overwritten its share (OpenOK).        *)

ReaderTypeOK == open \in [Readers -> Open \cup {None}]

OpenOK(o) ==
    \A k \in Keypers :
        /\ Safe(k, o.doc, o.key)
        /\ o.shares[k] \in {"none", "failed", o.key} \/ <<k, o.key>> \in displaced

OpensOK == \A v \in Readers : open[v] # None => OpenOK(open[v])

\* No two keypers that answered v still have the key it is looking for.
Missed(v) ==
    \A k, l \in Got(open[v]) :
        k = l \/ <<k, open[v].key>> \in displaced \/ <<l, open[v].key>> \in displaced

MismatchOK == \A v \in Readers : At(v, "mismatch") => Missed(v)

\* A step outside the readers: deals, restarts, the room.
Around ==
    /\ [KeyNext]_allVars
    /\ \/ AccessStep /\ UNCHANGED <<keyVars, open>>
       \/ (Dealing \/ \E k \in Keypers : RestartKeyper(k)) /\ Disturbs

LEMMA ReaderCases ==
    ASSUME [ReaderNext]_readVars
    PROVE  \/ Around
           \/ Reading /\ UNCHANGED allVars
           \/ UNCHANGED readVars
<1>1. CASE AccessStep /\ UNCHANGED <<keyVars, open>> /\ BarredHistory
  BY <1>1 DEF Around, KeyNext
<1>2. CASE Dealing /\ BarredHistory /\ Disturbs
  BY <1>2 DEF Around, KeyNext
<1>3. CASE (\E k \in Keypers : RestartKeyper(k)) /\ BarredHistory /\ Disturbs
  BY <1>3 DEF Around, KeyNext, Releasing
<1>4. CASE Reading
  BY <1>4 DEF Reading, StartOpen, ReadRecipient, FinishOpen, CloseOpen, Collect, KeyperDown
<1> QED BY <1>1, <1>2, <1>3, <1>4 DEF ReaderNext

(***************************************************************************)
(* Readers change nothing they read: with them, chain, backend and keypers *)
(* behave as without, so what is proved of KeySpec holds while documents   *)
(* are opened.                                                             *)
(***************************************************************************)
THEOREM ReadersOnlyRead == ReaderSpec => KeySpec
<1>1. ReaderInit => KeyInit
  BY DEF ReaderInit
<1>2. [ReaderNext]_readVars => [KeyNext]_allVars
  BY ReaderCases DEF Around, readVars
<1> QED BY <1>1, <1>2, PTL DEF ReaderSpec, KeySpec

\* What each step of a reader does to its open.
LEMMA ReadingEffect ==
    ASSUME ReaderTypeOK, NEW v \in Readers,
           \/ ReadRecipient(v) \/ FinishOpen(v) \/ CloseOpen(v)
           \/ \E k \in Keypers : Collect(v, k) \/ KeyperDown(v, k)
    PROVE  /\ open[v] # None
           /\ \A w \in Readers : w # v => open'[w] = open[w]
BY DEF ReaderTypeOK, ReadRecipient, FinishOpen, CloseOpen, Collect, KeyperDown, At,
       Goes, Answers

LEMMA StartOpenEffect ==
    ASSUME TypeOK, ReaderTypeOK, NEW v \in Readers, StartOpen(v)
    PROVE  \E o \in Open :
              /\ open' = [open EXCEPT ![v] = o]
              /\ o.doc \in DOMAIN committee /\ o.key = committee[o.doc].key
              /\ o.disturbed = Redealing(o.doc) /\ o.stage = "reading"
              /\ \A k \in Keypers : o.shares[k] = "none"
<1>1. PICK via \in {"server", "direct"}, doc \in DOMAIN committee, a \in Accessors :
        open' = [open EXCEPT ![v] =
            [via |-> via, doc |-> doc, accessor |-> a, key |-> committee[doc].key,
             recipient |-> None, shares |-> [k \in Keypers |-> "none"],
             stage |-> "reading", disturbed |-> Redealing(doc)]]
  BY DEF StartOpen
<1> DEFINE o == [via |-> via, doc |-> doc, accessor |-> a, key |-> committee[doc].key,
                 recipient |-> None, shares |-> [k \in Keypers |-> "none"],
                 stage |-> "reading", disturbed |-> Redealing(doc)]
<1>2. doc \in DocIds /\ committee[doc].key \in Keys
  BY DEF TypeOK, DocIds
<1>3. Redealing(doc) \in BOOLEAN
  BY DEF Redealing
<1>4. o \in Open
  BY <1>2, <1>3 DEF Open
<1>5. /\ o.doc = doc /\ o.key = committee[doc].key /\ o.disturbed = Redealing(doc)
      /\ o.stage = "reading" /\ \A k \in Keypers : o.shares[k] = "none"
  OBVIOUS
<1>6. open' = [open EXCEPT ![v] = o]
  BY <1>1
<1> HIDE DEF o
<1> QED BY <1>4, <1>5, <1>6

\* A reader that goes on: same document, and what else it keeps.
LEMMA GoesOnEffect ==
    ASSUME TypeOK, ShareTypeOK, ReaderTypeOK, NEW v \in Readers,
           \/ ReadRecipient(v) \/ FinishOpen(v)
           \/ \E k \in Keypers : Collect(v, k) \/ KeyperDown(v, k)
    PROVE  \E o \in Open :
              /\ open' = [open EXCEPT ![v] = o]
              /\ o.doc = open[v].doc /\ o.key = open[v].key
              /\ o.disturbed = open[v].disturbed
              /\ o.stage = "mismatch" => FinishOpen(v)
              /\ \A k \in Keypers :
                    \/ o.shares[k] \in {open[v].shares[k], "failed"}
                    \/ o.shares[k] = share[k][o.doc]
<1>1. open[v] \in Open
  BY ReadingEffect DEF ReaderTypeOK
<1>2. CASE ReadRecipient(v)
  <2> DEFINE recipient == admission_recipient_pub(open[v].doc[1], open[v].accessor)
             stage == IF recipient = None /\ open[v].via = "direct"
                      THEN "not_released" ELSE "collecting"
             o == [open[v] EXCEPT !.recipient = recipient, !.stage = stage]
  <2>1. open' = [open EXCEPT ![v] = o]
    BY <1>2 DEF ReadRecipient
  <2>2. recipient \in RecipientKeys \cup {None}
    <3>1. open[v].doc[1] \in Rooms /\ open[v].accessor \in Accessors
      BY <1>1 DEF Open, DocIds
    <3> HIDE DEF recipient
    <3> QED BY <3>1, RecipientTyped DEF recipient
  <2> HIDE DEF recipient
  <2>3. /\ o \in Open /\ o.doc = open[v].doc /\ o.key = open[v].key
        /\ o.disturbed = open[v].disturbed /\ o.stage # "mismatch"
        /\ o.shares = open[v].shares
    BY <1>1, <2>2 DEF Open
  <2> HIDE DEF o
  <2> QED BY <2>1, <2>3
<1>3. ASSUME NEW k \in Keypers, NEW answer \in Keys \cup {"failed"}, Answers(v, k, answer),
             answer = "failed" \/ answer = share[k][open[v].doc],
             open[v].stage = "collecting"
      PROVE  \E o \in Open :
              /\ open' = [open EXCEPT ![v] = o]
              /\ o.doc = open[v].doc /\ o.key = open[v].key
              /\ o.disturbed = open[v].disturbed
              /\ o.stage = "mismatch" => FinishOpen(v)
              /\ \A l \in Keypers :
                    \/ o.shares[l] \in {open[v].shares[l], "failed"}
                    \/ o.shares[l] = share[l][o.doc]
  <2> DEFINE o == [open[v] EXCEPT !.shares = [open[v].shares EXCEPT ![k] = answer]]
  <2>1. open' = [open EXCEPT ![v] = o]
    BY <1>3 DEF Answers
  <2>2. /\ o \in Open /\ o.doc = open[v].doc /\ o.key = open[v].key
        /\ o.disturbed = open[v].disturbed /\ o.stage = "collecting"
        /\ \A l \in Keypers : o.shares[l] = IF l = k THEN answer ELSE open[v].shares[l]
    BY <1>1, <1>3 DEF Open
  <2> HIDE DEF o
  <2> QED BY <1>3, <2>1, <2>2
<1>4. ASSUME NEW stage \in {"not_released", "mismatch", "keyper_error", "blob_error"},
             Goes(v, stage), stage = "mismatch" => FinishOpen(v)
      PROVE  \E o \in Open :
              /\ open' = [open EXCEPT ![v] = o]
              /\ o.doc = open[v].doc /\ o.key = open[v].key
              /\ o.disturbed = open[v].disturbed
              /\ o.stage = "mismatch" => FinishOpen(v)
              /\ \A l \in Keypers : o.shares[l] \in {open[v].shares[l], "failed"}
  <2> DEFINE o == [open[v] EXCEPT !.stage = stage]
  <2>1. open' = [open EXCEPT ![v] = o]
    BY <1>4 DEF Goes
  <2>2. /\ o \in Open /\ o.doc = open[v].doc /\ o.key = open[v].key
        /\ o.disturbed = open[v].disturbed /\ o.stage = stage
        /\ o.shares = open[v].shares
    BY <1>1, <1>4 DEF Open
  <2> HIDE DEF o
  <2> QED BY <1>4, <2>1, <2>2
<1>5. ASSUME NEW k \in Keypers, Collect(v, k) \/ KeyperDown(v, k)
      PROVE  \/ \E answer \in Keys \cup {"failed"} :
                    /\ Answers(v, k, answer) /\ open[v].stage = "collecting"
                    /\ answer = "failed" \/ answer = share[k][open[v].doc]
             \/ Goes(v, "keyper_error")
  <2>1. open[v].doc \in DocIds
    BY <1>1 DEF Open
  <2>2. CASE Collect(v, k)
    <3>1. share[k][open[v].doc] \in Keys \cup {None}
      BY <2>1 DEF ShareTypeOK
    <3> QED BY <2>2, <3>1 DEF Collect, At, Releases
  <2>3. CASE KeyperDown(v, k)
    BY <2>3 DEF KeyperDown, At
  <2> QED BY <1>5, <2>2, <2>3
<1>6. CASE FinishOpen(v)
  <2>1. CASE \E key \in Keys : /\ Reconstructs(open[v], key)
                               /\ open' = [open EXCEPT ![v].stage = "opened", ![v].key = key]
    <3>1. open' = [open EXCEPT ![v].stage = "opened", ![v].key = open[v].key]
      BY <2>1 DEF Reconstructs
    <3> DEFINE o == [open[v] EXCEPT !.stage = "opened", !.key = open[v].key]
    <3>2. open' = [open EXCEPT ![v] = o]
      BY <3>1
    <3>3. /\ o \in Open /\ o.doc = open[v].doc /\ o.key = open[v].key
          /\ o.disturbed = open[v].disturbed /\ o.stage = "opened"
          /\ o.shares = open[v].shares
      BY <1>1 DEF Open
    <3> HIDE DEF o
    <3> QED BY <3>2, <3>3
  <2>2. CASE \E stage \in {"not_released", "mismatch", "blob_error"} : Goes(v, stage)
    BY <1>4, <1>6, <2>2
  <2> QED BY <1>6, <2>1, <2>2 DEF FinishOpen
<1> QED BY <1>2, <1>3, <1>4, <1>5, <1>6

LEMMA ReaderTypeStep ==
    ASSUME TypeOK, ShareTypeOK, ReaderTypeOK, [ReaderNext]_readVars
    PROVE  ReaderTypeOK'
<1>1. CASE Around
  <2>1. CASE Disturbs
    <3>1. \A v \in Readers : open'[v] \in Open \cup {None}
      <4> SUFFICES ASSUME NEW v \in Readers PROVE open'[v] \in Open \cup {None}
        OBVIOUS
      <4>1. open'[v] \in {open[v], [open[v] EXCEPT !.disturbed = TRUE]}
        BY <2>1 DEF Disturbs
      <4>2. open[v] # None => open'[v] \in Open
        <5> SUFFICES ASSUME open[v] # None PROVE open'[v] \in Open
          OBVIOUS
        <5>1. open[v] \in Open
          BY DEF ReaderTypeOK
        <5>2. [open[v] EXCEPT !.disturbed = TRUE] \in Open
          BY <5>1 DEF Open
        <5> QED BY <4>1, <5>1, <5>2
      <4>3. open[v] = None => open'[v] = None
        BY <2>1 DEF Disturbs
      <4> QED BY <4>2, <4>3
    <3> QED BY <2>1, <3>1 DEF Disturbs, ReaderTypeOK
  <2> QED BY <1>1, <2>1 DEF Around, ReaderTypeOK
<1>2. ASSUME NEW v \in Readers, NEW o \in Open \cup {None}, open' = [open EXCEPT ![v] = o]
      PROVE  ReaderTypeOK'
  BY <1>2 DEF ReaderTypeOK
<1>3. CASE Reading
  BY <1>2, <1>3, StartOpenEffect, GoesOnEffect DEF Reading, CloseOpen
<1>4. CASE UNCHANGED readVars
  BY <1>4 DEF readVars, ReaderTypeOK
<1> QED BY <1>1, <1>3, <1>4, ReaderCases

\* An open's keypers stay as they were, or overwrite.
LEMMA OpenKept ==
    ASSUME SafeKept, displaced \subseteq displaced', NEW o \in Open, OpenOK(o)
    PROVE  OpenOK(o)'
<1>1. o.doc \in DocIds /\ o.key \in Keys
  BY DEF Open
<1> QED BY <1>1 DEF OpenOK, SafeKept, Safe

LEMMA DisplacedGrows ==
    ASSUME [KeyNext]_allVars
    PROVE  displaced \subseteq displaced'
<1>1. CASE UNCHANGED displaced
  BY <1>1
<1>2. CASE Dealing
  BY <1>2 DEF Dealing, StartDeal, SendDeals, EndDeals, AnchorKey, AbandonDeal, DealFails,
              StoreShare, PutShare, keyperVars, storeVars
<1>3. CASE Releasing
  BY <1>3 DEF Releasing, AskShare, RestartKeyper, CheckAdmitted, SealShare, storeVars
<1>4. CASE UNCHANGED allVars \/ UNCHANGED keyVars
  BY <1>4 DEF allVars, keyVars, keyperVars, storeVars
<1> QED BY <1>2, <1>3, <1>4 DEF KeyNext

\* The history of re-deals changes no more than its mark.
LEMMA DisturbsEffect ==
    ASSUME ReaderTypeOK, Disturbs, NEW v \in Readers, open'[v] # None
    PROVE  /\ open[v] # None /\ open[v] \in Open /\ open'[v] \in Open
           /\ open'[v].doc = open[v].doc /\ open'[v].key = open[v].key
           /\ open'[v].shares = open[v].shares /\ open'[v].stage = open[v].stage
<1>1. open[v] # None /\ open'[v] \in {open[v], [open[v] EXCEPT !.disturbed = TRUE]}
  BY DEF Disturbs
<1>2. open[v] \in Open
  BY <1>1 DEF ReaderTypeOK
<1>3. [open[v] EXCEPT !.disturbed = TRUE] \in Open
  BY <1>2 DEF Open
<1> QED BY <1>1, <1>2, <1>3 DEF Open

LEMMA OpensStep ==
    ASSUME KeyIInv, SafeInv, ReaderTypeOK, OpensOK, [ReaderNext]_readVars
    PROVE  OpensOK'
<1>0. TypeOK /\ DealInv /\ ShareTypeOK
  BY DEF KeyIInv, DealInv
<1>1. [KeyNext]_allVars
  BY ReaderCases DEF Around, readVars
<1>2. SafeKept /\ displaced \subseteq displaced'
  BY <1>0, <1>1, SafeStep, DisplacedGrows
<1>3. ASSUME NEW v \in Readers, UNCHANGED open, open'[v] # None
      PROVE  OpenOK(open[v])'
  <2>1. open[v] \in Open /\ OpenOK(open[v])
    BY <1>3 DEF ReaderTypeOK, OpensOK
  <2> QED BY <1>2, <1>3, <2>1, OpenKept DEF OpenOK, Safe
<1>4. ASSUME NEW v \in Readers, Disturbs, open'[v] # None
      PROVE  OpenOK(open[v])'
  <2>1. /\ open[v] # None /\ open[v] \in Open
        /\ open'[v].doc = open[v].doc /\ open'[v].key = open[v].key
        /\ open'[v].shares = open[v].shares
    BY <1>4, DisturbsEffect
  <2>2. OpenOK(open[v])
    BY <2>1 DEF OpensOK
  <2>3. open[v].doc \in DocIds /\ open[v].key \in Keys
    BY <2>1 DEF Open
  <2> QED BY <1>2, <2>1, <2>2, <2>3 DEF OpenOK, SafeKept, Safe
<1>5. ASSUME UNCHANGED allVars, NEW v \in Readers, NEW o \in Open \cup {None},
             open' = [open EXCEPT ![v] = o], o # None => OpenOK(o)
      PROVE  OpensOK'
  <2>1. \A w \in Readers : open'[w] = IF w = v THEN o ELSE open[w]
    BY <1>5 DEF ReaderTypeOK
  <2>2. UNCHANGED <<share, disk, displaced>>
    BY <1>5 DEF allVars, keyVars, keyperVars, storeVars
  <2> QED BY <1>5, <2>1, <2>2 DEF OpensOK, OpenOK, Safe
<1>6. CASE Reading /\ UNCHANGED allVars
  <2>1. ASSUME NEW v \in Readers, StartOpen(v)
        PROVE  OpensOK'
    <3>1. PICK o \in Open :
              /\ open' = [open EXCEPT ![v] = o]
              /\ o.doc \in DOMAIN committee /\ o.key = committee[o.doc].key
              /\ \A k \in Keypers : o.shares[k] = "none"
      BY <1>0, <2>1, StartOpenEffect
    <3>2. OpenOK(o)
      BY <3>1 DEF OpenOK, SafeInv, AnchoredSafe
    <3> QED BY <1>5, <1>6, <3>1, <3>2
  <2>2. ASSUME NEW v \in Readers, CloseOpen(v)
        PROVE  OpensOK'
    BY <1>5, <1>6, <2>2 DEF CloseOpen
  <2>3. ASSUME NEW v \in Readers,
               \/ ReadRecipient(v) \/ FinishOpen(v)
               \/ \E k \in Keypers : Collect(v, k) \/ KeyperDown(v, k)
        PROVE  OpensOK'
    <3>1. PICK o \in Open :
              /\ open' = [open EXCEPT ![v] = o]
              /\ o.doc = open[v].doc /\ o.key = open[v].key
              /\ \A k \in Keypers :
                    \/ o.shares[k] \in {open[v].shares[k], "failed"}
                    \/ o.shares[k] = share[k][o.doc]
      BY <1>0, <2>3, GoesOnEffect
    <3>2. open[v] # None /\ OpenOK(open[v])
      BY <2>3, ReadingEffect DEF OpensOK
    <3>3. OpenOK(o)
      BY <3>1, <3>2 DEF OpenOK, Safe
    <3> QED BY <1>5, <1>6, <3>1, <3>3
  <2> QED BY <1>6, <2>1, <2>2, <2>3 DEF Reading
<1> QED BY <1>3, <1>4, <1>6, ReaderCases DEF Around, readVars, OpensOK

\* An open with two shares of the key it is looking for does not miss it.
LEMMA NoMismatch ==
    ASSUME ReaderTypeOK, Threshold <= 2, NEW v \in Readers, FinishOpen(v),
           OpenOK(open[v]), ~Missed(v)
    PROVE  open'[v].stage # "mismatch"
<1> DEFINE o == open[v]
           found == {key \in Keys : Reconstructs(o, key)}
           enough == o.recipient # None /\ Cardinality(Got(o)) >= Threshold
<1>1. o \in Open
  BY DEF FinishOpen, At, ReaderTypeOK
<1>2. found # {}
  <2>1. PICK k \in Got(o), l \in Got(o) :
          k # l /\ <<k, o.key>> \notin displaced /\ <<l, o.key>> \notin displaced
    BY DEF Missed
  <2>2. /\ o.key \in Keys /\ o.shares[k] \in Keys /\ o.shares[l] \in Keys
        /\ k \in Keypers /\ l \in Keypers
    BY <1>1, <2>1 DEF Open, Got
  <2>3. o.shares[k] = o.key /\ o.shares[l] = o.key
    BY <2>1, <2>2, ReaderAssumption DEF OpenOK
  <2>4. Reconstructs(o, o.key)
    BY <2>1, <2>3 DEF Reconstructs
  <2> QED BY <2>2, <2>4
<1>3. \E stage \in {"not_released", "blob_error", "opened"} :
        \/ open' = [open EXCEPT ![v].stage = stage]
        \/ \E key : open' = [open EXCEPT ![v].stage = stage, ![v].key = key]
  BY <1>2 DEF FinishOpen, Goes
<1> QED BY <1>1, <1>3 DEF ReaderTypeOK, Open

LEMMA MismatchStep ==
    ASSUME KeyIInv, ReaderTypeOK, OpensOK, MismatchOK, Threshold <= 2,
           [ReaderNext]_readVars
    PROVE  MismatchOK'
<1> SUFFICES ASSUME NEW v \in Readers, open'[v] # None, open'[v].stage = "mismatch"
             PROVE  Missed(v)'
  BY DEF MismatchOK, At
<1>0. TypeOK /\ DealInv /\ ShareTypeOK
  BY DEF KeyIInv, DealInv
<1>1. displaced \subseteq displaced'
  BY ReaderCases, DisplacedGrows DEF Around, readVars
<1>2. CASE /\ open[v] # None /\ open[v].stage = "mismatch"
           /\ open'[v].key = open[v].key /\ open'[v].shares = open[v].shares
  BY <1>1, <1>2 DEF MismatchOK, At, Missed, Got
<1>3. CASE Disturbs
  BY <1>2, <1>3, DisturbsEffect
<1>4. CASE open'[v] = open[v]
  BY <1>2, <1>4
<1>5. CASE Reading /\ UNCHANGED allVars /\ open'[v] # open[v]
  <2>1. ASSUME NEW w \in Readers, StartOpen(w)
        PROVE  FALSE
    BY <1>0, <1>5, <2>1, StartOpenEffect DEF ReaderTypeOK
  <2>2. ASSUME NEW w \in Readers, CloseOpen(w)
        PROVE  FALSE
    BY <1>5, <2>2 DEF CloseOpen, ReaderTypeOK
  <2>3. ASSUME NEW w \in Readers,
               \/ ReadRecipient(w) \/ FinishOpen(w)
               \/ \E k \in Keypers : Collect(w, k) \/ KeyperDown(w, k)
        PROVE  Missed(v)'
    <3>1. w = v /\ open[v] # None
      BY <1>5, <2>3, ReadingEffect
    <3>2. PICK o \in Open :
              /\ open' = [open EXCEPT ![v] = o]
              /\ o.stage = "mismatch" => FinishOpen(v)
      BY <1>0, <2>3, <3>1, GoesOnEffect
    <3>3. open'[v] = o
      BY <3>2 DEF ReaderTypeOK
    <3>4. FinishOpen(v) /\ OpenOK(open[v])
      BY <3>1, <3>2, <3>3 DEF OpensOK
    <3>5. Missed(v)
      BY <3>4, NoMismatch
    <3>6. open'[v].key = open[v].key /\ open'[v].shares = open[v].shares
      <4>1. Goes(v, "mismatch")
        BY <3>4 DEF FinishOpen, Goes, ReaderTypeOK, Open
      <4> QED BY <3>1, <4>1 DEF Goes, ReaderTypeOK, Open
    <3> QED BY <1>1, <3>5, <3>6 DEF Missed, Got
  <2> QED BY <1>5, <2>1, <2>2, <2>3 DEF Reading
<1> QED BY <1>3, <1>4, <1>5, ReaderCases DEF Around, readVars

LEMMA ReaderInitOK == ReaderInit => ReaderTypeOK /\ OpensOK /\ MismatchOK
BY DEF ReaderInit, ReaderTypeOK, OpensOK, MismatchOK, At

LEMMA ReaderTyped == ReaderSpec => [](KeyIInv /\ ReaderTypeOK)
<1>1. KeyIInv /\ ReaderTypeOK /\ [ReaderNext]_readVars => ReaderTypeOK'
  BY ReaderTypeStep DEF KeyIInv, DealInv
<1> QED BY <1>1, ReadersOnlyRead, KeyInvariant, ReaderInitOK, PTL DEF ReaderSpec
(***************************************************************************)
(* An open that misses the key with enough shares in hand has no two of    *)
(* them from keypers that never overwrote theirs: "robust to one bad       *)
(* share" of three, and a mixture of keys needs two keypers that were told *)
(* of another key.  For any readers, keypers, documents, routes, late and  *)
(* overlapping deals, wherever two shares reconstruct.                     *)
(***************************************************************************)
THEOREM MismatchesAreOverwrites ==
    ASSUME Threshold <= 2
    PROVE  ReaderSpec => [](\A v \in Readers : At(v, "mismatch") => Missed(v))
<1>1. KeyIInv /\ SafeInv /\ ReaderTypeOK /\ OpensOK /\ [ReaderNext]_readVars => OpensOK'
  BY OpensStep
<1>2. KeyIInv /\ ReaderTypeOK /\ OpensOK /\ MismatchOK /\ [ReaderNext]_readVars
        => MismatchOK'
  BY MismatchStep
<1>3. MismatchOK => (\A v \in Readers : At(v, "mismatch") => Missed(v))
  BY DEF MismatchOK
<1> QED
  BY <1>1, <1>2, <1>3, ReadersOnlyRead, SafeInvariant, ReaderTyped, ReaderInitOK, PTL
     DEF ReaderSpec

===============================================================================
