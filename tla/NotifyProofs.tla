---------------------------- MODULE NotifyProofs ----------------------------
(***************************************************************************)
(* Proofs about module Notify: its invariants for any number of paths,     *)
(* versions, sessions and fan-outs.                                        *)
(***************************************************************************)
EXTENDS Notify, TLAPS

(* Some index has held k: the version of its path is at least that.        *)
Held(k) == k[2] <= version[k[1]]

(* What a fan-out announces is claimed until it is marked; it is marked as *)
(* soon as one notify has succeeded; and what is claimed is not marked.    *)
Claims ==
  /\ seen \cap inflight = {}
  /\ \A b \in Batch : keys[b] \subseteq inflight \cup seen
  /\ \A b \in Batch : anyOK[b] => keys[b] \subseteq seen

(* Whatever is announced, now or later, is a version the index has held.   *)
Announced ==
  /\ \A s \in Session : \A p \in applied[s] : version[p] > 0
  /\ \A k \in hints : Held(k)
  /\ \A s \in Session : \A k \in acquired[s] : Held(k)
  /\ \A b \in Batch : \A k \in keys[b] : Held(k)

IInv == TypeOK /\ ClaimsOwned /\ Claims /\ SilencedIsKnown /\ Announced /\ SilencedIsHeld

-----------------------------------------------------------------------------
(* The tracker and the fan-outs: one lemma for each of the two groups of   *)
(* invariants, by the kinds of step that can disturb it.                   *)

(* A fan-out that begins claims only what is free (scheduleNotify, claim). *)
LEMMA ScheduleClaims ==
  ASSUME TypeOK, ClaimsOwned, Claims, NEW ks \in SUBSET Key, scheduleNotify(ks)
  PROVE  /\ (ClaimsOwned /\ Claims)'
         /\ seen' = seen
         /\ inflight' \in SUBSET Key
         /\ keys' \in [Batch -> SUBSET Key]
         /\ sending' \in [Batch -> SUBSET Session]
         /\ anyOK' \in [Batch -> BOOLEAN]
         /\ \A b \in Batch : keys'[b] \subseteq keys[b] \cup ks
<1>1. CASE UNCHANGED <<trackerVars, fanoutVars>>
  BY <1>1 DEF trackerVars, fanoutVars, ClaimsOwned, Claims, TypeOK
<1>2. ASSUME NEW sessions \in SUBSET Session, NEW b \in Batch, ~Live(b),
             NEW toSend, toSend = {k \in ks : free(k)},
             claim(toSend),
             keys' = [keys EXCEPT ![b] = toSend],
             sending' = [sending EXCEPT ![b] = sessions],
             anyOK' = [anyOK EXCEPT ![b] = FALSE]
      PROVE  /\ (ClaimsOwned /\ Claims)'
             /\ seen' = seen
             /\ inflight' \in SUBSET Key
             /\ keys' \in [Batch -> SUBSET Key]
             /\ sending' \in [Batch -> SUBSET Session]
             /\ anyOK' \in [Batch -> BOOLEAN]
             /\ \A c \in Batch : keys'[c] \subseteq keys[c] \cup ks
  <2>1. /\ toSend \in SUBSET Key /\ toSend \cap seen = {} /\ toSend \cap inflight = {}
        /\ toSend \subseteq ks
    BY <1>2 DEF free
  <2>2. seen' = seen /\ inflight' = inflight \cup toSend
    BY <1>2 DEF claim
  <2>3. /\ keys' \in [Batch -> SUBSET Key] /\ keys'[b] = toSend /\ keys[b] = {}
        /\ \A c \in Batch : c # b => keys'[c] = keys[c]
    BY <1>2, <2>1 DEF TypeOK, Live
  <2>4. /\ anyOK' \in [Batch -> BOOLEAN] /\ anyOK'[b] = FALSE
        /\ \A c \in Batch : c # b => anyOK'[c] = anyOK[c]
    BY <1>2 DEF TypeOK
  <2>5. sending' \in [Batch -> SUBSET Session]
    BY <1>2 DEF TypeOK
  <2>6. \A c \in Batch : c # b => keys[c] \cap toSend = {}
    BY <2>1 DEF Claims
  <2>7. ClaimsOwned'
    <3>1. inflight' \subseteq UNION {keys'[c] : c \in Batch}
      BY <2>2, <2>3 DEF ClaimsOwned
    <3>2. \A a, c \in Batch : a # c => keys'[a] \cap keys'[c] = {}
      BY <2>3, <2>6 DEF ClaimsOwned
    <3> QED  BY <3>1, <3>2 DEF ClaimsOwned
  <2>8. Claims'
    BY <2>1, <2>2, <2>3, <2>4 DEF Claims
  <2>9. \A c \in Batch : keys'[c] \subseteq keys[c] \cup ks
    BY <2>1, <2>3
  <2> QED  BY <2>1, <2>2, <2>3, <2>4, <2>5, <2>7, <2>8, <2>9 DEF TypeOK
<1>3. PICK sessions \in SUBSET Session :
        \/ UNCHANGED <<trackerVars, fanoutVars>>
        \/ /\ claim({k \in ks : free(k)})
           /\ \E b \in Batch :
                /\ ~Live(b)
                /\ keys' = [keys EXCEPT ![b] = {k \in ks : free(k)}]
                /\ sending' = [sending EXCEPT ![b] = sessions]
                /\ anyOK' = [anyOK EXCEPT ![b] = FALSE]
  BY DEF scheduleNotify
<1> QED  BY <1>1, <1>2, <1>3

(* A notify that was sent marks what its fan-out had claimed.              *)
LEMMA SentClaims ==
  ASSUME TypeOK, ClaimsOwned, Claims, NEW b \in Batch, NEW s \in Session,
         NotifySent(b, s)
  PROVE  (ClaimsOwned /\ Claims)'
<1>1. /\ seen' = seen \cup keys[b] /\ inflight' = inflight \ keys[b]
      /\ keys' = keys /\ anyOK' = [anyOK EXCEPT ![b] = TRUE]
  BY DEF NotifySent, mark
<1>2. ClaimsOwned'
  BY <1>1 DEF ClaimsOwned
<1>3. Claims'
  BY <1>1 DEF Claims, TypeOK
<1> QED  BY <1>2, <1>3

(* A fan-out ends: what it had claimed is marked or free again.            *)
LEMMA DoneClaims ==
  ASSUME TypeOK, ClaimsOwned, Claims, NEW b \in Batch, NotifyDone(b)
  PROVE  (ClaimsOwned /\ Claims)' /\ seen' = seen /\ inflight' \subseteq inflight
<1>1. /\ seen' = seen /\ inflight' \subseteq inflight
      /\ inflight' \cap keys[b] = {}
      /\ inflight \ inflight' \subseteq keys[b]
  BY DEF NotifyDone, release, trackerVars, Claims
<1>2. /\ anyOK' = anyOK /\ keys'[b] = {}
      /\ \A c \in Batch : c # b => keys'[c] = keys[c]
  BY DEF NotifyDone, TypeOK
<1>3. ClaimsOwned'
  <2>1. inflight' \subseteq UNION {keys'[c] : c \in Batch}
    BY <1>1, <1>2 DEF ClaimsOwned
  <2>2. \A a, c \in Batch : a # c => keys'[a] \cap keys'[c] = {}
    BY <1>2 DEF ClaimsOwned
  <2> QED  BY <2>1, <2>2 DEF ClaimsOwned
<1>4. Claims'
  <2>1. \A c \in Batch : keys'[c] \subseteq inflight' \cup seen'
    <3> SUFFICES ASSUME NEW c \in Batch, c # b PROVE keys[c] \subseteq inflight' \cup seen
      BY <1>1, <1>2
    <3>1. keys[c] \cap keys[b] = {}
      BY DEF ClaimsOwned
    <3> QED  BY <3>1, <1>1 DEF Claims
  <2>2. \A c \in Batch : anyOK'[c] => keys'[c] \subseteq seen'
    BY <1>1, <1>2 DEF Claims
  <2> QED  BY <1>1, <2>1, <2>2 DEF Claims
<1> QED  BY <1>1, <1>3, <1>4

-----------------------------------------------------------------------------
(* Types *)

LEMMA InitInv == Init => IInv
BY NotifyAssumption DEF Init, IInv, TypeOK, ClaimsOwned, Claims, SilencedIsKnown,
                        Announced, SilencedIsHeld, Held, Key

(* What the index holds for a path that was just applied is a key.         *)
LEMMA HeldKey ==
  ASSUME TypeOK, NEW p \in Path, version[p] > 0
  PROVE  <<p, version[p]>> \in Key
BY NotifyAssumption DEF TypeOK, Key

(* An index only goes forward, and then every key that was held still is.  *)
LEMMA HeldForward ==
  ASSUME TypeOK, NEW k \in Key, Held(k),
         version' \in [Path -> 0..MaxVersion],
         \A p \in Path : version[p] <= version'[p]
  PROVE  Held(k)'
BY NotifyAssumption DEF TypeOK, Held, Key

-----------------------------------------------------------------------------
(* Every step preserves the invariant.                                     *)

(* Steps that leave the index alone, and announce nothing that was not to  *)
(* be announced before.                                                    *)
LEMMA ExpiresInv ==
  ASSUME IInv, NEW k \in Key, SeenExpires(k)
  PROVE  IInv'
<1>1. /\ seen' = seen \ {k} /\ \A b \in Batch : k \notin keys[b]
      /\ UNCHANGED <<version, hints, applied, acquired, inflight, keys, sending,
                     anyOK, known>>
  BY DEF SeenExpires, indexVars, fanoutVars
<1>2. TypeOK'
  BY <1>1 DEF IInv, TypeOK
<1>3. ClaimsOwned' /\ Claims'
  BY <1>1 DEF IInv, ClaimsOwned, Claims
<1>4. SilencedIsKnown' /\ Announced' /\ SilencedIsHeld'
  BY <1>1 DEF IInv, SilencedIsKnown, Announced, SilencedIsHeld, Held
<1> QED  BY <1>2, <1>3, <1>4 DEF IInv

LEMMA SentInv ==
  ASSUME IInv, NEW b \in Batch, NEW s \in Session, NotifySent(b, s)
  PROVE  IInv'
<1>1. /\ seen' = seen \cup keys[b] /\ inflight' = inflight \ keys[b]
      /\ known' = known \cup keys[b]
      /\ sending' = [sending EXCEPT ![b] = @ \ {s}]
      /\ anyOK' = [anyOK EXCEPT ![b] = TRUE]
      /\ UNCHANGED <<version, hints, applied, acquired, keys>>
  BY DEF NotifySent, mark, indexVars
<1>2. TypeOK'
  BY <1>1 DEF IInv, TypeOK
<1>3. ClaimsOwned' /\ Claims'
  BY SentClaims DEF IInv
<1>4. SilencedIsKnown' /\ Announced' /\ SilencedIsHeld'
  BY <1>1 DEF IInv, SilencedIsKnown, Announced, SilencedIsHeld, Held
<1> QED  BY <1>2, <1>3, <1>4 DEF IInv

LEMMA FailedInv ==
  ASSUME IInv, NEW b \in Batch, NEW s \in Session, NotifyFailed(b, s)
  PROVE  IInv'
<1>1. /\ sending' = [sending EXCEPT ![b] = @ \ {s}]
      /\ UNCHANGED <<version, hints, applied, acquired, seen, inflight, keys,
                     anyOK, known>>
  BY DEF NotifyFailed, indexVars, trackerVars
<1>2. TypeOK'
  BY <1>1 DEF IInv, TypeOK
<1>3. ClaimsOwned' /\ Claims'
  BY <1>1 DEF IInv, ClaimsOwned, Claims
<1>4. SilencedIsKnown' /\ Announced' /\ SilencedIsHeld'
  BY <1>1 DEF IInv, SilencedIsKnown, Announced, SilencedIsHeld, Held
<1> QED  BY <1>2, <1>3, <1>4 DEF IInv

LEMMA DoneInv ==
  ASSUME IInv, NEW b \in Batch, NotifyDone(b)
  PROVE  IInv'
<1>1. /\ keys' = [keys EXCEPT ![b] = {}]
      /\ UNCHANGED <<version, hints, applied, acquired, sending, anyOK, known>>
  BY DEF NotifyDone, indexVars
<1>2. ClaimsOwned' /\ Claims' /\ seen' = seen /\ inflight' \subseteq inflight
  BY DoneClaims DEF IInv
<1>3. TypeOK'
  BY <1>1, <1>2 DEF IInv, TypeOK
<1>4. \A c \in Batch : keys'[c] \subseteq keys[c]
  BY <1>1 DEF IInv, TypeOK
<1>5. SilencedIsKnown' /\ Announced' /\ SilencedIsHeld'
  BY <1>1, <1>2, <1>4 DEF IInv, SilencedIsKnown, Announced, SilencedIsHeld, Held
<1> QED  BY <1>2, <1>3, <1>5 DEF IInv

(* A scan or a pull announces what it has found.                           *)
LEMMA AnnounceInv ==
  ASSUME IInv, NEW ks \in SUBSET Key, \A k \in ks : Held(k),
         scheduleNotify(ks) \/ UNCHANGED <<trackerVars, fanoutVars>>,
         hints' \subseteq hints, acquired' \in [Session -> SUBSET Key],
         \A s \in Session : acquired'[s] \subseteq acquired[s],
         UNCHANGED <<version, applied, known>>
  PROVE  IInv'
<1>1. /\ (ClaimsOwned /\ Claims)'
      /\ seen' = seen
      /\ inflight' \in SUBSET Key
      /\ keys' \in [Batch -> SUBSET Key]
      /\ sending' \in [Batch -> SUBSET Session]
      /\ anyOK' \in [Batch -> BOOLEAN]
      /\ \A b \in Batch : keys'[b] \subseteq keys[b] \cup ks
  <2>1. CASE scheduleNotify(ks)
    BY <2>1, ScheduleClaims DEF IInv
  <2>2. CASE UNCHANGED <<trackerVars, fanoutVars>>
    BY <2>2 DEF IInv, trackerVars, fanoutVars, ClaimsOwned, Claims, TypeOK
  <2> QED  BY <2>1, <2>2
<1>2. TypeOK'
  BY <1>1 DEF IInv, TypeOK
<1>3. SilencedIsKnown' /\ SilencedIsHeld'
  BY <1>1 DEF IInv, SilencedIsKnown, SilencedIsHeld
<1>4. Announced'
  BY <1>1 DEF IInv, Announced, Held
<1> QED  BY <1>1, <1>2, <1>3, <1>4 DEF IInv

(* The index goes forward, by a scan or by a pull.                         *)
LEMMA IndexInv ==
  ASSUME IInv, version' \in [Path -> 0..MaxVersion],
         \A p \in Path : version[p] <= version'[p],
         hints' \in SUBSET Key, \A k \in hints' : k \in hints \/ Held(k)',
         applied' \in [Session -> SUBSET Path],
         \A s \in Session : \A p \in applied'[s] : version'[p] > 0,
         UNCHANGED <<acquired, trackerVars, fanoutVars, known>>
  PROVE  IInv'
<1>1. UNCHANGED <<acquired, seen, inflight, keys, sending, anyOK, known>>
  BY DEF trackerVars, fanoutVars
<1>2. TypeOK'
  BY <1>1 DEF IInv, TypeOK
<1>3. ClaimsOwned' /\ Claims' /\ SilencedIsKnown'
  BY <1>1 DEF IInv, ClaimsOwned, Claims, SilencedIsKnown
<1>4. \A k \in Key : Held(k) => Held(k)'
  BY HeldForward DEF IInv
<1>5. Announced'
  BY <1>1, <1>4 DEF IInv, Announced, TypeOK
<1>6. SilencedIsHeld'
  BY <1>1, <1>4 DEF IInv, SilencedIsHeld, Held, TypeOK
<1> QED  BY <1>2, <1>3, <1>5, <1>6 DEF IInv

LEMMA ReconcileInv == ASSUME IInv, Reconcile PROVE IInv'
<1>1. PICK changed \in SUBSET Path :
        /\ \A p \in changed : version[p] < MaxVersion
        /\ version' = [p \in Path |-> version[p] + IF p \in changed THEN 1 ELSE 0]
        /\ hints' = {<<p, version'[p]>> : p \in changed} \/ hints' = hints
        /\ UNCHANGED <<applied, acquired, trackerVars, fanoutVars, known>>
  BY DEF Reconcile
<1>2. version \in [Path -> 0..MaxVersion] /\ applied \in [Session -> SUBSET Path]
      /\ hints \in SUBSET Key
  BY DEF IInv, TypeOK
<1>3. /\ version' \in [Path -> 0..MaxVersion]
      /\ \A p \in Path : version[p] <= version'[p]
      /\ \A p \in changed : version'[p] > 0
  BY <1>1, <1>2, NotifyAssumption
<1>4. \A p \in changed : <<p, version'[p]>> \in Key
  BY <1>3, NotifyAssumption DEF Key
<1>5. hints' \in SUBSET Key /\ \A k \in hints' : k \in hints \/ Held(k)'
  <2>1. CASE hints' = hints
    BY <2>1, <1>2
  <2>2. CASE hints' = {<<p, version'[p]>> : p \in changed}
    <3>1. \A p \in changed : version'[p] <= version'[p]
      BY <1>3, NotifyAssumption
    <3> QED  BY <2>2, <3>1, <1>4 DEF Held
  <2> QED  BY <1>1, <2>1, <2>2
<1>6. applied' \in [Session -> SUBSET Path]
      /\ \A s \in Session : \A p \in applied'[s] : version'[p] > 0
  <2>1. applied' = applied
    BY <1>1
  <2>2. \A s \in Session : \A p \in applied[s] : version[p] > 0 /\ p \in Path
    BY <1>2 DEF IInv, Announced
  <2> QED  BY <2>1, <2>2, <1>2, <1>3, NotifyAssumption
<1> QED  BY <1>1, <1>3, <1>5, <1>6, IndexInv

LEMMA AppliesInv ==
  ASSUME IInv, NEW s \in Session, NEW p \in Path, PullApplies(s, p)
  PROVE  IInv'
<1>1. PICK v \in version[p] + 1 .. MaxVersion : version' = [version EXCEPT ![p] = v]
  BY DEF PullApplies
<1>2. /\ applied' = [applied EXCEPT ![s] = {p}]
      /\ UNCHANGED <<hints, acquired, trackerVars, fanoutVars, known>>
  BY DEF PullApplies
<1>3. version \in [Path -> 0..MaxVersion] /\ applied \in [Session -> SUBSET Path]
      /\ hints \in SUBSET Key
  BY DEF IInv, TypeOK
<1>4. /\ version' \in [Path -> 0..MaxVersion]
      /\ \A q \in Path : version[q] <= version'[q]
      /\ version'[p] > 0
  BY <1>1, <1>3, NotifyAssumption
<1>5. hints' \in SUBSET Key /\ \A k \in hints' : k \in hints \/ Held(k)'
  BY <1>2, <1>3
<1>6. applied' \in [Session -> SUBSET Path]
      /\ \A t \in Session : \A q \in applied'[t] : version'[q] > 0
  <2>1. \A t \in Session : \A q \in applied[t] : version[q] > 0 /\ q \in Path
    BY <1>3 DEF IInv, Announced
  <2> QED  BY <2>1, <1>2, <1>3, <1>4, NotifyAssumption
<1> QED  BY <1>2, <1>4, <1>5, <1>6, IndexInv

LEMMA LooksUpInv ==
  ASSUME IInv, NEW s \in Session, PullLooksUp(s)
  PROVE  IInv'
<1> DEFINE found == {<<p, version[p]>> : p \in applied[s]}
<1>1. /\ acquired' = [acquired EXCEPT ![s] = @ \cup found]
      /\ applied' = [applied EXCEPT ![s] = {}]
      /\ UNCHANGED <<version, hints, seen, inflight, keys, sending, anyOK, known>>
  BY DEF PullLooksUp, trackerVars, fanoutVars
<1>2. version \in [Path -> 0..MaxVersion] /\ applied \in [Session -> SUBSET Path]
  BY DEF IInv, TypeOK
<1>3. \A p \in applied[s] : p \in Path /\ version[p] > 0
  BY <1>2 DEF IInv, Announced
<1>4. found \in SUBSET Key
  BY <1>3, HeldKey DEF IInv
<1>5. \A k \in found : Held(k)
  BY <1>2, <1>3, NotifyAssumption DEF Held
<1> HIDE DEF found
<1>6. TypeOK'
  BY <1>1, <1>4 DEF IInv, TypeOK
<1>7. ClaimsOwned' /\ Claims' /\ SilencedIsKnown' /\ SilencedIsHeld'
  BY <1>1 DEF IInv, ClaimsOwned, Claims, SilencedIsKnown, SilencedIsHeld
<1>8. Announced'
  <2>1. \A t \in Session : \A k \in acquired'[t] : Held(k)
    BY <1>1, <1>5 DEF IInv, TypeOK, Announced
  <2>2. \A t \in Session : applied'[t] \subseteq applied[t]
    BY <1>1, <1>2
  <2> QED  BY <1>1, <2>1, <2>2 DEF IInv, Announced, Held
<1> QED  BY <1>6, <1>7, <1>8 DEF IInv

(* A notify that comes in marks only what the index holds.                 *)
LEMMA OnNotifyInv ==
  ASSUME IInv, NEW ks \in SUBSET Key, OnNotify(ks)
  PROVE  IInv'
<1>1. /\ known' = known \cup ks
      /\ UNCHANGED <<version, hints, applied, acquired, keys, sending, anyOK>>
  BY DEF OnNotify, indexVars, fanoutVars
<1>2. \/ seen' = seen /\ inflight' = inflight
      \/ /\ seen' = seen \cup ks /\ inflight' = inflight \ ks
         /\ \A k \in ks : Held(k)
  BY DEF OnNotify, alreadyHaveAll, mark, trackerVars, Held
<1>3. TypeOK'
  BY <1>1, <1>2 DEF IInv, TypeOK
<1>4. ClaimsOwned' /\ Claims'
  BY <1>1, <1>2 DEF IInv, ClaimsOwned, Claims
<1>5. SilencedIsKnown' /\ Announced' /\ SilencedIsHeld'
  BY <1>1, <1>2 DEF IInv, SilencedIsKnown, Announced, SilencedIsHeld, Held
<1> QED  BY <1>3, <1>4, <1>5 DEF IInv

LEMMA NextInv == IInv /\ [Next]_vars => IInv'
<1> SUFFICES ASSUME IInv, [Next]_vars PROVE IInv'
  OBVIOUS
<1>1. ASSUME NEW k \in Key, SeenExpires(k) PROVE IInv'
  BY <1>1, ExpiresInv
<1>2. ASSUME NEW b \in Batch, NEW s \in Session,
             NotifySent(b, s) \/ NotifyFailed(b, s)
      PROVE  IInv'
  BY <1>2, SentInv, FailedInv
<1>3. ASSUME NEW b \in Batch, NotifyDone(b) PROVE IInv'
  BY <1>3, DoneInv
<1>4. CASE Reconcile
  BY <1>4, ReconcileInv
<1>5. CASE AnnounceScan
  <2>1. hints \in SUBSET Key /\ \A k \in hints : Held(k)
    BY DEF IInv, TypeOK, Announced
  <2>2. /\ scheduleNotify(hints) /\ hints' \subseteq hints
        /\ UNCHANGED <<version, applied, acquired, known>>
    BY <1>5 DEF AnnounceScan
  <2>3. acquired' \in [Session -> SUBSET Key]
        /\ \A s \in Session : acquired'[s] \subseteq acquired[s]
    BY <2>2 DEF IInv, TypeOK
  <2> QED  BY <2>1, <2>2, <2>3, AnnounceInv
<1>6. ASSUME NEW s \in Session, NEW p \in Path, PullApplies(s, p) PROVE IInv'
  BY <1>6, AppliesInv
<1>7. ASSUME NEW s \in Session, PullLooksUp(s) PROVE IInv'
  BY <1>7, LooksUpInv
<1>8. ASSUME NEW s \in Session, AnnouncePull(s) PROVE IInv'
  <2>1. acquired \in [Session -> SUBSET Key] /\ \A k \in acquired[s] : Held(k)
    BY DEF IInv, TypeOK, Announced
  <2>2. /\ scheduleNotify(acquired[s]) \/ UNCHANGED <<trackerVars, fanoutVars>>
        /\ acquired' = [acquired EXCEPT ![s] = {}]
        /\ UNCHANGED <<version, hints, applied, known>>
    BY <1>8 DEF AnnouncePull
  <2>3. acquired' \in [Session -> SUBSET Key]
        /\ \A t \in Session : acquired'[t] \subseteq acquired[t]
    BY <2>1, <2>2
  <2> QED  BY <2>1, <2>2, <2>3, AnnounceInv
<1>9. ASSUME NEW ks \in SUBSET Key, OnNotify(ks) PROVE IInv'
  BY <1>9, OnNotifyInv
<1>10. CASE UNCHANGED vars
  BY <1>10 DEF IInv, TypeOK, ClaimsOwned, Claims, SilencedIsKnown, Announced,
               SilencedIsHeld, Held, vars, indexVars, trackerVars, fanoutVars
<1> QED
  BY <1>1, <1>2, <1>3, <1>4, <1>5, <1>6, <1>7, <1>8, <1>9, <1>10 DEF Next

LEMMA InvAlways == Spec => []IInv
BY InitInv, NextInv, PTL DEF Spec

-----------------------------------------------------------------------------
(* The tracker, the queues and the fan-outs keep their types, for any      *)
(* number of versions, peers and fan-outs.                                 *)
THEOREM TypeCorrect == Spec => []TypeOK
<1>1. IInv => TypeOK
  BY DEF IInv
<1> QED  BY <1>1, InvAlways, PTL

(* For any number of concurrent fan-outs, no claim outlives its fan-out    *)
(* and no key is announced by two (claim, mark and release).               *)
THEOREM ClaimsAreOwned == Spec => []ClaimsOwned
<1>1. IInv => ClaimsOwned
  BY DEF IInv
<1> QED  BY <1>1, InvAlways, PTL

(* A key is silenced only if some peer has it (mark, onNotify).            *)
THEOREM SilencedKeysAreKnown == Spec => []SilencedIsKnown
<1>1. IInv => SilencedIsKnown
  BY DEF IInv
<1> QED  BY <1>1, InvAlways, PTL

(* A version the index does not hold is never silenced (alreadyHaveAll).   *)
THEOREM SilencedKeysAreHeld == Spec => []SilencedIsHeld
<1>1. IInv => SilencedIsHeld
  BY DEF IInv
<1> QED  BY <1>1, InvAlways, PTL
=============================================================================
