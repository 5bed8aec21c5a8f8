------------------------------- MODULE Notify -------------------------------
(***************************************************************************)
(* The notify tracker and the fan-outs of notifies of one daemon           *)
(* (daemon/notify.go), with what makes it announce: its own scans, the     *)
(* goroutines that pull from peers, and notifies that come in.             *)
(*                                                                         *)
(* A key names one version of a path, and a higher version is a newer      *)
(* entry.  A fan-out claims the keys that nobody has announced, sends them *)
(* to every connected session in a goroutine each, marks them all as seen  *)
(* at the first success and, if there was none, releases them when its     *)
(* last goroutine is done.                                                 *)
(***************************************************************************)
EXTENDS Naturals, FiniteSets

CONSTANTS
  Path,
  MaxVersion,  \* bound on the versions of a path
  Session,     \* sessions with peers
  Batch        \* fan-outs that can be under way at the same time

ASSUME NotifyAssumption == MaxVersion \in Nat

Key == Path \X (1..MaxVersion)

VARIABLES
  version,   \* version[p]: what the index holds, 0 for no entry
  hints,     \* what the main loop is about to announce
  applied,   \* applied[s]: the path the pull from s has just applied, if any
  acquired,  \* acquired[s]: what that pull is going to announce
  seen,      \* keys that are not announced (again)
  inflight,  \* keys claimed by a fan-out
  keys,      \* keys[b]: what fan-out b announces
  sending,   \* sending[b]: its notify goroutines that are not done
  anyOK,     \* anyOK[b]: one of them has succeeded
  known      \* history: the keys that were sent to or came from some peer

trackerVars == <<seen, inflight>>
fanoutVars == <<keys, sending, anyOK>>
indexVars == <<version, hints, applied, acquired>>
vars == <<indexVars, trackerVars, fanoutVars, known>>

(* Fan-out b is under way: a notify goroutine or the one that waits for    *)
(* them all is still there.                                                *)
Live(b) == keys[b] # {}

TypeOK ==
  /\ version \in [Path -> 0..MaxVersion]
  /\ hints \subseteq Key
  /\ applied \in [Session -> SUBSET Path] /\ acquired \in [Session -> SUBSET Key]
  /\ seen \subseteq Key /\ inflight \subseteq Key /\ known \subseteq Key
  /\ keys \in [Batch -> SUBSET Key]
  /\ sending \in [Batch -> SUBSET Session]
  /\ anyOK \in [Batch -> BOOLEAN]

Init ==
  /\ version = [p \in Path |-> 0]
  /\ hints = {}
  /\ applied = [s \in Session |-> {}] /\ acquired = [s \in Session |-> {}]
  /\ seen = {} /\ inflight = {} /\ known = {}
  /\ keys = [b \in Batch |-> {}]
  /\ sending = [b \in Batch |-> {}]
  /\ anyOK = [b \in Batch |-> FALSE]

-----------------------------------------------------------------------------
(* The tracker; every operation holds its mutex.                           *)

(* freeLocked *)
free(k) == k \notin seen /\ k \notin inflight

claim(ks) == inflight' = inflight \cup ks /\ UNCHANGED seen

mark(ks) == seen' = seen \cup ks /\ inflight' = inflight \ ks

release(ks) == inflight' = inflight \ ks /\ UNCHANGED seen

(* gcLocked: a key is forgotten after notifySeenTTL.  That is ten minutes, *)
(* and the goroutines of a fan-out have deadlines of some seconds.         *)
SeenExpires(k) ==
  /\ k \in seen
  /\ \A b \in Batch : k \notin keys[b]
  /\ seen' = seen \ {k}
  /\ UNCHANGED <<indexVars, inflight, fanoutVars, known>>

-----------------------------------------------------------------------------
(* Fan-outs *)

(* scheduleNotify with the healthy sessions it finds: nothing is claimed   *)
(* when there is nobody to tell, or nothing to say.                        *)
scheduleNotify(ks) ==
  \E sessions \in SUBSET Session :
    LET toSend == {k \in ks : free(k)} IN
    \/ /\ sessions = {} \/ toSend = {}
       /\ UNCHANGED <<trackerVars, fanoutVars>>
    \/ /\ sessions # {} /\ toSend # {}
       /\ claim(toSend)
       /\ \E b \in Batch :
            /\ ~Live(b)
            /\ keys' = [keys EXCEPT ![b] = toSend]
            /\ sending' = [sending EXCEPT ![b] = sessions]
            /\ anyOK' = [anyOK EXCEPT ![b] = FALSE]

(* A notify goroutine has sent its message.                                *)
NotifySent(b, s) ==
  /\ s \in sending[b]
  /\ sending' = [sending EXCEPT ![b] = @ \ {s}]
  /\ anyOK' = [anyOK EXCEPT ![b] = TRUE]
  /\ mark(keys[b])
  /\ known' = known \cup keys[b]
  /\ UNCHANGED <<indexVars, keys>>

(* Fault: keys are marked when they could not be sent, too.                *)
NotifyFailedMarks(b, s) ==
  /\ s \in sending[b]
  /\ sending' = [sending EXCEPT ![b] = @ \ {s}]
  /\ mark(keys[b])
  /\ UNCHANGED <<indexVars, keys, anyOK, known>>

(* It has failed: the session, the stream, or the context is gone.         *)
NotifyFailed(b, s) ==
  /\ s \in sending[b]
  /\ sending' = [sending EXCEPT ![b] = @ \ {s}]
  /\ UNCHANGED <<indexVars, trackerVars, keys, anyOK, known>>

(* Fault: the claim of a batch that failed is kept.                        *)
NotifyDoneKeeps(b) ==
  /\ Live(b) /\ sending[b] = {}
  /\ keys' = [keys EXCEPT ![b] = {}]
  /\ UNCHANGED <<indexVars, trackerVars, sending, anyOK, known>>

(* The goroutine that waits for the batch: release if all have failed.     *)
NotifyDone(b) ==
  /\ Live(b) /\ sending[b] = {}
  /\ IF anyOK[b] THEN UNCHANGED trackerVars ELSE release(keys[b])
  /\ keys' = [keys EXCEPT ![b] = {}]
  /\ UNCHANGED <<indexVars, sending, anyOK, known>>

-----------------------------------------------------------------------------
(* What there is to announce.                                              *)

(* Fault: the entries before the scan are announced.                       *)
ReconcileStale ==
  \E changed \in SUBSET Path \ {{}} :
    /\ hints = {}
    /\ \A p \in changed : version[p] < MaxVersion
    /\ version' = [p \in Path |-> version[p] + IF p \in changed THEN 1 ELSE 0]
    /\ hints' = {<<p, version[p]>> : p \in changed}
    /\ UNCHANGED <<applied, acquired, trackerVars, fanoutVars, known>>

(* doReconcile: paths that were changed have a new version.  When the save *)
(* fails the hints are lost.                                               *)
Reconcile ==
  \E changed \in SUBSET Path \ {{}} :
    /\ hints = {}
    /\ \A p \in changed : version[p] < MaxVersion
    /\ version' = [p \in Path |-> version[p] + IF p \in changed THEN 1 ELSE 0]
    /\ \/ hints' = {<<p, version'[p]>> : p \in changed}
       \/ UNCHANGED hints
    /\ UNCHANGED <<applied, acquired, trackerVars, fanoutVars, known>>

AnnounceScan ==
  /\ hints # {}
  /\ scheduleNotify(hints)
  /\ hints' = {}
  /\ UNCHANGED <<version, applied, acquired, known>>

(* pullFromSession: a newer entry is applied ...                           *)
PullApplies(s, p) ==
  /\ applied[s] = {} /\ version[p] < MaxVersion
  /\ version' \in {[version EXCEPT ![p] = v] : v \in version[p] + 1 .. MaxVersion}
  /\ applied' = [applied EXCEPT ![s] = {p}]
  /\ UNCHANGED <<hints, acquired, trackerVars, fanoutVars, known>>

(* ... and what is announced is what the index has when it is looked up    *)
(* again: maybe something newer, of a scan or of another pull.             *)
PullLooksUp(s) ==
  /\ applied[s] # {}
  /\ acquired' = [acquired EXCEPT ![s] = @ \cup {<<p, version[p]>> : p \in applied[s]}]
  /\ applied' = [applied EXCEPT ![s] = {}]
  /\ UNCHANGED <<version, hints, trackerVars, fanoutVars, known>>

(* The pull is over; if its save has failed nothing is announced.          *)
AnnouncePull(s) ==
  /\ applied[s] = {} /\ acquired[s] # {}
  /\ \/ scheduleNotify(acquired[s])
     \/ UNCHANGED <<trackerVars, fanoutVars>>
  /\ acquired' = [acquired EXCEPT ![s] = {}]
  /\ UNCHANGED <<version, hints, applied, known>>

(* Fault: one hint that is known is enough.                                *)
alreadyHaveSome(ks) == \E k \in ks : k[2] <= version[k[1]]

(* alreadyHaveAll: no hint would win against the local index.              *)
alreadyHaveAll(ks) == \A k \in ks : k[2] <= version[k[1]]

(* onNotify: known hints are marked; for others a pull is asked for, which *)
(* is the subject of module Lifecycle.                                     *)
OnNotify(ks) ==
  /\ ks # {}
  /\ IF alreadyHaveAll(ks) THEN mark(ks) ELSE UNCHANGED trackerVars
  /\ known' = known \cup ks
  /\ UNCHANGED <<indexVars, fanoutVars>>

Next ==
  \/ \E k \in Key : SeenExpires(k)
  \/ \E b \in Batch, s \in Session : NotifySent(b, s) \/ NotifyFailed(b, s)
  \/ \E b \in Batch : NotifyDone(b)
  \/ Reconcile \/ AnnounceScan
  \/ \E s \in Session, p \in Path : PullApplies(s, p)
  \/ \E s \in Session : PullLooksUp(s) \/ AnnouncePull(s)
  \/ \E ks \in SUBSET Key : OnNotify(ks)

Spec == Init /\ [][Next]_vars

-----------------------------------------------------------------------------
(* Properties *)

(* No key stays claimed by nobody, which would silence it for good, and no *)
(* key is announced by two fan-outs at once (claim, mark, release).        *)
ClaimsOwned ==
  /\ inflight \subseteq UNION {keys[b] : b \in Batch}
  /\ \A a, b \in Batch : a # b => keys[a] \cap keys[b] = {}

(* A key is silenced only if some peer has it: it was sent to one, or came *)
(* from one (mark after a success, mark in onNotify).                      *)
SilencedIsKnown == seen \subseteq known

(* A version the index does not hold is never silenced, so it can still be *)
(* announced when it is acquired (onNotify, alreadyHaveAll).               *)
SilencedIsHeld == \A k \in seen : k[2] <= version[k[1]]
=============================================================================
