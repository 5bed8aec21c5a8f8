------------------------------ MODULE Transfer ------------------------------
(***************************************************************************)
(* The transfer of one version of a file: pullAndVerify, pullContent,      *)
(* pullDelta and pullFull of the puller (daemon/apply.go), handleStream    *)
(* and serveMsg of the peer (daemon/serve.go), the frames between them     *)
(* (internal/proto) and the delta they carry (module Delta).  Each daemon  *)
(* has two semaphores, one for the streams it pulls on and one for the     *)
(* requests it serves, and does both at once.  The user edits the files    *)
(* meanwhile.  What is done with the bytes that were pulled is the subject *)
(* of module Sync.                                                         *)
(***************************************************************************)
EXTENDS Delta, FiniteSets, SequencesExt

CONSTANTS
  Node,
  Workload,       \* what there is to transfer: see Init
  NoFile,         \* a path without a file
  Slots,          \* PullStreamConcurrency
  MaxFile,        \* MaxFileBytes
  MaxMessage,     \* MaxMessageSize
  MinBlock, MaxBlock,         \* the block sizes serveDelta accepts
  FrameHeader, DeltaHeader, OpHeader, BlockRecord   \* sizes on the wire

ASSUME TransferAssumption ==
  /\ Slots \in Nat \ {0} /\ MaxFile \in Nat /\ MaxMessage \in Nat
  /\ MinBlock \in Nat \ {0} /\ MaxBlock \in Nat

File == {NoFile} \cup Seq(Nat)

ASSUME WorkloadAssumption ==
  \A w \in Workload :
    /\ IsFiniteSet(DOMAIN w.pulls) /\ w.contents \subseteq File
    /\ \A t \in DOMAIN w.pulls :
         /\ w.pulls[t].by \in Node /\ w.pulls[t].from \in Node
         /\ w.pulls[t].local \in File /\ w.pulls[t].remote \in File
         /\ w.pulls[t].bs \in Nat \ {0}

VARIABLES
  load,       \* the element of Workload that is transferred
  ph,         \* ph[t]: where the pull t is
  how,        \* how[t]: what it tries: "delta", "full", or "last"
  basis,      \* basis[t]: the bytes pullDelta has read and signed
  got,        \* got[t]: the bytes pullContent has returned
  sent,       \* history: the bytes they were made from
  reply,      \* reply[t]: the answer on the stream of t
  serving,    \* serving[t][h]: the handler of t's request for h
  local,      \* local[t]: the puller's file
  remote,     \* remote[t]: the peer's file
  drift,      \* drift[t]: it has changed since the peer's last scan
  pullSem, serveSem,      \* slots in use, by node
  stopped,    \* nodes that shut down
  broken,     \* pulls whose stream broke or timed out
  edits       \* edits of the user so far

pullVars == <<ph, how, basis, got, sent>>
fileVars == <<local, remote, drift>>
vars == <<load, pullVars, reply, serving, fileVars, pullSem, serveSem, stopped,
          broken, edits>>

Pull == DOMAIN load.pulls
Puller(t) == load.pulls[t].by
Peer(t) == load.pulls[t].from

How == {"delta", "full", "last"}
Phase == {"open", "request", "wait", "verify", "ok", "failed", "aborted", "cancelled"}
Handler == {"none", "queued", "serving", "checked", "replied"}
Over(t) == ph[t] \in {"ok", "failed", "aborted", "cancelled"}

None == [type |-> "none"]

TypeOK ==
  /\ ph \in [Pull -> Phase] /\ how \in [Pull -> How]
  /\ \A t \in Pull : reply[t].type \in {"none", "error", "file_data", "delta"}
  /\ serving \in [Pull -> [How -> Handler]]
  /\ drift \in [Pull -> BOOLEAN]
  /\ pullSem \in [Node -> 0..Slots] /\ serveSem \in [Node -> 0..Slots]
  /\ stopped \in SUBSET Node /\ broken \in SUBSET Pull /\ edits \in Nat
  /\ \A t \in Pull :
       ph[t] \in {"wait", "verify"} /\ how[t] = "delta" => basis[t] # NoFile

(* A workload gives each pull its puller, its peer, the two files, the     *)
(* puller's BlockSize and whether there is a live entry to start from, and *)
(* says how much trouble there may be.                                     *)
Init ==
  /\ load \in Workload
  /\ ph = [t \in Pull |-> "open"]
  /\ how = [t \in Pull |-> IF load.pulls[t].live THEN "delta" ELSE "last"]
  /\ basis = [t \in Pull |-> NoFile]
  /\ got = [t \in Pull |-> NoFile] /\ sent = got
  /\ reply = [t \in Pull |-> None]
  /\ serving = [t \in Pull |-> [h \in How |-> "none"]]
  /\ local = [t \in Pull |-> load.pulls[t].local]
  /\ remote = [t \in Pull |-> load.pulls[t].remote]
  /\ drift = [t \in Pull |-> FALSE]
  /\ pullSem = [n \in Node |-> 0] /\ serveSem = pullSem
  /\ stopped = {} /\ broken = {} /\ edits = 0

Go(t, p) == ph' = [ph EXCEPT ![t] = p]
Take(sem, n) == [sem EXCEPT ![n] = @ + 1]
Drop(sem, n) == [sem EXCEPT ![n] = @ - 1]

checkFileSize(data) == Len(data) <= MaxFile
Fits(payload) == FrameHeader + payload <= MaxMessage

-----------------------------------------------------------------------------
(* The puller.                                                             *)

(* pullDelta reads and signs its basis; without one the file is pulled in  *)
(* full.  pullFull has nothing to prepare.                                 *)
Open(t) ==
  /\ ph[t] = "open"
  /\ IF Puller(t) \in stopped
     THEN Go(t, "cancelled") /\ UNCHANGED <<how, basis>>
     ELSE IF how[t] # "delta" THEN Go(t, "request") /\ UNCHANGED <<how, basis>>
     ELSE IF local[t] = NoFile \/ ~checkFileSize(local[t])
     THEN how' = [how EXCEPT ![t] = "full"] /\ UNCHANGED <<ph, basis>>
     ELSE Go(t, "request") /\ basis' = [basis EXCEPT ![t] = local[t]] /\ UNCHANGED how
  /\ UNCHANGED <<load, got, sent, reply, serving, fileVars, pullSem, serveSem,
                 stopped, broken, edits>>

SignatureSize(t) ==
  DeltaHeader + BlockRecord * BlockCount(basis[t], load.pulls[t].bs)

(* acquirePullSlot, OpenStream and the request.  A request that does not   *)
(* fit a frame is a transport error like any other failure to send it.     *)
Request(t) ==
  /\ ph[t] = "request"
  /\ Puller(t) \notin stopped /\ Peer(t) \notin stopped
  /\ pullSem[Puller(t)] < Slots
  /\ IF how[t] = "delta" /\ ~Fits(SignatureSize(t))
     THEN Go(t, "aborted") /\ UNCHANGED <<serving, pullSem>>
     ELSE /\ Go(t, "wait")
          /\ pullSem' = Take(pullSem, Puller(t))
          /\ serving' = [serving EXCEPT ![t][how[t]] = "queued"]
  /\ UNCHANGED <<load, how, basis, got, sent, reply, fileVars, serveSem, stopped,
                 broken, edits>>

(* The context ends while the pull waits for a slot, or the session is     *)
(* gone when it opens its stream.                                          *)
RequestFails(t) ==
  /\ ph[t] = "request"
  /\ \/ Puller(t) \in stopped /\ Go(t, "cancelled")
     \/ /\ {Puller(t), Peer(t)} \cap stopped # {} /\ pullSem[Puller(t)] < Slots
        /\ Go(t, "aborted")
  /\ UNCHANGED <<load, how, basis, got, sent, reply, serving, fileVars, pullSem,
                 serveSem, stopped, broken, edits>>

Received(t) ==
  /\ ph[t] = "wait" /\ reply[t] # None
  /\ reply' = [reply EXCEPT ![t] = None]
  /\ pullSem' = Drop(pullSem, Puller(t))
  /\ UNCHANGED <<load, basis, serving, fileVars, serveSem, stopped, broken, edits>>

(* Fault: the delta is applied to the file as it is now.                   *)
RebuiltFromDisk(t) ==
  LET d == UnmarshalDelta(reply[t].delta)
  IN IF d = Failed \/ local[t] = NoFile THEN Failed ELSE Apply(local[t], d)

(* What pullDelta makes of a delta.                                        *)
Rebuilt(t) ==
  LET d == UnmarshalDelta(reply[t].delta)
  IN IF d = Failed THEN Failed ELSE Apply(basis[t], d)

ReceiveData(t) ==
  /\ reply[t].type \in {"file_data", "delta"}
  /\ LET data == IF reply[t].type = "delta" THEN Rebuilt(t) ELSE reply[t].data
     IN /\ data # Failed
        /\ got' = [got EXCEPT ![t] = data]
  /\ sent' = [sent EXCEPT ![t] = reply[t].data]
  /\ Go(t, "verify") /\ UNCHANGED how
  /\ Received(t)

(* Fault: an error of the peer is taken for one of the transport.          *)
ReceiveErrorAborts(t) ==
  /\ \/ reply[t].type = "error"
     \/ reply[t].type = "delta" /\ Rebuilt(t) = Failed
  /\ Go(t, "aborted") /\ UNCHANGED <<how, got, sent>>
  /\ Received(t)

(* Fault: the slot is not given back when the answer is an error.          *)
ReceiveErrorLeaks(t) ==
  /\ ph[t] = "wait"
  /\ \/ reply[t].type = "error"
     \/ reply[t].type = "delta" /\ Rebuilt(t) = Failed
  /\ IF how[t] = "delta"
     THEN how' = [how EXCEPT ![t] = "full"] /\ Go(t, "open")
     ELSE Go(t, "failed") /\ UNCHANGED how
  /\ reply' = [reply EXCEPT ![t] = None]
  /\ UNCHANGED <<load, basis, got, sent, pullSem, serving, fileVars, serveSem, stopped,
                 broken, edits>>

(* An error of the peer, or a delta that cannot be used, is the end of     *)
(* this file, or of the delta: pullContent falls back to a full pull.      *)
ReceiveError(t) ==
  /\ \/ reply[t].type = "error"
     \/ reply[t].type = "delta" /\ Rebuilt(t) = Failed
  /\ IF how[t] = "delta"
     THEN how' = [how EXCEPT ![t] = "full"] /\ Go(t, "open")
     ELSE Go(t, "failed") /\ UNCHANGED how
  /\ UNCHANGED <<got, sent>>
  /\ Received(t)

(* Fault: the slot is given back by pulls that do not hold one, too.        *)
StreamEndsTwice(t) ==
  /\ ~Over(t)
  /\ Go(t, "aborted")
  /\ pullSem' = Drop(pullSem, Puller(t))
  /\ reply' = [reply EXCEPT ![t] = None]
  /\ UNCHANGED <<load, how, basis, got, sent, serving, fileVars, serveSem, stopped>>

(* The stream breaks or its deadline passes: a transport error, on which   *)
(* the rest of the peer's manifest is given up.                            *)
StreamEnds(t) ==
  /\ ph[t] = "wait"
  /\ Go(t, "aborted")
  /\ pullSem' = Drop(pullSem, Puller(t))
  /\ reply' = [reply EXCEPT ![t] = None]
  /\ UNCHANGED <<load, how, basis, got, sent, serving, fileVars, serveSem, stopped>>

PeerLost(t) ==
  /\ {Puller(t), Peer(t)} \cap stopped # {}
  /\ StreamEnds(t) /\ UNCHANGED <<broken, edits>>

(* pullAndVerify compares the hash with the manifest's, and after a delta  *)
(* was wanted pulls the file in full once more; applyRemote checks the     *)
(* size of what it got.                                                    *)
Verify(t) ==
  /\ ph[t] = "verify"
  /\ IF got[t] = load.pulls[t].remote
     THEN Go(t, IF checkFileSize(got[t]) THEN "ok" ELSE "failed") /\ UNCHANGED how
     ELSE IF how[t] = "last" THEN Go(t, "failed") /\ UNCHANGED how
     ELSE Go(t, "open") /\ how' = [how EXCEPT ![t] = "last"]
  /\ got' = [got EXCEPT ![t] = NoFile] /\ sent' = [sent EXCEPT ![t] = NoFile]
  /\ UNCHANGED <<load, basis, reply, serving, fileVars, pullSem, serveSem, stopped,
                 broken, edits>>

-----------------------------------------------------------------------------
(* The peer.  An answer reaches a puller that still waits for it.          *)
Answer(t, h, msg) ==
  /\ serving' = [serving EXCEPT ![t][h] = "replied"]
  /\ reply' = IF ph[t] = "wait" /\ how[t] = h THEN [reply EXCEPT ![t] = msg] ELSE reply

Error == [type |-> "error"]

handlerUnchanged ==
  UNCHANGED <<load, pullVars, fileVars, pullSem, stopped, broken, edits>>

(* Fault: pulls and requests share one semaphore.                          *)
AcquireServeShared(t, h) ==
  /\ pullSem[Peer(t)] + serveSem[Peer(t)] < Slots
  /\ serving[t][h] = "queued"
  /\ serving' = [serving EXCEPT ![t][h] = "serving"]
  /\ serveSem' = Take(serveSem, Peer(t))
  /\ UNCHANGED reply /\ handlerUnchanged

(* acquireServeSlot: a slot, or the end of the context ("server busy").    *)
AcquireServe(t, h) ==
  /\ serving[t][h] = "queued" /\ serveSem[Peer(t)] < Slots
  /\ serving' = [serving EXCEPT ![t][h] = "serving"]
  /\ serveSem' = Take(serveSem, Peer(t))
  /\ UNCHANGED reply /\ handlerUnchanged

ServerBusy(t, h) ==
  /\ serving[t][h] = "queued" /\ Peer(t) \in stopped
  /\ serving' = [serving EXCEPT ![t][h] = "none"]
  /\ reply' = IF ph[t] = "wait" /\ how[t] = h THEN [reply EXCEPT ![t] = Error] ELSE reply
  /\ UNCHANGED serveSem /\ handlerUnchanged

(* serveEntry: the file is there, not too large and unchanged since the    *)
(* last scan, and the context has not ended.                               *)
serveEntry(t, h) ==
  /\ serving[t][h] = "serving"
  /\ IF /\ Peer(t) \notin stopped
        /\ remote[t] # NoFile /\ ~drift[t]
        /\ checkFileSize(remote[t])
     THEN serving' = [serving EXCEPT ![t][h] = "checked"] /\ UNCHANGED reply
     ELSE Answer(t, h, Error)
  /\ UNCHANGED serveSem /\ handlerUnchanged

validateBlockSize(bs) == MinBlock <= bs /\ bs <= MaxBlock

DeltaSize(d) ==
  FoldLeft(LAMBDA size, op : size + OpHeader
                               + (IF op.kind = "literal" THEN Len(op.data) ELSE 0),
           DeltaHeader, d.ops)

(* serveFile reads the file and sends it if it fits a frame.               *)
serveFile(t, h) ==
  /\ serving[t][h] = "checked" /\ h # "delta"
  /\ Answer(t, h, IF remote[t] # NoFile /\ Fits(Len(remote[t]))
                  THEN [type |-> "file_data", data |-> remote[t]] ELSE Error)
  /\ UNCHANGED serveSem /\ handlerUnchanged

(* serveDelta reads the file, checks the signature and its block size, and *)
(* sends the delta if it fits a frame.                                     *)
serveDelta(t) ==
  /\ serving[t]["delta"] = "checked"
  /\ LET bs == load.pulls[t].bs
         accepted == /\ remote[t] # NoFile /\ validateBlockSize(bs)
                     /\ UnmarshalSignature(BlockCount(basis[t], bs))
     IN \/ /\ ~accepted
           /\ Answer(t, "delta", Error)
        \/ /\ accepted
           /\ \E data \in {remote[t]}, sig \in {Sign(basis[t], bs)} :
                \E d \in {Encode(data, sig, bs)} :
                  Answer(t, "delta",
                         IF Fits(DeltaSize(d))
                         THEN [type |-> "delta", delta |-> d, data |-> data]
                         ELSE Error)
  /\ UNCHANGED serveSem /\ handlerUnchanged

(* releaseServeSlot, deferred until the handler has written its answer.    *)
ReleaseServe(t, h) ==
  /\ serving[t][h] = "replied"
  /\ serving' = [serving EXCEPT ![t][h] = "none"]
  /\ serveSem' = Drop(serveSem, Peer(t))
  /\ UNCHANGED reply /\ handlerUnchanged

-----------------------------------------------------------------------------
(* The rest of the world: edits on either side, the scan that takes note   *)
(* of one, a stream that breaks, a daemon that stops.                      *)
worldUnchanged == UNCHANGED <<load, reply, serving, pullSem, serveSem>>

EditLocal(t) ==
  /\ edits < load.edits
  /\ \E data \in load.contents : local' = [local EXCEPT ![t] = data]
  /\ edits' = edits + 1
  /\ UNCHANGED <<pullVars, remote, drift, stopped, broken>> /\ worldUnchanged

EditRemote(t) ==
  /\ edits < load.edits
  /\ \E data \in load.contents : remote' = [remote EXCEPT ![t] = data]
  /\ drift' = [drift EXCEPT ![t] = TRUE]
  /\ edits' = edits + 1
  /\ UNCHANGED <<pullVars, local, stopped, broken>> /\ worldUnchanged

ScanRemote(t) ==
  /\ drift[t] /\ Peer(t) \notin stopped
  /\ drift' = [drift EXCEPT ![t] = FALSE]
  /\ UNCHANGED <<pullVars, local, remote, stopped, broken, edits>> /\ worldUnchanged

BreakStream(t) ==
  /\ Cardinality(broken) < load.breaks
  /\ broken' = broken \cup {t}
  /\ StreamEnds(t) /\ UNCHANGED edits

Stop(n) ==
  /\ Cardinality(stopped) < load.stops /\ n \notin stopped
  /\ stopped' = stopped \cup {n}
  /\ UNCHANGED <<pullVars, fileVars, broken, edits>> /\ worldUnchanged

PullStep(t) ==
  \/ Open(t) \/ Request(t) \/ RequestFails(t)
  \/ ReceiveData(t) \/ ReceiveError(t) \/ PeerLost(t) \/ Verify(t)

ServeStep(t, h) ==
  \/ AcquireServe(t, h) \/ ServerBusy(t, h) \/ serveEntry(t, h)
  \/ serveFile(t, h) \/ ReleaseServe(t, h)

Progress ==
  \E t \in Pull : PullStep(t) \/ serveDelta(t) \/ \E h \in How : ServeStep(t, h)

Next ==
  \/ Progress
  \/ \E t \in Pull :
       \/ EditLocal(t) \/ EditRemote(t) \/ ScanRemote(t) \/ BreakStream(t)
  \/ \E n \in Node : Stop(n)

Spec == Init /\ [][Next]_vars

(* The goroutines of the pulls and of the handlers are scheduled; nothing  *)
(* is assumed of the user, of deadlines or of scans.                       *)
FairSpec == Spec /\ WF_vars(Progress)

-----------------------------------------------------------------------------
(* What pullDelta rebuilds is the file the peer has read, byte for byte,   *)
(* and so is what pullFull returns, whatever happened to the files since   *)
(* the puller signed its basis.  Module Sync relies on it.                 *)
PulledAsServed == \A t \in Pull : ph[t] = "verify" => got[t] = sent[t]

(* Encode finds every block there is to find: its operations are those of  *)
(* the reference search, so the rolling checksum never hides a match, nor  *)
(* does a collision of weak checksums produce one.                         *)
DeltaIsGreedy ==
  \A t \in Pull : reply[t].type = "delta" =>
    reply[t].delta.ops = Reference(reply[t].data, basis[t], load.pulls[t].bs)

(* Each semaphore counts the streams that hold one of its slots: none is   *)
(* lost or given back twice on any path through pullDelta, pullFull and    *)
(* handleStream (releasePullSlot would hide a slot released twice).        *)
SlotsAccounted ==
  \A n \in Node :
    /\ pullSem[n] = Cardinality({t \in Pull : Puller(t) = n /\ ph[t] = "wait"})
    /\ serveSem[n] = Cardinality({x \in Pull \X How :
                        /\ Peer(x[1]) = n
                        /\ serving[x[1]][x[2]] \in {"serving", "checked", "replied"}})

(* A peer's manifest is given up only for a stream that broke, a daemon    *)
(* that stops, or a signature too large to send.  A file that the peer     *)
(* refuses, that changes under the transfer or does not fit a frame costs  *)
(* no more than itself (errPeerLogical).                                   *)
AbortedForCause ==
  \A t \in Pull : ph[t] = "aborted" =>
    \/ t \in broken \/ {Puller(t), Peer(t)} \cap stopped # {}
    \/ how[t] = "delta" /\ ~Fits(SignatureSize(t))

(* Daemons that pull from each other, each with all its slots in use, do   *)
(* not wait on each other: every pull ends and every handler returns.      *)
PullsEnd ==
  <>(\A t \in Pull : Over(t) /\ \A h \in How : serving[t][h] = "none")
=============================================================================
