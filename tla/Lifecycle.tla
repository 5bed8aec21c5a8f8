------------------------------ MODULE Lifecycle ------------------------------
(***************************************************************************)
(* One daemon from the start of Run to its return (daemon/run.go and       *)
(* net.go, watch.go, the pull worker of daemon.go and apply.go): what it   *)
(* opens and closes, on every path; the main loop; the file watcher and    *)
(* its debounce timer; the pull worker and its goroutine per session; the  *)
(* stream handlers.  What a pull and a scan do to files and index is the   *)
(* subject of module Sync, how sessions come and go that of module Peers,  *)
(* and what is announced to whom that of module Notify.                    *)
(***************************************************************************)
EXTENDS Naturals

CONSTANTS
  Session,    \* sessions with peers
  Modes,      \* the network modes: "plain", "tsnet", "host"
  Addr,       \* the addresses to bind
  Worker,     \* goroutines of schedulePull
  MaxEdits    \* bound on changes of the tree, here or at a peer

ASSUME LifecycleAssumption == Worker # {} /\ MaxEdits \in Nat

VARIABLES
  main,         \* where Run is
  ctx,          \* the context of Run is cancelled
  root,         \* the sync root is open
  server,       \* the tsnet server: "none", "up" or "closed"
  inject,       \* InjectNetworkChange has a monitor to call
  auth,         \* goroutines that watch for login URLs
  socks,        \* bound addresses
  mesh,         \* d.mesh: "nil", "open" or "closing" (Manager.Close runs)
  healthy,      \* healthy sessions in the roster
  streams,      \* sessions with a running handler of an inbound stream
  watch,        \* the watcher goroutine runs
  event,        \* the watcher has an event to handle
  armed,        \* the debounce timer runs
  needReconcile, needPull,   \* the two wake-up channels, each of capacity one
  unscanned,    \* the tree was changed since the last scan was tried
  notifying,    \* notifyWG: goroutines of a fan-out of notifies run
  running, pending,          \* pullFlight
  pull,         \* pull[w]: what worker w does next
  snap,         \* snap[w]: the sessions it has found in the roster
  fetch,        \* fetch[s]: what the goroutine that pulls from s does next
  round,        \* history: flips when a pull batch begins
  edits

netVars == <<server, inject, auth, socks, mesh>>
sessionVars == <<healthy, streams>>
watchVars == <<watch, event, armed>>
pullVars == <<running, pending, pull, snap, fetch, round>>

vars == <<notifying, main, ctx, root, netVars, sessionVars, watchVars,
          needReconcile, needPull, unscanned, pullVars, edits>>

Main == {"open", "load", "listen", "up", "upOK", "upFailed", "identify", "bind",
         "watch", "announceBoot", "pull", "loop", "announce", "stopWatch",
         "closeMesh", "meshClosing", "waitStreams", "waitPulls", "waitNotify",
         "backend", "unwind", "returned", "panicked"}

TypeOK ==
  /\ main \in Main /\ ctx \in BOOLEAN /\ root \in BOOLEAN
  /\ server \in {"none", "up", "closed"} /\ inject \in BOOLEAN /\ auth \in 0..2
  /\ socks \subseteq Addr /\ mesh \in {"nil", "open", "closing"}
  /\ healthy \subseteq Session /\ streams \subseteq Session
  /\ watch \in BOOLEAN /\ event \in BOOLEAN /\ armed \in BOOLEAN
  /\ needReconcile \in BOOLEAN /\ needPull \in BOOLEAN /\ unscanned \in BOOLEAN
  /\ notifying \in BOOLEAN
  /\ running \in BOOLEAN /\ pending \in BOOLEAN /\ round \in BOOLEAN
  /\ pull \in [Worker -> {"none", "check", "snapshot", "loop", "lookup",
                          "wait", "finish"}]
  /\ snap \in [Worker -> SUBSET Session]
  /\ fetch \in [Session -> {"none", "pull", "check", "snapshot"}]
  /\ edits \in 0..MaxEdits

Init ==
  /\ main = "open" /\ ctx = FALSE /\ root = FALSE
  /\ server = "none" /\ inject = FALSE /\ auth = 0 /\ socks = {} /\ mesh = "nil"
  /\ healthy = {} /\ streams = {}
  /\ watch = FALSE /\ event = FALSE /\ armed = FALSE
  /\ needReconcile = FALSE /\ needPull = FALSE
  /\ unscanned \in BOOLEAN /\ notifying = FALSE
  /\ running = FALSE /\ pending = FALSE /\ round = FALSE
  /\ pull = [w \in Worker |-> "none"] /\ snap = [w \in Worker |-> {}]
  /\ fetch = [s \in Session |-> "none"]
  /\ edits = 0

Goto(pc) == main' = pc

(* A use of d.mesh that finds it nil.                                      *)
NilMesh ==
  /\ mesh = "nil"
  /\ Goto("panicked")
  /\ UNCHANGED <<notifying, ctx, root, netVars, sessionVars, watchVars,
                 needReconcile, needPull, unscanned, pullVars, edits>>

-----------------------------------------------------------------------------
(* Run, up to the main loop.                                               *)

OpenRoot ==
  /\ main = "open"
  /\ \/ root' = TRUE /\ Goto("load")
     \/ UNCHANGED root /\ Goto("returned")
  /\ UNCHANGED <<notifying, ctx, netVars, sessionVars, watchVars,
                 needReconcile, needPull, unscanned, pullVars, edits>>

(* reconcile: a scan of the tree, which may fail, and a save of the index. *)
reconcile(next, failed) ==
  /\ unscanned' = FALSE
  /\ Goto(next) \/ Goto(failed)

(* The index is loaded and reconciled before anything else is started.     *)
LoadAndReconcile ==
  /\ main = "load"
  /\ \/ reconcile("listen", "unwind")
     \/ Goto("unwind") /\ UNCHANGED unscanned
  /\ UNCHANGED <<notifying, ctx, root, netVars, sessionVars, watchVars,
                 needReconcile, needPull, pullVars, edits>>

listenUnchanged == <<notifying, ctx, root, sessionVars, watchVars,
                     needReconcile, needPull, unscanned, pullVars, edits>>

(* newMesh, AddPacketConn for every address, Start: if no address could be *)
(* bound the manager is closed again.                                      *)
StartMesh(bound) ==
  /\ bound # {}
  /\ socks' = bound
  /\ mesh' = "open"
  /\ Goto("watch")

CloseServer == server' = IF server = "up" THEN "closed" ELSE server

(* What the error paths of listenTSNet undo.                               *)
ListenFails ==
  /\ inject' = FALSE
  /\ CloseServer
  /\ Goto("unwind")
  /\ UNCHANGED <<socks, mesh>>

ListenPlain ==
  /\ main = "listen" /\ "plain" \in Modes
  /\ \/ \E a \in Addr : StartMesh({a}) /\ UNCHANGED <<server, inject>>
     \/ ListenFails
  /\ UNCHANGED <<listenUnchanged, auth>>

(* listenTSNet: the server, and the watchers for a login URL if the caller *)
(* wants to know (OnAuthURL).                                              *)
TSNetStart ==
  /\ main = "listen" /\ "tsnet" \in Modes
  /\ \/ /\ server' = "up"
        /\ auth' \in {0, 2}
        /\ Goto("up")
     \/ Goto("unwind") /\ UNCHANGED <<server, auth>>
  /\ UNCHANGED <<listenUnchanged, inject, socks, mesh>>

TSNetUp ==
  /\ main = "up"
  /\ Goto("upOK") \/ Goto("upFailed")
  /\ UNCHANGED <<listenUnchanged, netVars>>

(* Fault: an end is reported for a watcher that was not started.           *)
AuthWatchEndsAlways ==
  /\ auth' = auth - 1
  /\ UNCHANGED <<listenUnchanged, main, server, inject, socks, mesh>>

(* watchTSNetAuthURL: the bus watcher ends on an error, the poller when it *)
(* is cancelled or the backend runs, and it joins the bus watcher.         *)
AuthWatchEnds ==
  /\ auth > 0
  /\ auth' = auth - 1
  /\ UNCHANGED <<listenUnchanged, main, server, inject, socks, mesh>>

(* stopAuthWatch: on either outcome of Up the watchers are joined before   *)
(* anything else happens to the server.                                    *)
stopAuthWatch == auth = 0

(* InjectNetworkChange is enabled if the server has a monitor.             *)
TSNetReady ==
  /\ stopAuthWatch
  /\ \/ /\ main = "upOK"
        /\ inject' \in BOOLEAN
        /\ Goto("identify")
        /\ UNCHANGED <<server, socks, mesh>>
     \/ main = "upFailed" /\ ListenFails
  /\ UNCHANGED <<listenUnchanged, auth>>

HostStart ==
  /\ main = "listen" /\ "host" \in Modes
  /\ Goto("identify")
  /\ UNCHANGED <<listenUnchanged, netVars>>

(* LocalClient, Status, the addresses, the identity and the mesh gate.     *)
Identify ==
  /\ main = "identify"
  /\ \/ Goto("bind") /\ UNCHANGED <<server, inject, socks, mesh>>
     \/ ListenFails
  /\ UNCHANGED <<listenUnchanged, auth>>

(* Fault: the server is left running when no address can be bound.         *)
BindLeaksServer ==
  /\ main = "bind"
  /\ \/ /\ \E bound \in SUBSET Addr : StartMesh(bound)
        /\ UNCHANGED <<server, inject>>
     \/ Goto("unwind") /\ UNCHANGED <<server, inject, socks, mesh>>
  /\ UNCHANGED <<listenUnchanged, auth>>

(* Addresses that cannot be bound are skipped, unless all are.             *)
Bind ==
  /\ main = "bind"
  /\ \/ /\ \E bound \in SUBSET Addr : StartMesh(bound)
        /\ UNCHANGED <<server, inject>>
     \/ ListenFails
  /\ UNCHANGED <<listenUnchanged, auth>>

-----------------------------------------------------------------------------
(* The file watcher.                                                       *)

watcherUnchanged == <<notifying, ctx, root, netVars, sessionVars, needPull,
                      pullVars>>

(* startFSWatch; a watcher that cannot be set up is done without.          *)
StartFSWatch ==
  /\ main = "watch"
  /\ watch' \in BOOLEAN
  /\ Goto("announceBoot")
  /\ UNCHANGED <<watcherUnchanged, event, armed, needReconcile, unscanned,
                 edits>>

(* A user changes the tree; the watcher hears of it unless it happens in a *)
(* directory that is not watched (yet).                                    *)
Edit ==
  /\ edits < MaxEdits /\ main # "returned"
  /\ edits' = edits + 1
  /\ unscanned' = TRUE
  /\ event' = event \/ event' = watch
  /\ UNCHANGED <<watcherUnchanged, main, watch, armed, needReconcile>>

(* watchLoop: an event arms the debounce timer anew.                       *)
WatchEvent ==
  /\ watch /\ event
  /\ event' = FALSE
  /\ armed' = TRUE
  /\ UNCHANGED <<watcherUnchanged, main, watch, needReconcile, unscanned,
                 edits>>

(* Fault: a request that finds the main loop scanning is dropped.          *)
DebounceFiresIdle ==
  /\ watch /\ armed
  /\ armed' = FALSE
  /\ needReconcile' = (needReconcile \/ main = "loop")
  /\ UNCHANGED <<watcherUnchanged, main, watch, event, unscanned, edits>>

(* The timer runs out WatchDebounce after the last event that was handled. *)
DebounceFires ==
  /\ watch /\ armed
  /\ armed' = FALSE
  /\ needReconcile' = TRUE
  /\ UNCHANGED <<watcherUnchanged, main, watch, event, unscanned, edits>>

WatchEnds ==
  /\ watch
  /\ ctx \/ main = "stopWatch"
  /\ watch' = FALSE /\ event' = FALSE /\ armed' = FALSE
  /\ UNCHANGED <<watcherUnchanged, main, needReconcile, unscanned, edits>>

-----------------------------------------------------------------------------
(* The main loop.                                                          *)

loopUnchanged == <<ctx, root, netVars, sessionVars, watchVars>>

(* doReconcile, woken by the watcher or by the scan ticker.                *)
LoopReconcile ==
  /\ main = "loop"
  /\ needReconcile
  /\ needReconcile' = FALSE
  /\ reconcile("announce", "loop")
  /\ UNCHANGED <<loopUnchanged, notifying, needPull, pullVars, edits>>

ScanTick ==
  /\ main = "loop"
  /\ reconcile("announce", "loop")
  /\ UNCHANGED <<loopUnchanged, notifying, needReconcile, needPull, pullVars,
                 edits>>

(* The notify of what a reconcile has found; Run does the same once before *)
(* its first pull.                                                         *)
Announce ==
  /\ main \in {"announceBoot", "announce"}
  /\ UNCHANGED notifying \/ (~ctx /\ healthy # {} /\ notifying' = TRUE)
  /\ Goto(IF main = "announce" THEN "loop" ELSE "pull")
  /\ UNCHANGED <<loopUnchanged, needReconcile, needPull, unscanned, pullVars,
                 edits>>

(* The last goroutine of the fan-outs is done (scheduleNotify).            *)
NotifyDone ==
  /\ notifying
  /\ notifying' = FALSE
  /\ UNCHANGED <<loopUnchanged, main, needReconcile, needPull, unscanned,
                 pullVars, edits>>

(* needPull or the sync ticker.                                            *)
LoopPull ==
  /\ main = "loop"
  /\ needPull
  /\ needPull' = FALSE
  /\ Goto("pull")
  /\ UNCHANGED <<loopUnchanged, notifying, needReconcile, unscanned, pullVars,
                 edits>>

SyncTick ==
  /\ main = "loop"
  /\ Goto("pull")
  /\ UNCHANGED <<loopUnchanged, notifying, needReconcile, needPull, unscanned,
                 pullVars, edits>>

(* Goroutines are interchangeable: a new one takes the first free name.    *)
idleWorker == CHOOSE w \in Worker : pull[w] = "none"

(* Fault: a request during a batch is taken as answered by it.             *)
tryStartDrops ==
  \/ running /\ UNCHANGED pullVars
  \/ /\ ~running
     /\ running' = TRUE
     /\ pull' = [pull EXCEPT ![idleWorker] = "check"]
     /\ round' = ~round
     /\ UNCHANGED <<pending, snap, fetch>>

(* pullFlight.tryStart, and the worker it allows.                          *)
tryStart ==
  \/ /\ running
     /\ pending' = TRUE
     /\ UNCHANGED <<running, pull, snap, fetch, round>>
  \/ /\ ~running
     /\ running' = TRUE
     /\ pull' = [pull EXCEPT ![idleWorker] = "check"]
     /\ round' = ~round
     /\ UNCHANGED <<pending, snap, fetch>>

SchedulePull ==
  /\ main = "pull"
  /\ tryStart
  /\ Goto("loop")
  /\ UNCHANGED <<loopUnchanged, notifying, needReconcile, needPull, unscanned,
                 edits>>

(* The context is done: the index is saved and Run returns.                *)
LoopStops ==
  /\ main = "loop" /\ ctx
  /\ Goto("stopWatch")
  /\ UNCHANGED <<loopUnchanged, notifying, needReconcile, needPull, unscanned,
                 pullVars, edits>>

Cancel ==
  /\ ~ctx /\ main # "returned"
  /\ ctx' = TRUE
  /\ UNCHANGED <<notifying, main, root, netVars, sessionVars, watchVars,
                 needReconcile, needPull, unscanned, pullVars, edits>>

-----------------------------------------------------------------------------
(* The deferred calls of Run.                                              *)

teardownUnchanged == <<notifying, ctx, streams, watchVars, needReconcile,
                       needPull, unscanned, pullVars, edits>>

StopWatch ==
  /\ main = "stopWatch"
  /\ ~watch
  /\ Goto("closeMesh")
  /\ UNCHANGED <<teardownUnchanged, root, netVars, healthy>>

(* closeMesh: Manager.Close closes every session ...                       *)
CloseMesh ==
  /\ main = "closeMesh"
  /\ mesh' = "closing"
  /\ healthy' = {}
  /\ Goto("meshClosing")
  /\ UNCHANGED <<teardownUnchanged, root, server, inject, auth, socks>>

(* ... and waits for their handlers; then the field is cleared.            *)
MeshClosed ==
  /\ main = "meshClosing"
  /\ streams = {}
  /\ mesh' = "nil"
  /\ socks' = {}
  /\ Goto("waitStreams")
  /\ UNCHANGED <<teardownUnchanged, root, server, inject, auth, healthy>>

(* Fault: the pull worker is not waited for.                               *)
WaitSkipsPulls ==
  /\ \/ main = "waitStreams" /\ streams = {} /\ Goto("waitPulls")
     \/ main = "waitPulls" /\ Goto("waitNotify")
     \/ main = "waitNotify" /\ ~notifying /\ Goto("backend")
  /\ UNCHANGED <<teardownUnchanged, root, netVars, healthy>>

(* The three wait groups, in the order of the code.                        *)
Wait ==
  /\ \/ main = "waitStreams" /\ streams = {} /\ Goto("waitPulls")
     \/ /\ main = "waitPulls"
        /\ \A w \in Worker : pull[w] = "none"
        /\ Goto("waitNotify")
     \/ main = "waitNotify" /\ ~notifying /\ Goto("backend")
  /\ UNCHANGED <<teardownUnchanged, root, netVars, healthy>>

CloseNetworkBackend ==
  /\ main = "backend"
  /\ inject' = FALSE
  /\ CloseServer
  /\ Goto("unwind")
  /\ UNCHANGED <<teardownUnchanged, root, auth, socks, mesh, healthy>>

CloseRoot ==
  /\ main = "unwind"
  /\ root' = FALSE
  /\ Goto("returned")
  /\ UNCHANGED <<teardownUnchanged, netVars, healthy>>

-----------------------------------------------------------------------------
(* The pull worker.                                                        *)

pullUnchanged == <<ctx, root, netVars, sessionVars, watch, armed,
                   needReconcile, needPull, unscanned>>

Then(w, pc) == pull' = [pull EXCEPT ![w] = pc]

(* pullPeers reads d.mesh to see whether it is nil, and then again for the *)
(* sessions and, unless the context is done, for each of them.             *)
PullStep(w) ==
  /\ \/ /\ pull[w] = "check"
        /\ Then(w, IF mesh = "nil" THEN "finish" ELSE "snapshot")
        /\ UNCHANGED <<snap, fetch>>
     \/ /\ pull[w] = "snapshot" /\ mesh # "nil"
        /\ snap' = [snap EXCEPT ![w] = healthy]
        /\ Then(w, IF healthy = {} THEN "finish" ELSE "loop")
        /\ UNCHANGED fetch
     \/ /\ pull[w] = "loop"
        /\ Then(w, IF ctx THEN "wait" ELSE "lookup")
        /\ UNCHANGED <<snap, fetch>>
     \/ /\ pull[w] = "lookup" /\ mesh # "nil"
        /\ fetch' = [s \in Session |-> IF s \in snap[w] \cap healthy THEN "pull"
                                       ELSE fetch[s]]
        /\ Then(w, "wait")
        /\ UNCHANGED snap
     \/ /\ pull[w] = "wait" /\ \A s \in Session : fetch[s] = "none"
        /\ snap' = [snap EXCEPT ![w] = {}]
        /\ Then(w, "finish")
        /\ UNCHANGED fetch
  /\ UNCHANGED <<pullUnchanged, notifying, main, event, running, pending,
                 round, edits>>

PullNilMesh(w) == pull[w] \in {"snapshot", "lookup"} /\ NilMesh

(* Fault: the follow-up is started by the next request instead.            *)
finishReleases(w) ==
  /\ pull[w] = "finish"
  /\ pending' = FALSE
  /\ running' = FALSE
  /\ Then(w, IF pending THEN "check" ELSE "none")
  /\ round' = IF pending THEN ~round ELSE round
  /\ UNCHANGED <<pullUnchanged, notifying, main, event, snap, fetch, edits>>

(* Fault: pending is not reset.                                            *)
finishKeepsPending(w) ==
  /\ pull[w] = "finish"
  /\ running' = pending
  /\ Then(w, IF pending THEN "check" ELSE "none")
  /\ round' = IF pending THEN ~round ELSE round
  /\ UNCHANGED <<pullUnchanged, notifying, main, event, pending, snap, fetch,
                 edits>>

(* pullFlight.finish: one more batch if one was asked for meanwhile.       *)
finish(w) ==
  /\ pull[w] = "finish"
  /\ pending' = FALSE
  /\ running' = pending
  /\ Then(w, IF pending THEN "check" ELSE "none")
  /\ round' = IF pending THEN ~round ELSE round
  /\ UNCHANGED <<pullUnchanged, notifying, main, event, snap, fetch, edits>>

Fetch(s, pc) == fetch' = [fetch EXCEPT ![s] = pc]

fetchUnchanged == <<pullUnchanged, main, running, pending, pull, snap, round>>

(* pullFromSession: nothing to take, or an error; or something is applied, *)
(* which is an event for the watcher as well, and announced unless the     *)
(* save or the rest of the manifest fails.                                 *)
FetchApply(s) ==
  /\ fetch[s] = "pull"
  /\ \/ Fetch(s, "none") /\ UNCHANGED <<event, edits>>
     \/ /\ edits < MaxEdits
        /\ edits' = edits + 1
        /\ event' = watch
        /\ Fetch(s, "none") \/ Fetch(s, "check")
  /\ UNCHANGED <<fetchUnchanged, notifying>>

(* scheduleNotify for what was applied, with its own two reads of d.mesh.  *)
FetchNotifies(s) ==
  /\ \/ /\ fetch[s] = "check"
        /\ Fetch(s, IF ctx \/ mesh = "nil" THEN "none" ELSE "snapshot")
        /\ UNCHANGED notifying
     \/ /\ fetch[s] = "snapshot" /\ mesh # "nil"
        /\ UNCHANGED notifying \/ (healthy # {} /\ notifying' = TRUE)
        /\ Fetch(s, "none")
  /\ UNCHANGED <<fetchUnchanged, event, edits>>

FetchNilMesh(s) == fetch[s] = "snapshot" /\ NilMesh

-----------------------------------------------------------------------------
(* Sessions and the streams peers open on them.  The manager that connects *)
(* and drops sessions is module Peers.                                     *)

peersUnchanged == <<main, ctx, root, netVars, watchVars, needReconcile,
                    unscanned, pullVars, edits>>

(* OnPeerUp asks for a pull.                                               *)
PeerUp(s) ==
  /\ mesh = "open" /\ s \notin healthy
  /\ healthy' = healthy \cup {s}
  /\ needPull' = TRUE
  /\ UNCHANGED <<peersUnchanged, notifying, streams>>

PeerDown(s) ==
  /\ s \in healthy
  /\ healthy' = healthy \ {s}
  /\ UNCHANGED <<peersUnchanged, notifying, streams, needPull>>

(* onPeerStream: a request is served ...                                   *)
StreamBegins(s) ==
  /\ s \in healthy /\ s \notin streams
  /\ streams' = streams \cup {s}
  /\ UNCHANGED <<peersUnchanged, notifying, healthy, needPull>>

StreamEnds(s) ==
  /\ s \in streams
  /\ streams' = streams \ {s}
  /\ UNCHANGED <<peersUnchanged, notifying, healthy, needPull>>

(* ... or a notify is taken that is worth a pull (onNotify).               *)
OnNotify(s) ==
  /\ s \in healthy
  /\ needPull' = TRUE
  /\ UNCHANGED <<peersUnchanged, notifying, sessionVars>>

-----------------------------------------------------------------------------
(* The steps of Run before and after the main loop.                        *)
Sequential ==
  \/ OpenRoot \/ LoadAndReconcile \/ ListenPlain \/ TSNetStart \/ TSNetUp
  \/ TSNetReady \/ HostStart \/ Identify \/ Bind \/ StartFSWatch
  \/ StopWatch \/ CloseMesh \/ MeshClosed \/ Wait \/ CloseNetworkBackend
  \/ CloseRoot

Watcher == WatchEvent \/ DebounceFires \/ WatchEnds
Puller(w) == PullStep(w) \/ PullNilMesh(w) \/ finish(w)
Fetcher(s) == FetchApply(s) \/ FetchNotifies(s) \/ FetchNilMesh(s)

Next ==
  /\ main # "panicked"
  /\ \/ Sequential
     \/ LoopReconcile \/ ScanTick \/ Announce \/ LoopPull \/ SyncTick
     \/ SchedulePull \/ LoopStops \/ Cancel \/ Edit
     \/ AuthWatchEnds \/ Watcher \/ NotifyDone
     \/ \E w \in Worker : Puller(w)
     \/ \E s \in Session :
          \/ Fetcher(s) \/ PeerUp(s) \/ PeerDown(s)
          \/ StreamBegins(s) \/ StreamEnds(s) \/ OnNotify(s)

Spec == Init /\ [][Next]_vars

(* Every goroutine goes on: streams, fetches and notifies have deadlines.  *)
(* A select that is ready picks among its cases at random, so the main     *)
(* loop sees each wake-up that stays pending.  Nothing is assumed of the   *)
(* two tickers, of users, of peers and of the caller's context.            *)
Fairness ==
  /\ WF_vars(main # "panicked" /\ (Sequential \/ Announce \/ SchedulePull))
  /\ SF_vars(main # "panicked" /\ LoopReconcile)
  /\ SF_vars(main # "panicked" /\ LoopPull)
  /\ SF_vars(main # "panicked" /\ LoopStops)
  /\ WF_vars(main # "panicked" /\ AuthWatchEnds)
  /\ WF_vars(main # "panicked" /\ Watcher)
  /\ WF_vars(main # "panicked" /\ NotifyDone)
  /\ \A w \in Worker : WF_vars(main # "panicked" /\ Puller(w))
  /\ \A s \in Session : WF_vars(main # "panicked" /\ Fetcher(s))
  /\ \A s \in Session : WF_vars(main # "panicked" /\ StreamEnds(s))

FairSpec == Spec /\ Fairness

-----------------------------------------------------------------------------
(* Properties *)

(* Nobody uses a resource that is closed: handlers, fetches and the file   *)
(* watcher need the root, login watchers and notifies the tsnet server,    *)
(* and InjectNetworkChange a monitor of a server that runs.                *)
UsersOutlived ==
  /\ (streams # {} \/ watch \/ \E s \in Session : fetch[s] # "none") => root
  /\ (auth > 0 \/ inject) => server = "up"
  /\ (streams # {} \/ notifying \/ \E s \in Session : fetch[s] # "none") =>
       server # "closed"

(* Whatever way Run returns, nothing it has started is left behind.        *)
NothingLeft ==
  main = "returned" =>
    /\ ~root /\ server # "up" /\ ~inject /\ auth = 0 /\ socks = {}
    /\ mesh = "nil" /\ ~watch /\ healthy = {} /\ streams = {}
    /\ \A w \in Worker : pull[w] = "none"
    /\ \A s \in Session : fetch[s] = "none"
    /\ ~notifying

(* pullFlight: at most one pull batch runs, and running says whether.      *)
SingleFlight ==
  /\ \A v, w \in Worker : pull[v] # "none" /\ pull[w] # "none" => v = w
  /\ running <=> \E w \in Worker : pull[w] # "none"

(* A change the watcher has heard of is scanned, also when it comes while  *)
(* a scan is under way or the debounce timer runs (watchLoop, request).    *)
EditScanned == event ~> (~unscanned \/ ctx)

(* Something is going to wake the main loop for a scan.                    *)
Heard == event \/ armed \/ needReconcile

(* What keeps that promise at every step: the event, the debounce timer    *)
(* and the wake-up channel hand a change on to each other without a gap,   *)
(* until a scan is tried or Run is told to stop (watchLoop, request).      *)
HeardUntilScanned ==
  [][(Heard /\ unscanned) => (Heard' \/ ~unscanned' \/ ctx')]_vars

(* A stop ends: closing the mesh and waiting for the workers in turn does  *)
(* not block for ever, whatever was going on (Run's deferred calls).       *)
StopTerminates == ctx ~> main \in {"returned", "panicked"}

(* A pull that is asked for, by a notify, a new peer or a ticker, is done  *)
(* by a batch that begins afterwards: the wake-up channel, the main loop   *)
(* and pullFlight implement PullService.                                   *)
Pulls == INSTANCE PullService WITH
           owed <- needPull \/ main = "pull" \/ pending,
           busy <- running,
           stopped <- ctx

PullsAreServed == Pulls!Spec

(* The comments on notifyWG and pullWG: they are "joined on shutdown       *)
(* before root/network teardown so handlers never see nil shared           *)
(* resources".  Nobody finds d.mesh nil after checking that it is not.     *)
NeverNilMesh == main # "panicked"
=============================================================================
