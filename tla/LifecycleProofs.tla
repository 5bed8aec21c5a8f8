--------------------------- MODULE LifecycleProofs ---------------------------
(***************************************************************************)
(* Proofs about module Lifecycle, for any number of sessions, addresses    *)
(* and workers: what Run has opened is closed again after its users have   *)
(* gone, on every path, its pulls implement PullService, and no change     *)
(* that the watcher has heard of is forgotten.                             *)
(***************************************************************************)
EXTENDS Lifecycle, TLAPS

(* Leaves that name no prover are left to Zenon, then to SMT.              *)
USE ZenonT(8), SMTT(15)

(* Where Run is while the mesh is open, while the watcher may run, while a *)
(* pull worker may run, and while notifies may be sent.                    *)
Serving == {"watch", "announceBoot", "pull", "loop", "announce", "stopWatch",
            "closeMesh"}
Watching == {"announceBoot", "pull", "loop", "announce", "stopWatch"}
Pulling == {"pull", "loop", "announce", "stopWatch", "closeMesh", "meshClosing",
            "waitStreams", "waitPulls"}

(* What is open, by where Run is.                                          *)
Resources ==
  /\ root <=> main \notin {"open", "returned"}
  /\ mesh = "open" <=> main \in Serving
  /\ mesh = "closing" <=> main = "meshClosing"
  /\ mesh = "nil" => socks = {}
  /\ server = "up" => main \notin {"open", "load", "listen", "unwind", "returned"}
  /\ server = "closed" => main \in {"unwind", "returned"}
  /\ main \in {"up", "upOK", "upFailed"} => server = "up"
  /\ auth > 0 => main \in {"up", "upOK", "upFailed"}
  /\ inject => server = "up"

(* Who may run, by where Run is.                                           *)
Users ==
  /\ watch => main \in Watching
  /\ healthy # {} => mesh = "open"
  /\ streams # {} => mesh # "nil"
  /\ running => main \in Pulling
  /\ notifying => main \in Pulling \cup {"waitNotify"}

(* A goroutine fetches only for a worker that waits for it.                *)
Fetches ==
  (\E s \in Session : fetch[s] # "none") => \E w \in Worker : pull[w] = "wait"

(* Once Run has panicked nothing happens any more.                         *)
Located ==
  IF main = "panicked" THEN UsersOutlived ELSE Resources /\ Users /\ Fetches

IInv == TypeOK /\ SingleFlight /\ Located

-----------------------------------------------------------------------------
LEMMA InitInv == Init => IInv
<1> SUFFICES ASSUME Init PROVE IInv
  OBVIOUS
<1>1. TypeOK
  <2>1. /\ ctx \in BOOLEAN /\ root \in BOOLEAN /\ inject \in BOOLEAN
        /\ watch \in BOOLEAN /\ event \in BOOLEAN /\ armed \in BOOLEAN
        /\ needReconcile \in BOOLEAN /\ needPull \in BOOLEAN /\ unscanned \in BOOLEAN
        /\ notifying \in BOOLEAN
        /\ running \in BOOLEAN /\ pending \in BOOLEAN /\ round \in BOOLEAN
    BY Zenon DEF Init
  <2> QED  BY <2>1, LifecycleAssumption DEF Init, TypeOK, Main
<1>2. SingleFlight /\ Fetches
  BY DEF Init, SingleFlight, Fetches
<1>3. Resources
  BY DEF Init, Resources, Serving
<1>4. Users
  BY DEF Init, Users
<1> QED  BY <1>1, <1>2, <1>3, <1>4 DEF IInv, Located, Init

(* The invariant says what it is for.                                      *)
LEMMA InvUsers == IInv => UsersOutlived
<1> SUFFICES ASSUME IInv PROVE UsersOutlived
  OBVIOUS
<1>1. CASE main = "panicked"
  BY <1>1 DEF IInv, Located
<1>2. CASE main # "panicked"
  <2>1. Resources /\ Users /\ Fetches
    BY <1>2 DEF IInv, Located
  <2>2. (\E s \in Session : fetch[s] # "none") => main \in Pulling
    <3>1. (\E w \in Worker : pull[w] = "wait") => running
      BY DEF IInv, SingleFlight
    <3> QED  BY <2>1, <3>1 DEF Fetches, Users
  <2>3. /\ streams # {} => main \in Serving \cup {"meshClosing"}
        /\ main \in Main
    BY <2>1 DEF Users, Resources, IInv, TypeOK
  <2>4. (streams # {} \/ watch \/ \E s \in Session : fetch[s] # "none") => root
    BY <2>1, <2>2, <2>3 DEF Resources, Users, Serving, Watching, Pulling
  <2>5. (streams # {} \/ notifying \/ \E s \in Session : fetch[s] # "none") =>
          server # "closed"
    BY <2>1, <2>2, <2>3 DEF Resources, Users, Serving, Watching, Pulling
  <2> QED  BY <2>1, <2>4, <2>5 DEF UsersOutlived, Resources
<1> QED  BY <1>1, <1>2

LEMMA InvNothing == IInv => NothingLeft
<1> SUFFICES ASSUME IInv, main = "returned" PROVE NothingLeft
  BY DEF NothingLeft
<1>1. Resources /\ Users /\ Fetches /\ SingleFlight /\ TypeOK
  BY DEF IInv, Located
<1>2. ~running /\ ~notifying /\ ~watch
  BY <1>1 DEF Users, Pulling, Watching
<1>3. /\ \A w \in Worker : pull[w] = "none"
      /\ \A s \in Session : fetch[s] = "none"
  BY <1>1, <1>2 DEF SingleFlight, Fetches
<1>4. /\ mesh = "nil" /\ socks = {} /\ ~root /\ server # "up" /\ ~inject /\ auth = 0
      /\ healthy = {} /\ streams = {}
  BY <1>1 DEF Resources, Users, Serving, TypeOK
<1> QED  BY <1>2, <1>3, <1>4 DEF NothingLeft

-----------------------------------------------------------------------------
(* Starting up: nobody runs yet.                                           *)

LEMMA StartupInv ==
  ASSUME IInv, main # "panicked",
         \/ OpenRoot \/ LoadAndReconcile \/ ListenPlain \/ TSNetStart \/ TSNetUp
         \/ TSNetReady \/ HostStart \/ Identify \/ Bind \/ AuthWatchEnds
  PROVE  IInv'
<1>1. /\ TypeOK /\ SingleFlight /\ Resources /\ Users /\ Fetches
  BY DEF IInv, Located
<1>2. /\ UNCHANGED <<healthy, streams, watch, event, armed, needReconcile, needPull,
                     notifying, ctx, running, pending, pull, snap, fetch, round, edits>>
      /\ unscanned' \in BOOLEAN
  BY <1>1 DEF OpenRoot, LoadAndReconcile, reconcile, ListenPlain, TSNetStart, TSNetUp,
         TSNetReady, HostStart, Identify, Bind, AuthWatchEnds, TypeOK, netVars,
         sessionVars, watchVars, pullVars, listenUnchanged, Goto
<1>3. root' \in BOOLEAN /\ inject' \in BOOLEAN
  <2>1. root \in BOOLEAN /\ inject \in BOOLEAN
    BY <1>1 DEF TypeOK
  <2> QED
    BY <2>1, Zenon DEF OpenRoot, LoadAndReconcile, ListenPlain, StartMesh, ListenFails,
         TSNetStart, TSNetUp, TSNetReady, HostStart, Identify, Bind, AuthWatchEnds,
         netVars, listenUnchanged
<1>4. /\ main' \in Main \ {"panicked"}
      /\ server' \in {"none", "up", "closed"} /\ auth' \in 0..2
      /\ socks' \subseteq Addr /\ mesh' \in {"nil", "open", "closing"}
      /\ Resources'
      /\ main \notin Watching \cup Pulling \cup {"waitNotify"} \/ main' = main
      /\ mesh = "nil" \/ mesh' = mesh
  <2> USE <1>1 DEF TypeOK, Resources, Main, Serving, Watching, Pulling, Goto
  <2>1. CASE OpenRoot
    BY <2>1 DEF OpenRoot, netVars
  <2>2. CASE LoadAndReconcile
    BY <2>2 DEF LoadAndReconcile, reconcile, netVars
  <2>3. CASE ListenPlain
    BY <2>3 DEF ListenPlain, StartMesh, ListenFails, CloseServer, listenUnchanged
  <2>4. CASE TSNetStart
    BY <2>4 DEF TSNetStart, listenUnchanged
  <2>5. CASE TSNetUp
    BY <2>5 DEF TSNetUp, netVars, listenUnchanged
  <2>6. CASE TSNetReady
    BY <2>6 DEF TSNetReady, stopAuthWatch, ListenFails, CloseServer, listenUnchanged
  <2>7. CASE HostStart
    BY <2>7 DEF HostStart, netVars, listenUnchanged
  <2>8. CASE Identify
    BY <2>8 DEF Identify, ListenFails, CloseServer, listenUnchanged
  <2>9. CASE Bind
    BY <2>9 DEF Bind, StartMesh, ListenFails, CloseServer, listenUnchanged
  <2>10. CASE AuthWatchEnds
    BY <2>10 DEF AuthWatchEnds, listenUnchanged
  <2> QED
    BY <2>1, <2>2, <2>3, <2>4, <2>5, <2>6, <2>7, <2>8, <2>9, <2>10
<1>5. TypeOK'
  BY <1>1, <1>2, <1>3, <1>4 DEF TypeOK
<1>6. SingleFlight' /\ Fetches'
  BY <1>1, <1>2 DEF SingleFlight, Fetches
<1>7. Users'
  BY <1>1, <1>2, <1>4 DEF Users
<1> QED  BY <1>4, <1>5, <1>6, <1>7 DEF IInv, Located

-----------------------------------------------------------------------------
(* The watcher, the main loop and the context: what is open stays so.      *)

LEMMA LoopInv ==
  ASSUME IInv, main # "panicked",
         \/ StartFSWatch \/ Edit \/ WatchEvent \/ DebounceFires \/ WatchEnds
         \/ LoopReconcile \/ ScanTick \/ Announce \/ NotifyDone \/ LoopPull
         \/ SyncTick \/ LoopStops \/ Cancel
  PROVE  IInv'
<1>1. /\ TypeOK /\ SingleFlight /\ Resources /\ Users /\ Fetches
  BY DEF IInv, Located
<1>2. /\ UNCHANGED <<root, netVars, sessionVars, pullVars>>
      /\ edits' \in 0..MaxEdits
  BY <1>1, LifecycleAssumption DEF StartFSWatch, Edit, WatchEvent, DebounceFires,
       WatchEnds, LoopReconcile, ScanTick, Announce, NotifyDone, LoopPull, SyncTick,
       LoopStops, Cancel, watcherUnchanged, loopUnchanged, TypeOK
<1>3. UNCHANGED <<root, server, inject, auth, socks, mesh, healthy, streams, running,
                  pending, pull, snap, fetch, round>>
  BY <1>2 DEF netVars, sessionVars, pullVars
<1>4. /\ watch' \in BOOLEAN /\ event' \in BOOLEAN /\ armed' \in BOOLEAN
      /\ needReconcile' \in BOOLEAN /\ needPull' \in BOOLEAN /\ unscanned' \in BOOLEAN
      /\ notifying' \in BOOLEAN /\ ctx' \in BOOLEAN
  <2>1. /\ watch \in BOOLEAN /\ event \in BOOLEAN /\ armed \in BOOLEAN
        /\ needReconcile \in BOOLEAN /\ needPull \in BOOLEAN /\ unscanned \in BOOLEAN
        /\ notifying \in BOOLEAN /\ ctx \in BOOLEAN
    BY <1>1 DEF TypeOK
  <2>2. CASE StartFSWatch \/ Edit \/ WatchEvent \/ DebounceFires \/ WatchEnds
    BY <2>1, <2>2, Zenon DEF StartFSWatch, Edit, WatchEvent, DebounceFires, WatchEnds,
         watcherUnchanged
  <2>3. CASE LoopReconcile \/ ScanTick \/ Announce \/ NotifyDone
    BY <2>1, <2>3, Zenon DEF LoopReconcile, ScanTick, reconcile, Announce, NotifyDone,
         loopUnchanged, watchVars
  <2>4. CASE LoopPull \/ SyncTick \/ LoopStops \/ Cancel
    BY <2>1, <2>4, Zenon DEF LoopPull, SyncTick, LoopStops, Cancel, loopUnchanged, watchVars
  <2> QED  BY <2>2, <2>3, <2>4
<1>5. /\ main' = main \/ (main \in Serving /\ main' \in Serving)
      /\ main' \in Main
      /\ main \in Pulling => main' \in Pulling
      /\ watch' => main' \in Watching
      /\ notifying' => main' \in Pulling \cup {"waitNotify"}
  <2> USE <1>1 DEF TypeOK, Users, Main, Serving, Watching, Pulling, Goto
  <2>1. CASE StartFSWatch
    BY <2>1 DEF StartFSWatch, watcherUnchanged
  <2>2. CASE Edit
    BY <2>2 DEF Edit, watcherUnchanged
  <2>3. CASE WatchEvent \/ DebounceFires
    BY <2>3 DEF WatchEvent, DebounceFires, watcherUnchanged
  <2>4. CASE WatchEnds
    BY <2>4 DEF WatchEnds, watcherUnchanged
  <2>5. CASE LoopReconcile \/ ScanTick
    BY <2>5 DEF LoopReconcile, ScanTick, reconcile, loopUnchanged, watchVars
  <2>6. CASE Announce
    BY <2>6 DEF Announce, loopUnchanged, watchVars
  <2>7. CASE NotifyDone
    BY <2>7 DEF NotifyDone, loopUnchanged, watchVars
  <2>8. CASE LoopPull \/ SyncTick \/ LoopStops
    BY <2>8 DEF LoopPull, SyncTick, LoopStops, loopUnchanged, watchVars
  <2>9. CASE Cancel
    BY <2>9 DEF Cancel, watchVars
  <2> QED  BY <2>1, <2>2, <2>3, <2>4, <2>5, <2>6, <2>7, <2>8, <2>9
<1>6. TypeOK'
  BY <1>1, <1>2, <1>3, <1>4, <1>5 DEF TypeOK
<1>7. SingleFlight' /\ Fetches'
  BY <1>1, <1>3 DEF SingleFlight, Fetches
<1>8. Resources'
  BY <1>1, <1>3, <1>5 DEF Resources, Serving
<1>9. Users'
  BY <1>1, <1>3, <1>5 DEF Users
<1>10. main' # "panicked"
  BY <1>5 DEF Serving
<1> QED  BY <1>6, <1>7, <1>8, <1>9, <1>10 DEF IInv, Located

-----------------------------------------------------------------------------
(* The deferred calls: each waits for the users of what it closes.         *)

LEMMA TeardownInv ==
  ASSUME IInv, main # "panicked",
         \/ StopWatch \/ CloseMesh \/ MeshClosed \/ Wait \/ CloseNetworkBackend
         \/ CloseRoot
  PROVE  IInv'
<1>1. /\ TypeOK /\ SingleFlight /\ Resources /\ Users /\ Fetches
  BY DEF IInv, Located
<1>2. UNCHANGED teardownUnchanged
  BY DEF StopWatch, CloseMesh, MeshClosed, Wait, CloseNetworkBackend, CloseRoot
<1>3. UNCHANGED <<notifying, ctx, streams, watch, event, armed, needReconcile, needPull,
                  unscanned, running, pending, pull, snap, fetch, round, edits>>
  BY <1>2 DEF teardownUnchanged, watchVars, pullVars
<1>4. root' \in BOOLEAN /\ inject' \in BOOLEAN
  <2>1. root \in BOOLEAN /\ inject \in BOOLEAN
    BY <1>1 DEF TypeOK
  <2> QED  BY <2>1, Zenon DEF StopWatch, CloseMesh, MeshClosed, Wait,
                              CloseNetworkBackend, CloseRoot, netVars
<1>5. /\ main' \in Main \ {"panicked"} /\ server' \in {"none", "up", "closed"}
      /\ auth' = auth /\ socks' \subseteq socks /\ mesh' \in {"nil", "open", "closing"}
      /\ healthy' \subseteq healthy
      /\ Resources' /\ Users'
  <2>1. (\A w \in Worker : pull[w] = "none") => ~running
    BY <1>1 DEF SingleFlight
  <2> USE <1>1, <1>3 DEF TypeOK, Resources, Users, Main, Serving, Watching, Pulling, Goto
  <2>2. CASE StopWatch
    BY <2>2 DEF StopWatch, netVars
  <2>3. CASE CloseMesh
    BY <2>3 DEF CloseMesh
  <2>4. CASE MeshClosed
    BY <2>4 DEF MeshClosed
  <2>5. CASE Wait
    BY <2>5, <2>1 DEF Wait, netVars
  <2>6. CASE CloseNetworkBackend
    BY <2>6 DEF CloseNetworkBackend, CloseServer
  <2>7. CASE CloseRoot
    BY <2>7 DEF CloseRoot, netVars
  <2> QED  BY <2>2, <2>3, <2>4, <2>5, <2>6, <2>7
<1>6. TypeOK'
  BY <1>1, <1>3, <1>4, <1>5 DEF TypeOK
<1>7. SingleFlight' /\ Fetches'
  BY <1>1, <1>3 DEF SingleFlight, Fetches
<1> QED  BY <1>5, <1>6, <1>7 DEF IInv, Located

-----------------------------------------------------------------------------
(* The pull worker and its fetches.                                        *)

(* Workers are started one at a time, so an idle one is found.             *)
LEMMA IdleWorker ==
  ASSUME TypeOK, SingleFlight, ~running
  PROVE  /\ idleWorker \in Worker
         /\ \A w \in Worker : pull[w] = "none"
<1>1. \A w \in Worker : pull[w] = "none"
  BY DEF SingleFlight
<1>2. \E w \in Worker : pull[w] = "none"
  BY <1>1, LifecycleAssumption
<1> QED  BY <1>1, <1>2 DEF idleWorker

LEMMA ScheduleInv ==
  ASSUME IInv, main # "panicked", SchedulePull
  PROVE  IInv'
<1>1. /\ TypeOK /\ SingleFlight /\ Resources /\ Users /\ Fetches
  BY DEF IInv, Located
<1>2. /\ main = "pull" /\ main' = "loop" /\ tryStart
      /\ UNCHANGED <<ctx, root, server, inject, auth, socks, mesh, healthy, streams,
                     watch, event, armed, notifying, needReconcile, needPull,
                     unscanned, edits>>
  BY DEF SchedulePull, Goto, loopUnchanged, netVars, sessionVars, watchVars
<1>3. running' \in BOOLEAN /\ pending' \in BOOLEAN /\ round' \in BOOLEAN
  <2>1. running \in BOOLEAN /\ pending \in BOOLEAN /\ round \in BOOLEAN
    BY <1>1 DEF TypeOK
  <2> QED  BY <2>1, <1>2, Zenon DEF tryStart
<1>4. /\ snap' = snap /\ fetch' = fetch
      /\ pull' \in [Worker -> {"none", "check", "snapshot", "loop", "lookup", "wait",
                               "finish"}]
      /\ SingleFlight' /\ Fetches'
  <2>1. CASE running
    BY <2>1, <1>1, <1>2 DEF tryStart, TypeOK, SingleFlight, Fetches
  <2>2. CASE ~running
    <3>1. /\ idleWorker \in Worker /\ \A w \in Worker : pull[w] = "none"
      BY <2>2, <1>1, IdleWorker
    <3>2. /\ snap' = snap /\ fetch' = fetch /\ running'
          /\ pull' = [pull EXCEPT ![idleWorker] = "check"]
      BY <2>2, <1>2 DEF tryStart
    <3>3. \A s \in Session : fetch[s] = "none"
      BY <3>1, <1>1 DEF Fetches
    <3> QED  BY <3>1, <3>2, <3>3, <1>1 DEF TypeOK, SingleFlight, Fetches
  <2> QED  BY <2>1, <2>2
<1>5. TypeOK'
  BY <1>1, <1>2, <1>3, <1>4 DEF TypeOK, Main
<1>6. Resources' /\ Users'
  BY <1>1, <1>2 DEF Resources, Users, Serving, Watching, Pulling
<1> QED  BY <1>2, <1>4, <1>5, <1>6 DEF IInv, Located

LEMMA PullStepInv ==
  ASSUME IInv, main # "panicked", NEW w \in Worker, PullStep(w)
  PROVE  IInv'
<1>1. /\ TypeOK /\ SingleFlight /\ Resources /\ Users /\ Fetches
  BY DEF IInv, Located
<1>2. UNCHANGED <<main, ctx, root, server, inject, auth, socks, mesh, healthy, streams,
                  watch, event, armed, notifying, needReconcile, needPull, unscanned,
                  running, pending, round, edits>>
  BY DEF PullStep, pullUnchanged, netVars, sessionVars
<1>3. PICK pc \in {"finish", "snapshot", "loop", "wait", "lookup"} :
        pull' = [pull EXCEPT ![w] = pc]
  BY DEF PullStep, Then
<1>4. /\ pull[w] # "none"
      /\ snap' \in [Worker -> SUBSET Session]
      /\ fetch' \in [Session -> {"none", "pull", "check", "snapshot"}]
  BY <1>1 DEF PullStep, TypeOK
<1>5. SingleFlight'
  BY <1>1, <1>2, <1>3, <1>4 DEF SingleFlight, TypeOK
<1>6. \A v \in Worker : v # w => pull[v] = "none"
  BY <1>1, <1>4 DEF SingleFlight
<1>7. Fetches'
  <2>1. CASE pull[w] = "lookup"
    <3>1. pull'[w] = "wait"
      BY <2>1, <1>1 DEF PullStep, Then, TypeOK
    <3> QED  BY <3>1 DEF Fetches
  <2>2. CASE pull[w] # "lookup"
    <3>1. fetch' = fetch
      BY <2>2 DEF PullStep
    <3>2. \A s \in Session : fetch[s] = "none"
      BY <2>2, <1>1, <1>6 DEF PullStep, Fetches
    <3> QED  BY <3>1, <3>2 DEF Fetches
  <2> QED  BY <2>1, <2>2
<1>8. TypeOK'
  <2>1. pull' \in [Worker -> {"none", "check", "snapshot", "loop", "lookup", "wait",
                              "finish"}]
    BY <1>1, <1>3 DEF TypeOK
  <2> QED  BY <1>1, <1>2, <1>4, <2>1 DEF TypeOK
<1>9. Resources' /\ Users'
  BY <1>1, <1>2 DEF Resources, Users
<1> QED  BY <1>2, <1>5, <1>7, <1>8, <1>9 DEF IInv, Located

LEMMA FinishInv ==
  ASSUME IInv, main # "panicked", NEW w \in Worker, finish(w)
  PROVE  IInv'
<1>1. /\ TypeOK /\ SingleFlight /\ Resources /\ Users /\ Fetches
  BY DEF IInv, Located
<1>2. UNCHANGED <<main, ctx, root, server, inject, auth, socks, mesh, healthy, streams,
                  watch, event, armed, notifying, needReconcile, needPull, unscanned,
                  snap, fetch, edits>>
  BY DEF finish, pullUnchanged, netVars, sessionVars
<1>3. /\ pull[w] = "finish" /\ running' = pending
      /\ pull' = [pull EXCEPT ![w] = IF pending THEN "check" ELSE "none"]
  BY DEF finish, Then
<1>4. running' \in BOOLEAN /\ pending' \in BOOLEAN /\ round' \in BOOLEAN
  <2>1. running \in BOOLEAN /\ pending \in BOOLEAN /\ round \in BOOLEAN
    BY <1>1 DEF TypeOK
  <2>2. pending' = FALSE /\ round' = IF pending THEN ~round ELSE round
    BY DEF finish
  <2> QED  BY <2>1, <2>2, <1>3, Zenon
<1>5. running /\ \A v \in Worker : v # w => pull[v] = "none"
  BY <1>1, <1>3 DEF SingleFlight
<1>6. SingleFlight'
  BY <1>1, <1>3, <1>5 DEF SingleFlight, TypeOK
<1>7. Fetches'
  BY <1>1, <1>2, <1>3, <1>5 DEF Fetches
<1>8. TypeOK'
  <2>1. pull' \in [Worker -> {"none", "check", "snapshot", "loop", "lookup", "wait",
                              "finish"}]
    BY <1>1, <1>3 DEF TypeOK
  <2> QED  BY <1>1, <1>2, <1>4, <2>1 DEF TypeOK
<1>9. Resources'
  BY <1>1, <1>2 DEF Resources
<1>10. Users'
  BY <1>1, <1>2, <1>5 DEF Users
<1> QED  BY <1>2, <1>6, <1>7, <1>8, <1>9, <1>10 DEF IInv, Located

LEMMA FetchInv ==
  ASSUME IInv, main # "panicked", NEW s \in Session,
         FetchApply(s) \/ FetchNotifies(s)
  PROVE  IInv'
<1>1. /\ TypeOK /\ SingleFlight /\ Resources /\ Users /\ Fetches
  BY DEF IInv, Located
<1>2. UNCHANGED <<main, ctx, root, server, inject, auth, socks, mesh, healthy, streams,
                  watch, armed, needReconcile, needPull, unscanned, running, pending,
                  pull, snap, round>>
  BY DEF FetchApply, FetchNotifies, fetchUnchanged, pullUnchanged, netVars, sessionVars
<1>3. /\ fetch[s] # "none"
      /\ fetch' \in [Session -> {"none", "pull", "check", "snapshot"}]
      /\ \A t \in Session : t # s => fetch'[t] = fetch[t]
      /\ edits' \in 0..MaxEdits
  BY <1>1, LifecycleAssumption DEF FetchApply, FetchNotifies, Fetch, TypeOK
<1>4. event' \in BOOLEAN /\ notifying' \in BOOLEAN
  <2>1. event \in BOOLEAN /\ notifying \in BOOLEAN /\ watch \in BOOLEAN
    BY <1>1 DEF TypeOK
  <2> QED  BY <2>1, Zenon DEF FetchApply, FetchNotifies, fetchUnchanged
<1>5. Fetches'
  BY <1>1, <1>2, <1>3 DEF Fetches
<1>6. main \in Pulling
  BY <1>1, <1>3 DEF Fetches, SingleFlight, Users
<1>7. TypeOK'
  BY <1>1, <1>2, <1>3, <1>4 DEF TypeOK
<1>8. SingleFlight' /\ Resources' /\ Users'
  BY <1>1, <1>2, <1>6 DEF SingleFlight, Resources, Users
<1> QED  BY <1>2, <1>5, <1>7, <1>8 DEF IInv, Located

-----------------------------------------------------------------------------
(* Sessions come and go while the mesh is open.                            *)

LEMMA SessionInv ==
  ASSUME IInv, main # "panicked", NEW s \in Session,
         PeerUp(s) \/ PeerDown(s) \/ StreamBegins(s) \/ StreamEnds(s) \/ OnNotify(s)
  PROVE  IInv'
<1>1. /\ TypeOK /\ SingleFlight /\ Resources /\ Users /\ Fetches
  BY DEF IInv, Located
<1>2. UNCHANGED <<main, ctx, root, server, inject, auth, socks, mesh, watch, event, armed,
                  notifying, needReconcile, unscanned, running, pending, pull, snap,
                  fetch, round, edits>>
  BY DEF PeerUp, PeerDown, StreamBegins, StreamEnds, OnNotify, peersUnchanged, netVars,
         watchVars, pullVars
<1>3. needPull' \in BOOLEAN
  <2>1. needPull \in BOOLEAN
    BY <1>1 DEF TypeOK
  <2> QED  BY <2>1, Zenon DEF PeerUp, PeerDown, StreamBegins, StreamEnds, OnNotify
<1>4. /\ healthy' \subseteq Session /\ streams' \subseteq Session
      /\ healthy' # {} => mesh = "open"
      /\ streams' # {} => mesh # "nil"
  BY <1>1 DEF PeerUp, PeerDown, StreamBegins, StreamEnds, OnNotify, sessionVars, TypeOK,
              Users
<1>5. TypeOK'
  BY <1>1, <1>2, <1>3, <1>4 DEF TypeOK
<1>6. SingleFlight' /\ Fetches' /\ Resources' /\ Users'
  BY <1>1, <1>2, <1>4 DEF SingleFlight, Fetches, Resources, Users
<1> QED  BY <1>2, <1>5, <1>6 DEF IInv, Located

(* Nothing is in use that was closed when Run panics.                      *)
LEMMA NilMeshInv ==
  ASSUME IInv, main # "panicked", NilMesh
  PROVE  IInv'
<1>1. /\ TypeOK /\ SingleFlight /\ UsersOutlived
  BY InvUsers DEF IInv
<1>2. /\ main' = "panicked"
      /\ UNCHANGED <<ctx, root, server, inject, auth, socks, mesh, healthy, streams, watch,
                     event, armed, notifying, needReconcile, needPull, unscanned,
                     running, pending, pull, snap, fetch, round, edits>>
  BY DEF NilMesh, Goto, netVars, sessionVars, watchVars, pullVars
<1>3. TypeOK' /\ SingleFlight' /\ UsersOutlived'
  BY <1>1, <1>2 DEF TypeOK, Main, SingleFlight, UsersOutlived
<1> QED  BY <1>2, <1>3 DEF IInv, Located

LEMMA NextInv == IInv /\ [Next]_vars => IInv'
<1> SUFFICES ASSUME IInv, [Next]_vars PROVE IInv'
  OBVIOUS
<1>1. CASE UNCHANGED vars
  <2>1. UNCHANGED <<main, ctx, root, server, inject, auth, socks, mesh, healthy, streams,
                    watch, event, armed, notifying, needReconcile, needPull, unscanned,
                    running, pending, pull, snap, fetch, round, edits>>
    BY <1>1 DEF vars, netVars, sessionVars, watchVars, pullVars
  <2>2. TypeOK' /\ SingleFlight'
    BY <2>1 DEF IInv, TypeOK, SingleFlight
  <2>3. Located'
    BY <2>1 DEF IInv, Located, UsersOutlived, Resources, Users, Fetches
  <2> QED  BY <2>2, <2>3 DEF IInv
<1>2. CASE Next
  <2> USE <1>2 DEF Next
  <2>1. CASE Sequential \/ AuthWatchEnds
    BY <2>1, StartupInv, LoopInv, TeardownInv DEF Sequential
  <2>2. CASE \/ LoopReconcile \/ ScanTick \/ Announce \/ LoopPull \/ SyncTick
             \/ LoopStops \/ Cancel \/ Edit \/ Watcher \/ NotifyDone
    BY <2>2, LoopInv DEF Watcher
  <2>3. CASE SchedulePull
    BY <2>3, ScheduleInv
  <2>4. ASSUME NEW w \in Worker, Puller(w) PROVE IInv'
    BY <2>4, PullStepInv, FinishInv, NilMeshInv DEF Puller, PullNilMesh
  <2>5. ASSUME NEW s \in Session, Fetcher(s) PROVE IInv'
    BY <2>5, FetchInv, NilMeshInv DEF Fetcher, FetchNilMesh
  <2>6. ASSUME NEW s \in Session,
               \/ PeerUp(s) \/ PeerDown(s) \/ StreamBegins(s) \/ StreamEnds(s)
               \/ OnNotify(s)
        PROVE  IInv'
    BY <2>6, SessionInv
  <2> QED  BY <2>1, <2>2, <2>3, <2>4, <2>5, <2>6
<1> QED  BY <1>1, <1>2

LEMMA InvAlways == Spec => []IInv
BY InitInv, NextInv, PTL DEF Spec

-----------------------------------------------------------------------------
(* Run, its goroutines and the single flight of pulls keep their types.    *)
THEOREM TypeCorrect == Spec => []TypeOK
<1>1. IInv => TypeOK
  BY DEF IInv
<1> QED  BY <1>1, InvAlways, PTL

(* Nobody uses a resource that is closed (Run's deferred calls).           *)
THEOREM ResourcesOutliveUsers == Spec => []UsersOutlived
BY InvUsers, InvAlways, PTL

(* Run leaves nothing behind, whatever way it returns.                     *)
THEOREM RunLeavesNothing == Spec => []NothingLeft
BY InvNothing, InvAlways, PTL

(* At most one pull batch runs (pullFlight).                               *)
THEOREM OneBatchAtATime == Spec => []SingleFlight
<1>1. IInv => SingleFlight
  BY DEF IInv
<1> QED  BY <1>1, InvAlways, PTL

-----------------------------------------------------------------------------
(* Pulls implement PullService.                                            *)

(* What the refinement mapping makes of owed, busy and stopped.            *)
Owed == needPull \/ main = "pull" \/ pending

(* A step that asks for a pull, or does not change whether one is owed.    *)
LEMMA Requests ==
  ASSUME UNCHANGED <<running, round, ctx>>, Owed => Owed'
  PROVE  [Pulls!Next]_(Pulls!vars)
<1>1. CASE Owed' = Owed
  BY <1>1 DEF Owed, Pulls!vars
<1>2. CASE Owed' # Owed
  <2>1. Owed' = TRUE
    BY <1>2 DEF Owed
  <2> QED  BY <2>1, Zenon DEF Owed, Pulls!Next, Pulls!Request
<1> QED  BY <1>1, <1>2

LEMMA SchedulePullRefines ==
  ASSUME IInv, main # "panicked", SchedulePull
  PROVE  [Pulls!Next]_(Pulls!vars)
<1>1. /\ main = "pull" /\ main' = "loop" /\ tryStart /\ UNCHANGED <<ctx, needPull>>
  BY DEF SchedulePull, Goto, loopUnchanged
<1>2. CASE running
  <2>1. /\ UNCHANGED <<running, round, ctx>> /\ pending'
    BY <1>1, <1>2 DEF tryStart
  <2> QED  BY <2>1, Requests DEF Owed
<1>3. CASE ~running
  <2>1. /\ running' = TRUE /\ round' = ~round /\ ctx' = ctx
    BY <1>1, <1>3 DEF tryStart
  <2>2. Owed /\ Owed' \in BOOLEAN
    BY <1>1 DEF Owed
  <2> QED  BY <2>1, <2>2, Zenon DEF Owed, Pulls!Next, Pulls!Begin
<1> QED  BY <1>2, <1>3

LEMMA FinishRefines ==
  ASSUME IInv, main # "panicked", NEW w \in Worker, finish(w)
  PROVE  [Pulls!Next]_(Pulls!vars)
<1>1. /\ running' = pending /\ pending' = FALSE
      /\ round' = IF pending THEN ~round ELSE round
      /\ UNCHANGED <<main, ctx, needPull>>
  BY DEF finish, pullUnchanged
<1>2. CASE pending
  <2>1. /\ running' = TRUE /\ round' = ~round /\ ctx' = ctx
    BY <1>1, <1>2 DEF IInv, TypeOK
  <2>2. Owed /\ Owed' \in BOOLEAN
    BY <1>2 DEF Owed
  <2> QED  BY <2>1, <2>2, Zenon DEF Owed, Pulls!Next, Pulls!Begin
<1>3. CASE ~pending
  <2>1. running
    BY DEF finish, IInv, SingleFlight
  <2>2. running' = FALSE /\ round' = round /\ ctx' = ctx
    BY <1>1, <1>3 DEF IInv, TypeOK
  <2>3. Owed' = Owed
    BY <1>1, <1>3 DEF Owed
  <2> QED  BY <2>1, <2>2, <2>3, Zenon DEF Owed, Pulls!Next, Pulls!End
<1> QED  BY <1>2, <1>3

LEMMA StepRefines == IInv /\ [Next]_vars => [Pulls!Next]_(Pulls!vars)
<1> SUFFICES ASSUME IInv, [Next]_vars PROVE [Pulls!Next]_(Pulls!vars)
  OBVIOUS
<1>1. CASE UNCHANGED vars
  BY <1>1 DEF vars, pullVars, Pulls!vars
<1>2. CASE Next
  <2> USE <1>2 DEF Next
  <2>1. CASE Sequential
    <3>1. UNCHANGED <<running, round, ctx, needPull, pending>> /\ main # "pull"
      BY <2>1 DEF Sequential, OpenRoot, LoadAndReconcile, ListenPlain, TSNetStart,
           TSNetUp, TSNetReady, HostStart, Identify, Bind, StartFSWatch,
           StopWatch, CloseMesh, MeshClosed, Wait, CloseNetworkBackend, CloseRoot,
           listenUnchanged, watcherUnchanged, teardownUnchanged, pullVars
    <3> QED  BY <3>1, Requests DEF Owed
  <2>2. CASE LoopReconcile \/ ScanTick \/ Announce \/ LoopPull \/ SyncTick \/ LoopStops
    <3>1. UNCHANGED <<running, round, ctx, pending>> /\ main # "pull"
      BY <2>2 DEF LoopReconcile, ScanTick, Announce, LoopPull, SyncTick, LoopStops,
           loopUnchanged, pullVars
    <3>2. needPull => needPull' \/ main' = "pull"
      BY <2>2 DEF LoopReconcile, ScanTick, Announce, LoopPull, SyncTick, LoopStops, Goto
    <3> QED  BY <3>1, <3>2, Requests DEF Owed
  <2>3. CASE AuthWatchEnds \/ Edit \/ Watcher \/ NotifyDone
    <3>1. UNCHANGED <<running, round, ctx, needPull, pending, main>>
      BY <2>3 DEF AuthWatchEnds, Edit, Watcher, WatchEvent, DebounceFires, WatchEnds,
           NotifyDone, listenUnchanged, watcherUnchanged, loopUnchanged, pullVars
    <3> QED  BY <3>1, Requests DEF Owed
  <2>4. CASE Cancel
    <3>1. ctx' = TRUE /\ UNCHANGED <<running, round, needPull, pending, main>>
      BY <2>4 DEF Cancel, pullVars
    <3>2. Owed' = Owed
      BY <3>1 DEF Owed
    <3> QED  BY <3>1, <3>2, Zenon DEF Owed, Pulls!Next, Pulls!Stop
  <2>5. CASE SchedulePull
    BY <2>5, SchedulePullRefines
  <2>6. ASSUME NilMesh PROVE [Pulls!Next]_(Pulls!vars)
    <3>1. UNCHANGED <<running, round, ctx, needPull, pending>> /\ mesh = "nil"
      BY <2>6 DEF NilMesh, pullVars
    <3>2. main # "pull"
      BY <3>1 DEF IInv, Located, Resources, Serving
    <3> QED  BY <3>1, <3>2, Requests DEF Owed
  <2>7. ASSUME NEW w \in Worker, Puller(w) PROVE [Pulls!Next]_(Pulls!vars)
    <3>1. CASE PullStep(w)
      <4>1. UNCHANGED <<running, round, ctx, needPull, pending, main>>
        BY <3>1 DEF PullStep, pullUnchanged
      <4> QED  BY <4>1, Requests DEF Owed
    <3> QED  BY <2>6, <2>7, <3>1, FinishRefines DEF Puller, PullNilMesh
  <2>8. ASSUME NEW s \in Session, Fetcher(s) PROVE [Pulls!Next]_(Pulls!vars)
    <3>1. CASE FetchApply(s) \/ FetchNotifies(s)
      <4>1. UNCHANGED <<running, round, ctx, needPull, pending, main>>
        BY <3>1 DEF FetchApply, FetchNotifies, fetchUnchanged, pullUnchanged
      <4> QED  BY <4>1, Requests DEF Owed
    <3> QED  BY <2>6, <2>8, <3>1 DEF Fetcher, FetchNilMesh
  <2>9. ASSUME NEW s \in Session,
               \/ PeerUp(s) \/ PeerDown(s) \/ StreamBegins(s) \/ StreamEnds(s)
               \/ OnNotify(s)
        PROVE  [Pulls!Next]_(Pulls!vars)
    <3>1. UNCHANGED <<running, round, ctx, pending, main>>
      BY <2>9 DEF PeerUp, PeerDown, StreamBegins, StreamEnds, OnNotify, peersUnchanged,
                  pullVars
    <3>2. needPull' = needPull \/ needPull'
      BY <2>9, Zenon DEF PeerUp, PeerDown, StreamBegins, StreamEnds, OnNotify
    <3> QED  BY <3>1, <3>2, Requests DEF Owed
  <2> QED  BY <2>1, <2>2, <2>3, <2>4, <2>5, <2>7, <2>8, <2>9
<1> QED  BY <1>1, <1>2

LEMMA InitRefines == Init => Pulls!Init
BY Zenon DEF Init, Pulls!Init

(* The wake-up channel, the main loop and pullFlight never drop a request  *)
(* for a pull and never run two batches at once: they implement the steps  *)
(* of PullService.                                                         *)
THEOREM PullsImplemented == Spec => Pulls!Init /\ [][Pulls!Next]_(Pulls!vars)
BY InitRefines, StepRefines, InvAlways, PTL DEF Spec

-----------------------------------------------------------------------------
(* A change that was heard of.                                             *)

(* Only a watcher has events and a timer, and Run goes on until it is told *)
(* to stop.                                                                *)
Alert == /\ event \/ armed => watch
         /\ main = "stopWatch" => ctx

Kept == (Heard /\ unscanned) => (Heard' \/ ~unscanned' \/ ctx')

(* Steps that have nothing to do with the watcher.                         *)
Deaf == /\ UNCHANGED <<watch, event, armed, needReconcile, ctx>>
        /\ unscanned' => unscanned
        /\ main' = "stopWatch" => main = "stopWatch" \/ ctx

LEMMA DeafKeeps == Alert /\ Deaf => Alert' /\ Kept
BY DEF Alert, Deaf, Kept, Heard

LEMMA NextHears == IInv /\ Alert /\ [Next]_vars => Alert' /\ Kept
<1> SUFFICES ASSUME IInv, Alert, [Next]_vars PROVE Alert' /\ Kept
  OBVIOUS
<1>1. CASE UNCHANGED vars
  <2>1. Deaf
    BY <1>1, Zenon DEF vars, watchVars, Deaf
  <2> QED  BY <2>1, DeafKeeps
<1>2. CASE Next
  <2> USE <1>2 DEF Next
  <2>1. CASE Sequential /\ ~StartFSWatch
    <3>1. UNCHANGED <<watch, event, armed, needReconcile, ctx>>
      BY <2>1 DEF Sequential, OpenRoot, LoadAndReconcile, ListenPlain, TSNetStart,
           TSNetUp, TSNetReady, HostStart, Identify, Bind,
           StopWatch, CloseMesh, MeshClosed, Wait, CloseNetworkBackend, CloseRoot,
           listenUnchanged, teardownUnchanged, watchVars
    <3>2. unscanned' => unscanned
      BY <2>1, Zenon DEF Sequential, OpenRoot, LoadAndReconcile, ListenPlain,
           TSNetStart, TSNetUp, TSNetReady, HostStart, Identify, Bind,
           StopWatch, CloseMesh, MeshClosed, Wait, CloseNetworkBackend, CloseRoot,
           listenUnchanged, teardownUnchanged, reconcile
    <3>3. main' # "stopWatch"
      BY <2>1 DEF Sequential, OpenRoot, LoadAndReconcile, ListenPlain, TSNetStart,
           TSNetUp, TSNetReady, HostStart, Identify, Bind, StartMesh, ListenFails,
           StopWatch, CloseMesh, MeshClosed, Wait, CloseNetworkBackend, CloseRoot,
           reconcile, Goto
    <3> QED  BY <3>1, <3>2, <3>3, DeafKeeps DEF Deaf
  <2>2. CASE StartFSWatch
    <3>1. /\ main = "watch" /\ main' = "announceBoot"
          /\ UNCHANGED <<event, armed, needReconcile, unscanned, ctx>>
      BY <2>2 DEF StartFSWatch, watcherUnchanged, Goto
    <3>2. ~watch
      BY <3>1 DEF IInv, Located, Users, Watching
    <3> QED  BY <3>1, <3>2 DEF Alert, Kept, Heard
  <2>3. CASE LoopReconcile \/ ScanTick
    <3>1. /\ ~unscanned' /\ main' # "stopWatch"
          /\ UNCHANGED <<watch, event, armed, ctx>>
      BY <2>3 DEF LoopReconcile, ScanTick, reconcile, loopUnchanged, watchVars, Goto
    <3> QED  BY <3>1 DEF Alert, Kept
  <2>4. CASE Announce \/ LoopPull \/ SyncTick \/ SchedulePull \/ LoopStops
    <3>1. /\ UNCHANGED <<watch, event, armed, needReconcile, unscanned, ctx>>
          /\ main' = "stopWatch" => ctx
      BY <2>4 DEF Announce, LoopPull, SyncTick, SchedulePull, LoopStops,
           loopUnchanged, watchVars, Goto
    <3> QED  BY <3>1, DeafKeeps DEF Deaf
  <2>5. CASE AuthWatchEnds \/ NotifyDone
    <3>1. UNCHANGED <<watch, event, armed, needReconcile, unscanned, ctx, main>>
      BY <2>5 DEF AuthWatchEnds, NotifyDone, listenUnchanged, loopUnchanged, watchVars
    <3> QED  BY <3>1, DeafKeeps DEF Deaf
  <2>6. CASE Cancel
    <3>1. ctx' /\ UNCHANGED <<watch, event, armed>>
      BY <2>6, Zenon DEF Cancel, watchVars
    <3> QED  BY <3>1 DEF Alert, Kept
  <2>7. CASE Edit
    <3>1. /\ UNCHANGED <<watch, armed, needReconcile, ctx, main>>
          /\ event' = event \/ event' = watch
      BY <2>7, Zenon DEF Edit, watcherUnchanged
    <3>2. event => event'
      BY <3>1 DEF Alert
    <3> QED  BY <3>1, <3>2 DEF Alert, Kept, Heard
  <2>8. CASE WatchEvent \/ DebounceFires
    <3>1. /\ watch /\ watch' = watch /\ Heard'
          /\ UNCHANGED <<ctx, main>>
      BY <2>8, Zenon DEF WatchEvent, DebounceFires, watcherUnchanged, Heard
    <3> QED  BY <3>1 DEF Alert, Kept
  <2>9. CASE WatchEnds
    <3>1. ctx /\ UNCHANGED <<ctx, main>> /\ ~event' /\ ~armed'
      BY <2>9, Zenon DEF WatchEnds, watcherUnchanged, Alert
    <3> QED  BY <3>1 DEF Alert, Kept
  <2>10. ASSUME NilMesh PROVE Alert' /\ Kept
    <3>1. /\ UNCHANGED <<watch, event, armed, needReconcile, unscanned, ctx>>
          /\ main' = "panicked"
      BY <2>10 DEF NilMesh, watchVars, Goto
    <3> QED  BY <3>1, DeafKeeps DEF Deaf
  <2>11. ASSUME NEW w \in Worker, Puller(w) PROVE Alert' /\ Kept
    <3>1. CASE PullStep(w) \/ finish(w)
      <4>1. UNCHANGED <<watch, event, armed, needReconcile, unscanned, ctx, main>>
        BY <3>1 DEF PullStep, finish, pullUnchanged
      <4> QED  BY <4>1, DeafKeeps DEF Deaf
    <3> QED  BY <2>10, <2>11, <3>1 DEF Puller, PullNilMesh
  <2>12. ASSUME NEW s \in Session, Fetcher(s) PROVE Alert' /\ Kept
    <3>1. CASE FetchApply(s) \/ FetchNotifies(s)
      <4>1. /\ UNCHANGED <<watch, armed, needReconcile, unscanned, ctx, main>>
            /\ event' = event \/ event' = watch
        BY <3>1, Zenon DEF FetchApply, FetchNotifies, fetchUnchanged, pullUnchanged
      <4>2. event => event'
        BY <4>1 DEF Alert
      <4> QED  BY <4>1, <4>2 DEF Alert, Kept, Heard
    <3> QED  BY <2>10, <2>12, <3>1 DEF Fetcher, FetchNilMesh
  <2>13. ASSUME NEW s \in Session,
                \/ PeerUp(s) \/ PeerDown(s) \/ StreamBegins(s) \/ StreamEnds(s)
                \/ OnNotify(s)
         PROVE  Alert' /\ Kept
    <3>1. UNCHANGED <<watch, event, armed, needReconcile, unscanned, ctx, main>>
      BY <2>13 DEF PeerUp, PeerDown, StreamBegins, StreamEnds, OnNotify,
                   peersUnchanged, watchVars
    <3> QED  BY <3>1, DeafKeeps DEF Deaf
  <2> QED  BY <2>1, <2>2, <2>3, <2>4, <2>5, <2>6, <2>7, <2>8, <2>9, <2>11, <2>12,
              <2>13 DEF Watcher
<1> QED  BY <1>1, <1>2

(* A change that the watcher has heard of is not forgotten before a scan   *)
(* is tried or Run is told to stop (watchLoop, request).                   *)
THEOREM ChangesStayHeard == Spec => HeardUntilScanned
<1>1. Init => Alert
  BY DEF Init, Alert
<1>2. IInv /\ Alert /\ [Next]_vars =>
        Alert' /\ [(Heard /\ unscanned) => (Heard' \/ ~unscanned' \/ ctx')]_vars
  BY NextHears DEF Kept
<1> QED  BY <1>1, <1>2, InvAlways, PTL DEF Spec, HeardUntilScanned
=============================================================================
