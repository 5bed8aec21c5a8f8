------------------------------- MODULE Peers -------------------------------
(***************************************************************************)
(* The peer mesh (internal/peer): every node dials the others and accepts  *)
(* their connections, a Hello exchange decides whether a connection is     *)
(* kept, and a roster keeps at most one session with each peer.  Sessions  *)
(* end when their connection is lost, when the heartbeat gives up, when a  *)
(* better connection replaces them or when the manager closes.             *)
(*                                                                         *)
(* Each connection is set up by one goroutine per side, and a session is   *)
(* closed by whichever goroutine meets a reason to: a step ends where the  *)
(* code lets go of the roster's or the session's lock and another          *)
(* goroutine could change what is read next.                               *)
(***************************************************************************)
EXTENDS Naturals, FiniteSets

CONSTANTS
  Node,        \* node IDs; their order is the lexicographic one
  Conn,        \* the connections: dialer, acceptor and a number that tells
               \* apart those of one direction that exist at the same time
  NoConn,
  Stops,       \* the nodes that may be shut down or crash, and whose peers
               \* open streams
  MaxTrouble,  \* bound on lost connections, timeouts, failed checks,
               \* shutdowns and crashes
  MaxStreams   \* bound on inbound streams

ASSUME PeersAssumption ==
  /\ Node \subseteq Nat /\ Stops \subseteq Node
  /\ Conn \subseteq {c \in Node \X Node \X Nat : c[1] # c[2]}
  /\ NoConn \notin Conn

Dialer(c) == c[1]
Acceptor(c) == c[2]
Ends(c) == {c[1], c[2]}
Other(c, n) == IF n = c[1] THEN c[2] ELSE c[1]

VARIABLES
  mgr,       \* mgr[n]: how far Manager.Close of n has come
  up,        \* up[c]: the QUIC connection works
  helloOK,   \* helloOK[c]: HelloOK was sent and is not yet read
  ph,        \* ph[n][c]: what the goroutine of n that sets up c does next
  old,       \* old[n][c]: the session that c replaces at n
  sess,      \* sess[n][c]: the session of n on c
  handling,  \* handling[n][c]: a handler of an inbound stream of c runs
  roster,    \* roster[n][m]: the session of n with m, or NoConn
  doomed,    \* doomed[n]: the sessions CloseAll has taken from the roster
  trouble, streams

vars == <<mgr, up, helloOK, ph, old, sess, handling, roster, doomed,
          trouble, streams>>

bounds == <<trouble, streams>>

(* "dial" and "accept" are the two sides of the Hello exchange; the rest   *)
(* is installAndActivate.                                                  *)
Phase == {"none", "dial", "accept", "install", "evict", "evicting",
          "activate", "recheck", "discard", "closing"}

(* "open" is a new session, "live" one whose accept loop and heartbeat     *)
(* run; Close has begun in "closing", with its callback, and in "quiet",   *)
(* without.  "none" is no session, or one whose Close has returned.        *)
SessionState == {"none", "open", "live", "closing", "quiet"}

TypeOK ==
  /\ mgr \in [Node -> {"running", "cancelled", "draining", "waiting", "closed",
                     "crashed"}]
  /\ up \in [Conn -> BOOLEAN]
  /\ helloOK \in [Conn -> BOOLEAN]
  /\ ph \in [Node -> [Conn -> Phase]]
  /\ old \in [Node -> [Conn -> Conn \cup {NoConn}]]
  /\ sess \in [Node -> [Conn -> SessionState]]
  /\ handling \in [Node -> [Conn -> BOOLEAN]]
  /\ roster \in [Node -> [Node -> Conn \cup {NoConn}]]
  /\ doomed \in [Node -> SUBSET Conn]
  /\ trouble \in Nat /\ streams \in Nat

Init ==
  /\ mgr = [n \in Node |-> "running"]
  /\ up = [c \in Conn |-> FALSE]
  /\ helloOK = [c \in Conn |-> FALSE]
  /\ ph = [n \in Node |-> [c \in Conn |-> "none"]]
  /\ old = [n \in Node |-> [c \in Conn |-> NoConn]]
  /\ sess = [n \in Node |-> [c \in Conn |-> "none"]]
  /\ handling = [n \in Node |-> [c \in Conn |-> FALSE]]
  /\ roster = [n \in Node |-> [m \in Node |-> NoConn]]
  /\ doomed = [n \in Node |-> {}]
  /\ trouble = 0 /\ streams = 0

-----------------------------------------------------------------------------
(* Session and Roster.                                                     *)

Open(n, c) == c # NoConn /\ sess[n][c] \in {"open", "live"}

(* Roster.Get(m), when it is a session that is healthy.                    *)
Connected(n, m) == Open(n, roster[n][m])

PreferredDialer(n, m) == IF n < m THEN n ELSE m

(* Fault: each side prefers the connection it has dialled itself.          *)
preferNewSessionOwn(n, new, cur) == Dialer(new) = n /\ Dialer(cur) # n

preferNewSession(n, new, cur) ==
  LET preferred == PreferredDialer(n, Other(new, n)) IN
  Dialer(new) = preferred /\ Dialer(cur) # preferred

(* Fault: whatever session is mapped to the peer is removed.               *)
RemoveIfCurrentByPeer(n, c) == [roster EXCEPT ![n][Other(c, n)] = NoConn]

RemoveIfCurrent(n, c) ==
  [roster EXCEPT ![n][Other(c, n)] = IF @ = c THEN NoConn ELSE @]

(* The start of Session.Close, up to the wait for stream handlers, with or *)
(* without (setOnClose(nil)) the callback.  Only the first Close counts.   *)
BeginClose(n, c, how) ==
  /\ sess' = [sess EXCEPT ![n][c] = IF Open(n, c) THEN how ELSE @]
  /\ up' = [up EXCEPT ![c] = FALSE]

Fault == trouble < MaxTrouble /\ trouble' = trouble + 1 /\ UNCHANGED streams
NoFault == UNCHANGED bounds

Go(n, c, phase) == ph' = [ph EXCEPT ![n][c] = phase]

-----------------------------------------------------------------------------
(* Dialling and the Hello exchange.                                        *)

EndpointOpen(n) == mgr[n] \in {"running", "cancelled", "draining"}

(* A number is used again when nobody refers to the last connection.       *)
Free(c) ==
  \A n \in Ends(c) :
    /\ ph[n][c] = "none" /\ sess[n][c] = "none"
    /\ roster[n][Other(c, n)] # c /\ c \notin doomed[n]
    /\ \A d \in Conn : old[n][d] # c

Between(n, m) == {c \in Conn : Dialer(c) = n /\ Acceptor(c) = m}

(* A discovery tick finds that m is not connected and that no dial to it   *)
(* is under way, and the QUIC dial succeeds.  A dial that fails changes    *)
(* nothing but the backoff, which only delays the next one.                *)
Dial(n, m) ==
  /\ mgr[n] = "running" /\ EndpointOpen(m)
  /\ ~Connected(n, m)
  /\ \A c \in Between(n, m) : ph[n][c] = "none"
  /\ \E c \in Between(n, m) :
       /\ Free(c)
       /\ \A d \in Between(n, m) : Free(d) => c[3] <= d[3]
       /\ ph' = [ph EXCEPT ![n][c] = "dial", ![m][c] = "accept"]
       /\ up' = [up EXCEPT ![c] = TRUE]
       /\ helloOK' = [helloOK EXCEPT ![c] = FALSE]
  /\ UNCHANGED <<mgr, old, sess, handling, roster, doomed, bounds>>

(* handleInbound's advisory check: a healthy session is only put at risk   *)
(* for a connection of the preferred dialer.                               *)
decide(n, m) == Connected(n, m) => PreferredDialer(n, m) = m

(* inboundHandshake and the new session.  It fails because the connection  *)
(* or the manager goes, because decide says no (AlreadyConnected), or on a *)
(* timeout or an identity check (Fault).                                   *)
Accept(n, c) ==
  LET fine == up[c] /\ mgr[n] = "running" /\ decide(n, Dialer(c)) IN
  /\ n = Acceptor(c)
  /\ ph[n][c] = "accept"
  /\ \/ /\ up[c] /\ decide(n, Dialer(c))
        /\ helloOK' = [helloOK EXCEPT ![c] = TRUE]
        /\ sess' = [sess EXCEPT ![n][c] = "open"]
        /\ Go(n, c, "install")
        /\ NoFault
        /\ UNCHANGED up
     \/ /\ IF fine THEN Fault ELSE NoFault
        /\ up' = [up EXCEPT ![c] = FALSE]
        /\ Go(n, c, "none")
        /\ UNCHANGED <<helloOK, sess>>
  /\ UNCHANGED <<mgr, old, handling, roster, doomed>>

(* outboundHandshake, verifyRemote and the new session.                    *)
Hello(n, c) ==
  /\ n = Dialer(c)
  /\ ph[n][c] = "dial"
  /\ helloOK' = [helloOK EXCEPT ![c] = FALSE]
  /\ \/ /\ helloOK[c]
        /\ sess' = [sess EXCEPT ![n][c] = "open"]
        /\ Go(n, c, "install")
        /\ NoFault
        /\ UNCHANGED up
     \/ /\ IF up[c] /\ mgr[n] = "running" THEN Fault ELSE NoFault
        /\ up' = [up EXCEPT ![c] = FALSE]
        /\ Go(n, c, "none")
        /\ UNCHANGED sess
  /\ UNCHANGED <<mgr, old, handling, roster, doomed>>

-----------------------------------------------------------------------------
(* installAndActivate.                                                     *)

(* Roster.Install keeps the mapped session: it is healthy and the new one  *)
(* is not preferred.                                                       *)
RejectsNew(n, c) ==
  LET cur == roster[n][Other(c, n)] IN
  Open(n, cur) /\ ~preferNewSession(n, c, cur)

(* Fault: the session that is replaced is not handed back to be closed.    *)
InstallForgets(n, c) ==
  /\ ph[n][c] = "install"
  /\ IF RejectsNew(n, c)
       THEN /\ BeginClose(n, c, "quiet")
            /\ Go(n, c, "closing")
            /\ UNCHANGED <<roster, old>>
       ELSE /\ roster' = [roster EXCEPT ![n][Other(c, n)] = c]
            /\ Go(n, c, "activate")
            /\ UNCHANGED <<sess, up, old>>
  /\ UNCHANGED <<mgr, helloOK, handling, doomed, bounds>>

Install(n, c) ==
  LET m   == Other(c, n)
      cur == roster[n][m]
  IN  /\ ph[n][c] = "install"
      /\ IF RejectsNew(n, c)
           THEN /\ BeginClose(n, c, "quiet")
                /\ Go(n, c, "closing")
                /\ UNCHANGED <<roster, old>>
           ELSE /\ roster' = [roster EXCEPT ![n][m] = c]
                /\ old' = [old EXCEPT ![n][c] = cur]
                /\ Go(n, c, IF cur = NoConn THEN "activate" ELSE "evict")
                /\ UNCHANGED <<sess, up>>
      /\ UNCHANGED <<mgr, helloOK, handling, doomed, bounds>>

(* The replaced session is closed without its callback, unless somebody    *)
(* has closed it before.                                                   *)
Evict(n, c) ==
  /\ ph[n][c] = "evict"
  /\ BeginClose(n, old[n][c], "quiet")
  /\ IF sess[n][old[n][c]] = "none"
       THEN Go(n, c, "activate") /\ old' = [old EXCEPT ![n][c] = NoConn]
       ELSE Go(n, c, "evicting") /\ UNCHANGED old
  /\ UNCHANGED <<mgr, helloOK, handling, roster, doomed, bounds>>

(* Fault: the manager's context is not looked at.                          *)
ActivateAnyway(n, c) ==
  /\ ph[n][c] = "activate"
  /\ IF roster[n][Other(c, n)] = c /\ Open(n, c)
       THEN /\ sess' = [sess EXCEPT ![n][c] = "live"]
            /\ Go(n, c, "recheck")
       ELSE /\ Go(n, c, "discard")
            /\ UNCHANGED sess
  /\ UNCHANGED <<mgr, up, helloOK, old, handling, roster, doomed, bounds>>

(* activateIfCurrent: start the loops if this is still the session of the  *)
(* roster and the manager is not closing ...                               *)
Activate(n, c) ==
  /\ ph[n][c] = "activate"
  /\ IF roster[n][Other(c, n)] = c /\ Open(n, c) /\ mgr[n] = "running"
       THEN /\ sess' = [sess EXCEPT ![n][c] = "live"]
            /\ Go(n, c, "recheck")
       ELSE /\ Go(n, c, "discard")
            /\ UNCHANGED sess
  /\ UNCHANGED <<mgr, up, helloOK, old, handling, roster, doomed, bounds>>

(* ... and look again, after the loops were started.                       *)
Recheck(n, c) ==
  /\ ph[n][c] = "recheck"
  /\ Go(n, c, IF roster[n][Other(c, n)] = c /\ Open(n, c) THEN "none" ELSE "discard")
  /\ UNCHANGED <<mgr, up, helloOK, old, sess, handling, roster, doomed, bounds>>

(* Fault: a discarded session is closed but not taken out of the roster.   *)
DiscardInPlace(n, c) ==
  /\ ph[n][c] = "discard"
  /\ BeginClose(n, c, "quiet")
  /\ Go(n, c, IF sess[n][c] = "none" THEN "none" ELSE "closing")
  /\ UNCHANGED <<mgr, helloOK, old, handling, roster, doomed, bounds>>

(* discardSession: drop the callback, leave the roster, close.             *)
Discard(n, c) ==
  /\ ph[n][c] = "discard"
  /\ roster' = RemoveIfCurrent(n, c)
  /\ BeginClose(n, c, "quiet")
  /\ Go(n, c, IF sess[n][c] = "none" THEN "none" ELSE "closing")
  /\ UNCHANGED <<mgr, helloOK, old, handling, doomed, bounds>>

-----------------------------------------------------------------------------
(* A session in use.                                                       *)

(* spawnStreamHandler: refused once Close has begun.                       *)
SpawnStream(n, c) ==
  /\ sess[n][c] = "live" /\ up[c]
  /\ ~handling[n][c]
  /\ streams < MaxStreams
  /\ streams' = streams + 1
  /\ handling' = [handling EXCEPT ![n][c] = TRUE]
  /\ UNCHANGED <<mgr, up, helloOK, ph, old, sess, roster, doomed, trouble>>

StreamDone(n, c) ==
  /\ handling[n][c]
  /\ handling' = [handling EXCEPT ![n][c] = FALSE]
  /\ UNCHANGED <<mgr, up, helloOK, ph, old, sess, roster, doomed, bounds>>

(* The accept loop ends with the connection or with the manager's context, *)
(* and a pull or a notify that got the session from the roster meets a     *)
(* hard error once the connection is gone.                                 *)
SessionEnds(n, c) ==
  /\ Open(n, c)
  /\ \/ sess[n][c] = "live" /\ (~up[c] \/ mgr[n] # "running")
     \/ roster[n][Other(c, n)] = c /\ ~up[c]
  /\ BeginClose(n, c, "closing")
  /\ UNCHANGED <<mgr, helloOK, ph, old, handling, roster, doomed, bounds>>

(* Invalidate by a heartbeat that timed out, or on a broken stream, while  *)
(* the connection still works.                                             *)
Invalidate(n, c) ==
  /\ Open(n, c)
  /\ sess[n][c] = "live" \/ roster[n][Other(c, n)] = c
  /\ Fault
  /\ BeginClose(n, c, "closing")
  /\ UNCHANGED <<mgr, helloOK, ph, old, handling, roster, doomed>>

(* What goes on when Close(c) returns: the goroutine that discarded c is   *)
(* done, and one that replaced c goes on to activate its own session.      *)
Resume(n, c) ==
  /\ ph' = [ph EXCEPT ![n] = [d \in Conn |->
       IF d = c /\ @[d] = "closing" THEN "none"
       ELSE IF @[d] = "evicting" /\ old[n][d] = c THEN "activate" ELSE @[d]]]
  /\ old' = [old EXCEPT ![n] = [d \in Conn |->
       IF ph[n][d] = "evicting" /\ @[d] = c THEN NoConn ELSE @[d]]]

(* The end of Session.Close: the handlers are done; onSessionClose.        *)
CloseReturns(n, c) ==
  /\ sess[n][c] \in {"closing", "quiet"}
  /\ ~handling[n][c]
  /\ roster' = IF sess[n][c] = "closing" THEN RemoveIfCurrent(n, c) ELSE roster
  /\ sess' = [sess EXCEPT ![n][c] = "none"]
  /\ Resume(n, c)
  /\ UNCHANGED <<mgr, up, helloOK, handling, doomed, bounds>>

(* The network loses a connection.                                         *)
Lose(c) ==
  /\ up[c]
  /\ up' = [up EXCEPT ![c] = FALSE]
  /\ Fault
  /\ UNCHANGED <<mgr, helloOK, ph, old, sess, handling, roster, doomed>>

-----------------------------------------------------------------------------
(* Manager.Close, crashes and restarts.                                    *)

(* Close, first step: cancel the context.                                  *)
Cancel(n) ==
  /\ mgr[n] = "running"
  /\ mgr' = [mgr EXCEPT ![n] = "cancelled"]
  /\ Fault
  /\ UNCHANGED <<up, helloOK, ph, old, sess, handling, roster, doomed>>

(* Fault: the entries are not checked before they are collected.           *)
CloseAllUnchecked(n) ==
  /\ mgr[n] = "cancelled"
  /\ mgr' = [mgr EXCEPT ![n] = "draining"]
  /\ doomed' = [doomed EXCEPT ![n] = {roster[n][m] : m \in Node}]
  /\ roster' = [roster EXCEPT ![n] = [m \in Node |-> NoConn]]
  /\ UNCHANGED <<up, helloOK, ph, old, sess, handling, bounds>>

(* Roster.CloseAll empties the map and then closes what was in it.         *)
CloseAll(n) ==
  /\ mgr[n] = "cancelled"
  /\ mgr' = [mgr EXCEPT ![n] = "draining"]
  /\ doomed' = [doomed EXCEPT ![n] = {roster[n][m] : m \in Node} \ {NoConn}]
  /\ roster' = [roster EXCEPT ![n] = [m \in Node |-> NoConn]]
  /\ UNCHANGED <<up, helloOK, ph, old, sess, handling, bounds>>

CloseDoomed(n, c) ==
  /\ c \in doomed[n]
  /\ Open(n, c)
  /\ BeginClose(n, c, "closing")
  /\ UNCHANGED <<mgr, helloOK, ph, old, handling, roster, doomed, bounds>>

(* Endpoint.Close, once CloseAll is through: every connection goes.        *)
EndpointClose(n) ==
  /\ mgr[n] = "draining"
  /\ \A c \in doomed[n] : sess[n][c] = "none"
  /\ mgr' = [mgr EXCEPT ![n] = "waiting"]
  /\ doomed' = [doomed EXCEPT ![n] = {}]
  /\ up' = [c \in Conn |-> up[c] /\ n \notin Ends(c)]
  /\ UNCHANGED <<helloOK, ph, old, sess, handling, roster, bounds>>

(* Manager.Close returns when the goroutines it counts have.               *)
CloseDone(n) ==
  /\ mgr[n] = "waiting"
  /\ \A c \in Conn : ph[n][c] = "none"
  /\ mgr' = [mgr EXCEPT ![n] = "closed"]
  /\ UNCHANGED <<up, helloOK, ph, old, sess, handling, roster, doomed, bounds>>

Crash(n) ==
  /\ mgr[n] \notin {"closed", "crashed"}
  /\ Fault
  /\ mgr' = [mgr EXCEPT ![n] = "crashed"]
  /\ up' = [c \in Conn |-> up[c] /\ n \notin Ends(c)]
  /\ ph' = [ph EXCEPT ![n] = [c \in Conn |-> "none"]]
  /\ old' = [old EXCEPT ![n] = [c \in Conn |-> NoConn]]
  /\ sess' = [sess EXCEPT ![n] = [c \in Conn |-> "none"]]
  /\ handling' = [handling EXCEPT ![n] = [c \in Conn |-> FALSE]]
  /\ roster' = [roster EXCEPT ![n] = [m \in Node |-> NoConn]]
  /\ doomed' = [doomed EXCEPT ![n] = {}]
  /\ UNCHANGED helloOK

(* After a crash, the next process has a new Manager.                      *)
Start(n) ==
  /\ mgr[n] = "crashed"
  /\ mgr' = [mgr EXCEPT ![n] = "running"]
  /\ UNCHANGED <<up, helloOK, ph, old, sess, handling, roster, doomed, bounds>>

-----------------------------------------------------------------------------
(* The goroutine of n that sets up c.                                      *)
Setup(n, c) ==
  \/ Accept(n, c) \/ Hello(n, c) \/ Install(n, c) \/ Evict(n, c)
  \/ Activate(n, c) \/ Recheck(n, c) \/ Discard(n, c)

(* The goroutines of a session, and CloseAll's loop over the sessions.     *)
Session(n, c) ==
  SessionEnds(n, c) \/ CloseDoomed(n, c) \/ StreamDone(n, c) \/ CloseReturns(n, c)

Closing(n) == CloseAll(n) \/ EndpointClose(n) \/ CloseDone(n) \/ Start(n)

Next ==
  \/ \E n \in Stops : Closing(n) \/ Cancel(n) \/ Crash(n)
  \/ \E n \in Node : \E m \in Node \ {n} : Dial(n, m)
  \/ \E c \in Conn : Lose(c)
  \/ \E c \in Conn : \E n \in Ends(c) :
       Setup(n, c) \/ Session(n, c) \/ Invalidate(n, c)
  \/ \E c \in Conn : \E n \in Ends(c) \cap Stops : SpawnStream(n, c)

Spec == Init /\ [][Next]_vars

(* Goroutines go on and timers keep firing: a handshake has a timeout, a   *)
(* handler a deadline, the discovery ticker dials again and the heartbeat  *)
(* notices a connection that is gone.  A daemon that crashes is started    *)
(* again.  Faults, shutdowns and streams happen or not.                    *)
Fairness ==
  /\ \A n \in Stops : WF_vars(Closing(n))
  /\ \A n \in Node : \A m \in Node \ {n} : WF_vars(Dial(n, m))
  /\ \A c \in Conn : \A n \in Ends(c) :
       WF_vars(Setup(n, c)) /\ WF_vars(Session(n, c))

FairSpec == Spec /\ Fairness

-----------------------------------------------------------------------------
(* Properties *)

(* A session that is open is in the roster, or some goroutine is about to  *)
(* close it: replaced and discarded sessions do not leak connections,      *)
(* accept loops and heartbeats (installAndActivate, discardSession).       *)
NoOrphan ==
  \A c \in Conn : \A n \in Ends(c) :
    Open(n, c) =>
      \/ roster[n][Other(c, n)] = c
      \/ ph[n][c] # "none"
      \/ \E d \in Conn : ph[n][d] = "evict" /\ old[n][d] = c
      \/ c \in doomed[n]

(* A closed session does not linger in the roster, where it would keep     *)
(* discovery from dialling or be handed to a pull: its own callback or the *)
(* goroutine that set it up still takes it out (discardSession).           *)
NoStaleEntry ==
  \A n, m \in Node :
    LET c == roster[n][m] IN
    (c # NoConn /\ ~Open(n, c)) =>
      sess[n][c] = "closing" \/ ph[n][c] \notin {"none", "closing"}

(* The late callback of a session does not take a newer session out of the *)
(* roster: an open session leaves it only when its own goroutine discards  *)
(* it, when the manager closes, or in favour of another (RemoveIfCurrent). *)
ReplacementSurvives ==
  [][\A n, m \in Node :
       (Connected(n, m) /\ roster'[n][m] = NoConn) =>
         \/ ph[n][roster[n][m]] = "discard"
         \/ mgr[n] = "cancelled"
         \/ mgr'[n] = "crashed"]_vars

(* Manager.Close leaves nothing behind: no session, no roster entry, no    *)
(* stream handler.                                                         *)
NothingSurvivesClose ==
  \A n \in Node :
    mgr[n] = "closed" =>
      /\ \A c \in Conn : n \in Ends(c) => sess[n][c] = "none" /\ ~handling[n][c]
      /\ \A m \in Node : roster[n][m] = NoConn

(* A working connection that one side uses is the one the other side uses  *)
(* too, once the other side's goroutines are done with the connections of  *)
(* the two: however dials cross, replacements and late callbacks do not    *)
(* leave the ends on different connections (installAndActivate).           *)
NoHalfOpen ==
  \A n, m \in Node :
    (/\ Connected(n, m) /\ up[roster[n][m]]
     /\ \A c \in Conn : Ends(c) = {n, m} => ph[m][c] = "none"
     /\ mgr[m] # "draining") =>
      roster[m][n] = roster[n][m] /\ Connected(m, n)

(* However dials cross, connections drop and daemons crash: once that      *)
(* ends, every two nodes settle on one connection that both of them use,   *)
(* unless one of them is shut down.                                        *)
Agreement ==
  \A n, m \in Node : n < m =>
    <>[](\/ "closed" \in {mgr[n], mgr[m]}
         \/ /\ Connected(n, m)
            /\ roster[n][m] = roster[m][n]
            /\ up[roster[n][m]])
=============================================================================
