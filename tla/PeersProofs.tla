---------------------------- MODULE PeersProofs ----------------------------
(***************************************************************************)
(* Theorems about Peers, for every set of nodes and of connections between *)
(* them, whichever of them stop or crash and however often.                *)
(***************************************************************************)
EXTENDS Peers, TLAPS

(* Leaves that name no prover are left to Zenon, then to SMT.              *)
USE ZenonT(8), SMTT(15)

-----------------------------------------------------------------------------
(* The inductive invariant.  All of it is local to a node: peers share the *)
(* connections, and only the last theorem depends on those.                *)

Local(n, c) == n \in Ends(c)

(* What the goroutines that set up sessions know of the roster: an entry   *)
(* is under the peer of its connection, and a session is not in it before  *)
(* Install has put it there.                                               *)
Placed(n) ==
  /\ \A m \in Node : roster[n][m] # NoConn =>
       /\ Local(n, roster[n][m]) /\ Other(roster[n][m], n) = m
       /\ ph[n][roster[n][m]] \notin {"dial", "accept", "install"}
  /\ \A c \in Conn : ph[n][c] \in {"dial", "accept"} => sess[n][c] = "none"

(* A session that was replaced has left the roster and is not set up       *)
(* again before the goroutine that replaced it has seen it closed.         *)
Replaced(n) ==
  \A d \in Conn : old[n][d] # NoConn =>
    /\ ph[n][d] \in {"evict", "evicting"}
    /\ ph[n][d] = "evicting" => ~Open(n, old[n][d])
    /\ ph[n][old[n][d]] \notin {"dial", "accept", "install"}
    /\ Local(n, old[n][d]) /\ roster[n][Other(old[n][d], n)] # old[n][d]

(* Whoever waits for a replaced session knows which one.                   *)
Evicting(n) ==
  \A d \in Conn : ph[n][d] \in {"evict", "evicting"} => old[n][d] # NoConn

(* Somebody looks after every session that is not closed.                  *)
Tracked(n) ==
  \A c \in Conn : Local(n, c) /\ sess[n][c] # "none" =>
    \/ roster[n][Other(c, n)] = c
    \/ ph[n][c] # "none"
    \/ \E d \in Conn : ph[n][d] \in {"evict", "evicting"} /\ old[n][d] = c
    \/ c \in doomed[n]

Handled(n) == \A c \in Conn : handling[n][c] => sess[n][c] # "none"

(* From CloseAll on, what is put into the roster is about to be discarded, *)
(* and a closed manager has no goroutine left.                             *)
Late(n) ==
  /\ mgr[n] \in {"draining", "waiting", "closed"} =>
       \A m \in Node : roster[n][m] # NoConn =>
         ph[n][roster[n][m]] \in {"evict", "evicting", "activate", "discard"}
  /\ mgr[n] # "draining" => doomed[n] = {}
  /\ mgr[n] = "closed" => \A c \in Conn : ph[n][c] = "none"

(* NoStaleEntry for one node.                                              *)
Fresh(n) ==
  \A m \in Node : roster[n][m] # NoConn /\ ~Open(n, roster[n][m]) =>
    \/ sess[n][roster[n][m]] = "closing"
    \/ ph[n][roster[n][m]] \notin {"none", "closing"}

NodeInv(n) ==
  /\ Placed(n) /\ Replaced(n) /\ Evicting(n) /\ Tracked(n) /\ Handled(n)
  /\ Late(n) /\ Fresh(n)

IInv == TypeOK /\ \A n \in Node : NodeInv(n)

-----------------------------------------------------------------------------
(* The ends of a connection are nodes, and each has the other as its peer. *)
LEMMA EndsAreNodes ==
  ASSUME NEW c \in Conn, NEW n \in Ends(c)
  PROVE  n \in Node /\ Other(c, n) \in Node
  BY PeersAssumption DEF Ends, Other

(* What is left of a node that does not take the step.                     *)
Same(k) ==
  /\ mgr'[k] = mgr[k] /\ ph'[k] = ph[k] /\ old'[k] = old[k] /\ sess'[k] = sess[k]
  /\ handling'[k] = handling[k] /\ roster'[k] = roster[k] /\ doomed'[k] = doomed[k]

(* A change of one entry of a function of functions.                       *)
LEMMA Update ==
  ASSUME NEW A, NEW B, NEW T, NEW f \in [A -> [B -> T]], NEW a \in A,
         NEW b \in B, NEW v \in T
  PROVE  /\ [f EXCEPT ![a][b] = v] \in [A -> [B -> T]]
         /\ [f EXCEPT ![a][b] = v][a] = [f[a] EXCEPT ![b] = v]
         /\ \A k \in A : k # a => [f EXCEPT ![a][b] = v][k] = f[k]
  OBVIOUS

LEMMA GoEffect ==
  ASSUME TypeOK, NEW n \in Node, NEW c \in Conn, NEW v \in Phase, Go(n, c, v)
  PROVE  /\ ph' \in [Node -> [Conn -> Phase]]
         /\ ph'[n] = [ph[n] EXCEPT ![c] = v]
         /\ \A k \in Node : k # n => ph'[k] = ph[k]
<1>1. ph \in [Node -> [Conn -> Phase]] /\ ph' = [ph EXCEPT ![n][c] = v]
  BY DEF TypeOK, Go
<1> QED BY <1>1, Update

LEMMA SessEffect ==
  ASSUME TypeOK, NEW n \in Node, NEW c \in Conn, NEW v \in SessionState,
         sess' = [sess EXCEPT ![n][c] = v]
  PROVE  /\ sess' \in [Node -> [Conn -> SessionState]]
         /\ sess'[n] = [sess[n] EXCEPT ![c] = v]
         /\ \A k \in Node : k # n => sess'[k] = sess[k]
<1>1. sess \in [Node -> [Conn -> SessionState]]
  BY DEF TypeOK
<1> QED BY <1>1, Update

LEMMA BeginCloseEffect ==
  ASSUME TypeOK, NEW n \in Node, NEW c \in Conn, NEW how \in {"closing", "quiet"},
         BeginClose(n, c, how)
  PROVE  /\ sess' \in [Node -> [Conn -> SessionState]]
         /\ sess'[n] = [sess[n] EXCEPT ![c] = IF Open(n, c) THEN how ELSE sess[n][c]]
         /\ \A k \in Node : k # n => sess'[k] = sess[k]
         /\ up' \in [Conn -> BOOLEAN]
<1> DEFINE v == IF Open(n, c) THEN how ELSE sess[n][c]
<1>1. v \in SessionState
  BY DEF TypeOK, SessionState
<1>2. sess' = [sess EXCEPT ![n][c] = v]
  BY DEF BeginClose, TypeOK
<1>3. up' \in [Conn -> BOOLEAN]
  BY Zenon DEF BeginClose, TypeOK
<1> HIDE DEF v
<1>4. /\ sess' \in [Node -> [Conn -> SessionState]]
      /\ sess'[n] = [sess[n] EXCEPT ![c] = v]
      /\ \A k \in Node : k # n => sess'[k] = sess[k]
  BY <1>1, <1>2, SessEffect
<1> QED BY <1>3, <1>4 DEF v

LEMMA RosterEffect ==
  ASSUME TypeOK, NEW n \in Node, NEW m \in Node, NEW v \in Conn \cup {NoConn},
         roster' = [roster EXCEPT ![n][m] = v]
  PROVE  /\ roster' \in [Node -> [Node -> Conn \cup {NoConn}]]
         /\ roster'[n] = [roster[n] EXCEPT ![m] = v]
         /\ \A k \in Node : k # n => roster'[k] = roster[k]
<1>1. roster \in [Node -> [Node -> Conn \cup {NoConn}]]
  BY DEF TypeOK
<1> DEFINE V == Conn \cup {NoConn}
<1> HIDE DEF V
<1> QED BY <1>1, Update DEF V

LEMMA RemoveEffect ==
  ASSUME TypeOK, NEW c \in Conn, NEW n \in Ends(c), roster' = RemoveIfCurrent(n, c)
  PROVE  /\ roster' \in [Node -> [Node -> Conn \cup {NoConn}]]
         /\ \A m \in Node : roster'[n][m] =
              IF m = Other(c, n) /\ roster[n][m] = c THEN NoConn ELSE roster[n][m]
         /\ \A k \in Node : k # n => roster'[k] = roster[k]
<1> DEFINE m == Other(c, n)
           v == IF roster[n][m] = c THEN NoConn ELSE roster[n][m]
<1>1. n \in Node /\ m \in Node
  BY EndsAreNodes
<1> HIDE DEF m
<1>2. v \in Conn \cup {NoConn}
  BY <1>1 DEF TypeOK
<1>3. roster' = [roster EXCEPT ![n][m] = v]
  BY <1>1 DEF RemoveIfCurrent, TypeOK, m
<1> HIDE DEF v
<1>4. /\ roster' \in [Node -> [Node -> Conn \cup {NoConn}]]
      /\ roster'[n] = [roster[n] EXCEPT ![m] = v]
      /\ \A k \in Node : k # n => roster'[k] = roster[k]
  BY <1>1, <1>2, <1>3, RosterEffect
<1>5. roster[n] \in [Node -> Conn \cup {NoConn}]
  BY <1>1 DEF TypeOK
<1> QED BY <1>1, <1>4, <1>5 DEF v, m

LEMMA OldEffect ==
  ASSUME TypeOK, NEW n \in Node, NEW c \in Conn, NEW v \in Conn \cup {NoConn},
         old' = [old EXCEPT ![n][c] = v]
  PROVE  /\ old' \in [Node -> [Conn -> Conn \cup {NoConn}]]
         /\ old'[n] = [old[n] EXCEPT ![c] = v]
         /\ \A k \in Node : k # n => old'[k] = old[k]
<1>1. old \in [Node -> [Conn -> Conn \cup {NoConn}]]
  BY DEF TypeOK
<1> DEFINE V == Conn \cup {NoConn}
<1> HIDE DEF V
<1> QED BY <1>1, Update DEF V

-----------------------------------------------------------------------------
(* Every step keeps the invariant at the node that takes it.               *)

LEMMA SameInv ==
  ASSUME NEW k \in Node, NodeInv(k), Same(k)
  PROVE  NodeInv(k)'
  BY DEF Same, NodeInv, Placed, Replaced, Evicting, Tracked, Handled, Late, Fresh,
         Local, Open

(* The end of the Hello exchange on either side.                           *)
LEMMA ShakeStep ==
  ASSUME IInv, NEW c \in Conn, NEW n \in Ends(c), Accept(n, c) \/ Hello(n, c)
  PROVE  TypeOK' /\ NodeInv(n)' /\ \A k \in Node : k # n => Same(k)
<1>n. n \in Node /\ Other(c, n) \in Node
  BY EndsAreNodes
<1>t. TypeOK /\ NodeInv(n)
  BY <1>n DEF IInv
<1>p. ph[n][c] \in {"dial", "accept"}
  BY DEF Accept, Hello
<1>u. /\ mgr' = mgr /\ old' = old /\ handling' = handling /\ roster' = roster
      /\ doomed' = doomed
  BY DEF Accept, Hello
<1>1. \/ Go(n, c, "install") /\ sess' = [sess EXCEPT ![n][c] = "open"]
      \/ Go(n, c, "none") /\ sess' = sess
  BY DEF Accept, Hello
<1>2. up' \in [Conn -> BOOLEAN] /\ helloOK' \in [Conn -> BOOLEAN]
  BY <1>t, Zenon DEF Accept, Hello, TypeOK
<1>3. trouble' \in Nat /\ streams' \in Nat
  BY <1>t DEF Accept, Hello, TypeOK, Fault, NoFault, bounds
<1>4. /\ ph' \in [Node -> [Conn -> Phase]] /\ sess' \in [Node -> [Conn -> SessionState]]
      /\ \A k \in Node : k # n => ph'[k] = ph[k] /\ sess'[k] = sess[k]
      /\ \/ /\ ph'[n] = [ph[n] EXCEPT ![c] = "install"]
            /\ sess'[n] = [sess[n] EXCEPT ![c] = "open"]
         \/ ph'[n] = [ph[n] EXCEPT ![c] = "none"] /\ sess'[n] = sess[n]
  <2>1. {"install", "none"} \subseteq Phase /\ "open" \in SessionState
    BY DEF Phase, SessionState
  <2>2. sess \in [Node -> [Conn -> SessionState]]
    BY <1>t DEF TypeOK
  <2>3. CASE Go(n, c, "install") /\ sess' = [sess EXCEPT ![n][c] = "open"]
    <3>1. /\ ph' \in [Node -> [Conn -> Phase]] /\ ph'[n] = [ph[n] EXCEPT ![c] = "install"]
          /\ \A k \in Node : k # n => ph'[k] = ph[k]
      BY <1>n, <1>t, <2>1, <2>3, GoEffect
    <3>2. /\ sess' \in [Node -> [Conn -> SessionState]]
          /\ sess'[n] = [sess[n] EXCEPT ![c] = "open"]
          /\ \A k \in Node : k # n => sess'[k] = sess[k]
      BY <1>n, <1>t, <2>1, <2>3, SessEffect
    <3> QED BY <3>1, <3>2
  <2>4. CASE Go(n, c, "none") /\ sess' = sess
    BY <1>n, <1>t, <2>1, <2>2, <2>4, GoEffect
  <2> QED BY <1>1, <2>3, <2>4
<1>5. TypeOK'
  BY <1>t, <1>u, <1>2, <1>3, <1>4 DEF TypeOK
<1>6. \A k \in Node : k # n => Same(k)
  BY <1>u, <1>4 DEF Same
<1>f. /\ ph[n] \in [Conn -> Phase] /\ sess[n] \in [Conn -> SessionState]
      /\ old[n] \in [Conn -> Conn \cup {NoConn}]
      /\ roster[n] \in [Node -> Conn \cup {NoConn}]
  BY <1>n, <1>t DEF TypeOK
<1>r. \A m \in Node : roster[n][m] # NoConn => roster[n][m] \in Conn \ {c}
  BY <1>t, <1>p, <1>f DEF NodeInv, Placed
<1>s. /\ ph'[n][c] \in {"install", "none"}
      /\ \A d \in Conn \ {c} : ph'[n][d] = ph[n][d] /\ sess'[n][d] = sess[n][d]
  BY <1>4, <1>f
<1>7. Placed(n)'
  <2>1. \A m \in Node : roster[n][m] # NoConn =>
          ph'[n][roster[n][m]] \notin {"dial", "accept", "install"}
    BY <1>t, <1>r, <1>s DEF NodeInv, Placed
  <2>2. \A d \in Conn : ph'[n][d] \in {"dial", "accept"} => sess'[n][d] = "none"
    BY <1>t, <1>s DEF NodeInv, Placed
  <2> QED BY <1>t, <1>u, <2>1, <2>2 DEF NodeInv, Placed, Local
<1>8. Replaced(n)'
  BY <1>n, <1>t, <1>p, <1>u, <1>4, <1>f DEF NodeInv, Replaced, Local, Open
<1>9. Evicting(n)'
  BY <1>n, <1>t, <1>p, <1>u, <1>4, <1>f DEF NodeInv, Evicting
<1>10. Tracked(n)'
  BY <1>n, <1>t, <1>p, <1>u, <1>4, <1>f DEF NodeInv, Tracked, Placed, Local
<1>11. Handled(n)'
  BY <1>n, <1>t, <1>p, <1>u, <1>4, <1>f DEF NodeInv, Handled
<1>12. Late(n)'
  BY <1>n, <1>t, <1>p, <1>u, <1>4, <1>f DEF NodeInv, Late
<1>13. Fresh(n)'
  BY <1>t, <1>u, <1>r, <1>s DEF NodeInv, Fresh, Open
<1> QED BY <1>5, <1>6, <1>7, <1>8, <1>9, <1>10, <1>11, <1>12, <1>13 DEF NodeInv

LEMMA NodeTyped ==
  ASSUME TypeOK, NEW n \in Node
  PROVE  /\ ph[n] \in [Conn -> Phase] /\ sess[n] \in [Conn -> SessionState]
         /\ old[n] \in [Conn -> Conn \cup {NoConn}]
         /\ handling[n] \in [Conn -> BOOLEAN]
         /\ roster[n] \in [Node -> Conn \cup {NoConn}]
  BY DEF TypeOK

(* The new session is rejected: it is closed without having been in the    *)
(* roster.                                                                 *)
LEMMA RejectStep ==
  ASSUME IInv, NEW c \in Conn, NEW n \in Ends(c), Install(n, c), RejectsNew(n, c)
  PROVE  TypeOK' /\ NodeInv(n)' /\ \A k \in Node : k # n => Same(k)
<1>n. n \in Node /\ Other(c, n) \in Node
  BY EndsAreNodes
<1>t. TypeOK /\ NodeInv(n)
  BY <1>n DEF IInv
<1>u. /\ mgr' = mgr /\ old' = old /\ handling' = handling /\ roster' = roster
      /\ doomed' = doomed /\ helloOK' = helloOK /\ trouble' = trouble
      /\ streams' = streams
      /\ ph[n][c] = "install" /\ Go(n, c, "closing") /\ BeginClose(n, c, "quiet")
  BY DEF Install, bounds
<1>1. /\ ph' \in [Node -> [Conn -> Phase]] /\ ph'[n] = [ph[n] EXCEPT ![c] = "closing"]
      /\ \A k \in Node : k # n => ph'[k] = ph[k]
  <2>1. "closing" \in Phase
    BY DEF Phase
  <2> QED BY <1>n, <1>t, <1>u, <2>1, GoEffect
<1>2. /\ sess' \in [Node -> [Conn -> SessionState]]
      /\ sess'[n] = [sess[n] EXCEPT ![c] = IF Open(n, c) THEN "quiet" ELSE sess[n][c]]
      /\ \A k \in Node : k # n => sess'[k] = sess[k]
      /\ up' \in [Conn -> BOOLEAN]
  BY <1>n, <1>t, <1>u, BeginCloseEffect
<1>3. TypeOK'
  BY <1>t, <1>u, <1>1, <1>2 DEF TypeOK
<1>4. \A k \in Node : k # n => Same(k)
  BY <1>u, <1>1, <1>2 DEF Same
<1>5. /\ ph'[n][c] = "closing" /\ ~Open(n, c)'
      /\ (sess'[n][c] = "none" <=> sess[n][c] = "none")
      /\ \A d \in Conn \ {c} : ph'[n][d] = ph[n][d] /\ sess'[n][d] = sess[n][d]
  BY <1>n, <1>t, <1>1, <1>2, NodeTyped DEF Open
<1>f. /\ \A m \in Node : roster[n][m] # NoConn => roster[n][m] \in Conn \ {c}
      /\ \A d \in Conn : old[n][d] # NoConn => old[n][d] \in Conn \ {c} /\ d # c
  BY <1>n, <1>t, <1>u, NodeTyped DEF NodeInv, Placed, Replaced
<1>7. Placed(n)'
  BY <1>t, <1>u, <1>5, <1>f DEF NodeInv, Placed, Local
<1>8. Replaced(n)'
  BY <1>t, <1>u, <1>5, <1>f DEF NodeInv, Replaced, Local, Open
<1>9. Evicting(n)'
  BY <1>t, <1>u, <1>5 DEF NodeInv, Evicting
<1>10. Tracked(n)'
  <2>1. \A d \in Conn : ph[n][d] \in {"evict", "evicting"} => ph'[n][d] = ph[n][d]
    BY <1>u, <1>5
  <2> QED BY <1>t, <1>u, <1>5, <2>1 DEF NodeInv, Tracked, Local
<1>11. Handled(n)'
  BY <1>t, <1>u, <1>5 DEF NodeInv, Handled
<1>12. Late(n)'
  BY <1>t, <1>u, <1>5, <1>f DEF NodeInv, Late
<1>13. Fresh(n)'
  BY <1>t, <1>u, <1>5, <1>f DEF NodeInv, Fresh, Open
<1> QED BY <1>3, <1>4, <1>7, <1>8, <1>9, <1>10, <1>11, <1>12, <1>13 DEF NodeInv

(* The new session takes the place of whatever was in the roster.          *)
LEMMA InstallStep ==
  ASSUME IInv, NEW c \in Conn, NEW n \in Ends(c), Install(n, c), ~RejectsNew(n, c)
  PROVE  TypeOK' /\ NodeInv(n)' /\ \A k \in Node : k # n => Same(k)
<1> DEFINE m == Other(c, n)
           cur == roster[n][m]
           v == IF cur = NoConn THEN "activate" ELSE "evict"
<1>n. n \in Node /\ m \in Node
  BY EndsAreNodes
<1>t. TypeOK /\ NodeInv(n)
  BY <1>n DEF IInv
<1>u. /\ mgr' = mgr /\ handling' = handling /\ doomed' = doomed
      /\ helloOK' = helloOK /\ trouble' = trouble /\ streams' = streams
      /\ sess' = sess /\ up' = up /\ ph[n][c] = "install" /\ Go(n, c, v)
      /\ roster' = [roster EXCEPT ![n][m] = c] /\ old' = [old EXCEPT ![n][c] = cur]
  BY DEF Install, bounds
<1>c. NoConn \notin Conn /\ Local(n, c)
  BY PeersAssumption DEF Local
<1>cur. cur \in Conn \cup {NoConn}
  BY <1>n, <1>t, NodeTyped
<1> HIDE DEF m
<1>1. /\ ph' \in [Node -> [Conn -> Phase]] /\ ph'[n] = [ph[n] EXCEPT ![c] = v]
      /\ \A k \in Node : k # n => ph'[k] = ph[k]
  <2>1. v \in Phase
    BY DEF Phase
  <2> HIDE DEF v
  <2> QED BY <1>n, <1>t, <1>u, <2>1, GoEffect
<1>2. /\ roster' \in [Node -> [Node -> Conn \cup {NoConn}]]
      /\ roster'[n] = [roster[n] EXCEPT ![m] = c]
      /\ \A k \in Node : k # n => roster'[k] = roster[k]
  BY <1>n, <1>t, <1>u, RosterEffect
<1>3. /\ old' \in [Node -> [Conn -> Conn \cup {NoConn}]]
      /\ old'[n] = [old[n] EXCEPT ![c] = cur]
      /\ \A k \in Node : k # n => old'[k] = old[k]
  <2> HIDE DEF cur
  <2> QED BY <1>n, <1>t, <1>u, <1>cur, OldEffect
<1>4. TypeOK'
  BY <1>t, <1>u, <1>1, <1>2, <1>3 DEF TypeOK
<1>5. \A k \in Node : k # n => Same(k)
  BY <1>u, <1>1, <1>2, <1>3 DEF Same
<1>6. /\ ph'[n][c] = v /\ old'[n][c] = cur /\ roster'[n][m] = c
      /\ \A d \in Conn \ {c} : ph'[n][d] = ph[n][d] /\ old'[n][d] = old[n][d]
      /\ \A x \in Node \ {m} : roster'[n][x] = roster[n][x]
  BY <1>n, <1>t, <1>1, <1>2, <1>3, NodeTyped
<1>f. /\ \A x \in Node : roster[n][x] # NoConn => roster[n][x] \in Conn \ {c}
      /\ \A d \in Conn : old[n][d] # NoConn => old[n][d] \in Conn \ {c} /\ d # c
      /\ cur # NoConn => Local(n, cur) /\ Other(cur, n) = m
  BY <1>n, <1>t, <1>u, NodeTyped DEF NodeInv, Placed, Replaced
<1>7. Placed(n)'
  BY <1>n, <1>c, <1>t, <1>u, <1>6, <1>f DEF NodeInv, Placed, Local, m
<1>8. Replaced(n)'
  <2>1. \A d \in Conn : old'[n][d] # NoConn => ph'[n][d] \in {"evict", "evicting"}
    BY <1>t, <1>6 DEF NodeInv, Replaced
  <2>2. \A d \in Conn : old'[n][d] # NoConn /\ ph'[n][d] = "evicting" =>
          sess'[n][old'[n][d]] \notin {"open", "live"}
    BY <1>t, <1>u, <1>6 DEF NodeInv, Replaced, Open
  <2>3. \A d \in Conn : old'[n][d] # NoConn =>
          /\ ph'[n][old'[n][d]] \notin {"dial", "accept", "install"}
          /\ Local(n, old'[n][d])
    <3> SUFFICES ASSUME NEW d \in Conn, old'[n][d] # NoConn
                 PROVE  /\ ph'[n][old'[n][d]] \notin {"dial", "accept", "install"}
                        /\ Local(n, old'[n][d])
      OBVIOUS
    <3>1. CASE d = c
      <4>1. ph[n][cur] \notin {"dial", "accept", "install"} /\ cur \in Conn \ {c}
        BY <3>1, <1>n, <1>t, <1>6, <1>f DEF NodeInv, Placed
      <4> QED BY <3>1, <4>1, <1>6, <1>f
    <3>2. CASE d # c
      <4>1. /\ old'[n][d] = old[n][d] /\ old[n][d] \in Conn \ {c}
            /\ ph[n][old[n][d]] \notin {"dial", "accept", "install"}
            /\ Local(n, old[n][d])
        BY <3>2, <1>t, <1>6, <1>f DEF NodeInv, Replaced
      <4> QED BY <4>1, <1>6
    <3> QED BY <3>1, <3>2
  <2>4. \A d \in Conn : old'[n][d] # NoConn =>
          roster'[n][Other(old'[n][d], n)] # old'[n][d]
    <3> SUFFICES ASSUME NEW d \in Conn, old'[n][d] # NoConn
                 PROVE  roster'[n][Other(old'[n][d], n)] # old'[n][d]
      OBVIOUS
    <3>1. CASE d = c
      BY <3>1, <1>n, <1>6, <1>f
    <3>2. CASE d # c
      <4>1. /\ old'[n][d] = old[n][d] /\ old[n][d] \in Conn \ {c} /\ Local(n, old[n][d])
            /\ roster[n][Other(old[n][d], n)] # old[n][d]
        BY <3>2, <1>t, <1>6, <1>f DEF NodeInv, Replaced
      <4>2. Other(old[n][d], n) \in Node
        BY <4>1, EndsAreNodes DEF Local
      <4> QED BY <4>1, <4>2, <1>6
    <3> QED BY <3>1, <3>2
  <2> QED BY <2>1, <2>2, <2>3, <2>4 DEF Replaced, Open, Local
<1>9. Evicting(n)'
  BY <1>t, <1>6 DEF NodeInv, Evicting
<1>10. Tracked(n)'
  <2> SUFFICES ASSUME NEW e \in Conn, Local(n, e), sess[n][e] # "none", e # c
               PROVE  \/ roster'[n][Other(e, n)] = e
                      \/ ph'[n][e] # "none"
                      \/ \E d \in Conn :
                           ph'[n][d] \in {"evict", "evicting"} /\ old'[n][d] = e
                      \/ e \in doomed'[n]
    BY <1>u, <1>6 DEF Tracked, Local
  <2>1. CASE roster[n][Other(e, n)] = e
    <3>1. CASE Other(e, n) = m
      BY <2>1, <3>1, <1>c, <1>6
    <3>2. CASE Other(e, n) # m
      <4>1. Other(e, n) \in Node
        BY EndsAreNodes DEF Local
      <4> QED BY <2>1, <3>2, <4>1, <1>6
    <3> QED BY <3>1, <3>2
  <2>2. CASE ph[n][e] # "none"
    BY <2>2, <1>6
  <2>3. CASE \E d \in Conn : ph[n][d] \in {"evict", "evicting"} /\ old[n][d] = e
    BY <2>3, <1>u, <1>6
  <2>4. CASE e \in doomed[n]
    BY <2>4, <1>u
  <2> QED BY <1>t, <2>1, <2>2, <2>3, <2>4 DEF NodeInv, Tracked
<1>11. Handled(n)'
  BY <1>t, <1>u DEF NodeInv, Handled
<1>12. Late(n)'
  <2>1. \A x \in Node : roster'[n][x] # NoConn =>
          \/ roster'[n][x] = c
          \/ roster'[n][x] = roster[n][x] /\ ph'[n][roster[n][x]] = ph[n][roster[n][x]]
    BY <1>6, <1>f
  <2>2. mgr[n] # "closed"
    BY <1>t, <1>u DEF NodeInv, Late
  <2> QED BY <1>t, <1>u, <1>6, <2>1, <2>2 DEF NodeInv, Late
<1>13. Fresh(n)'
  <2>1. \A x \in Node : roster'[n][x] # NoConn =>
          \/ roster'[n][x] = c
          \/ roster'[n][x] = roster[n][x] /\ ph'[n][roster[n][x]] = ph[n][roster[n][x]]
    BY <1>6, <1>f
  <2> QED BY <1>t, <1>u, <1>6, <2>1 DEF NodeInv, Fresh, Open
<1> QED BY <1>4, <1>5, <1>7, <1>8, <1>9, <1>10, <1>11, <1>12, <1>13 DEF NodeInv

(* The replaced session is closed.                                         *)
LEMMA EvictStep ==
  ASSUME IInv, NEW c \in Conn, NEW n \in Ends(c), Evict(n, c)
  PROVE  TypeOK' /\ NodeInv(n)' /\ \A k \in Node : k # n => Same(k)
<1> DEFINE o == old[n][c]
           gone == sess[n][o] = "none"
           v == IF gone THEN "activate" ELSE "evicting"
<1>n. n \in Node
  BY EndsAreNodes
<1>t. TypeOK /\ NodeInv(n)
  BY <1>n DEF IInv
<1>u. /\ mgr' = mgr /\ handling' = handling /\ doomed' = doomed /\ roster' = roster
      /\ helloOK' = helloOK /\ trouble' = trouble /\ streams' = streams
      /\ ph[n][c] = "evict" /\ Go(n, c, v) /\ BeginClose(n, o, "quiet")
      /\ IF gone THEN old' = [old EXCEPT ![n][c] = NoConn] ELSE old' = old
  BY DEF Evict, bounds
<1>o. /\ o \in Conn /\ Local(n, o) /\ roster[n][Other(o, n)] # o
      /\ ph[n][o] \notin {"dial", "accept", "install"}
  BY <1>n, <1>t, <1>u, NodeTyped DEF NodeInv, Evicting, Replaced
<1>c. NoConn \notin Conn
  BY PeersAssumption
<1> HIDE DEF o
<1>1. /\ ph' \in [Node -> [Conn -> Phase]] /\ ph'[n] = [ph[n] EXCEPT ![c] = v]
      /\ \A k \in Node : k # n => ph'[k] = ph[k]
  <2>1. v \in Phase
    BY DEF Phase
  <2> HIDE DEF v
  <2> QED BY <1>n, <1>t, <1>u, <2>1, GoEffect
<1>2. /\ sess' \in [Node -> [Conn -> SessionState]]
      /\ sess'[n] = [sess[n] EXCEPT ![o] = IF Open(n, o) THEN "quiet" ELSE sess[n][o]]
      /\ \A k \in Node : k # n => sess'[k] = sess[k]
      /\ up' \in [Conn -> BOOLEAN]
  BY <1>n, <1>t, <1>u, <1>o, BeginCloseEffect
<1>3. /\ old' \in [Node -> [Conn -> Conn \cup {NoConn}]]
      /\ old'[n] = [old[n] EXCEPT ![c] = IF gone THEN NoConn ELSE o]
      /\ \A k \in Node : k # n => old'[k] = old[k]
  <2>1. CASE gone
    BY <1>n, <1>t, <1>u, <2>1, OldEffect
  <2>2. CASE ~gone
    BY <1>n, <1>t, <1>u, <2>2 DEF TypeOK, o
  <2> QED BY <2>1, <2>2
<1>4. TypeOK'
  BY <1>t, <1>u, <1>1, <1>2, <1>3 DEF TypeOK
<1>5. \A k \in Node : k # n => Same(k)
  BY <1>u, <1>1, <1>2, <1>3 DEF Same
<1>6. /\ ph'[n][c] = v /\ old'[n][c] = IF gone THEN NoConn ELSE o
      /\ \A d \in Conn \ {c} : ph'[n][d] = ph[n][d] /\ old'[n][d] = old[n][d]
      /\ sess'[n][o] \notin {"open", "live"}
      /\ \A d \in Conn \ {o} : sess'[n][d] = sess[n][d]
      /\ \A d \in Conn : sess'[n][d] = "none" <=> sess[n][d] = "none"
  BY <1>n, <1>t, <1>o, <1>c, <1>1, <1>2, <1>3, NodeTyped DEF Open
<1>f. \A m \in Node : roster[n][m] # NoConn => roster[n][m] \in Conn \ {o}
  BY <1>n, <1>t, <1>o, NodeTyped DEF NodeInv, Placed
<1>g. \A d \in Conn : old[n][d] \in Conn \cup {NoConn}
  BY <1>n, <1>t, NodeTyped
<1>7. Placed(n)'
  BY <1>t, <1>u, <1>6, <1>f DEF NodeInv, Placed, Local
<1>8. Replaced(n)'
  <2>1. \A d \in Conn : old'[n][d] # NoConn =>
          /\ old'[n][d] = old[n][d] /\ ph'[n][d] \in {"evict", "evicting"}
          /\ ph'[n][d] = "evicting" => sess'[n][old[n][d]] \notin {"open", "live"}
    <3> SUFFICES ASSUME NEW d \in Conn, old'[n][d] # NoConn
                 PROVE  /\ old'[n][d] = old[n][d] /\ ph'[n][d] \in {"evict", "evicting"}
                        /\ ph'[n][d] = "evicting" =>
                             sess'[n][old[n][d]] \notin {"open", "live"}
      OBVIOUS
    <3>1. CASE d = c
      BY <3>1, <1>6 DEF o
    <3>2. CASE d # c
      BY <3>2, <1>t, <1>6, <1>g DEF NodeInv, Replaced, Open
    <3> QED BY <3>1, <3>2
  <2>2. \A d \in Conn : old[n][d] # NoConn =>
          ph'[n][old[n][d]] \notin {"dial", "accept", "install"}
    BY <1>t, <1>6, <1>g DEF NodeInv, Replaced
  <2> QED BY <1>t, <1>u, <2>1, <2>2 DEF NodeInv, Replaced, Local, Open
<1>9. Evicting(n)'
  BY <1>t, <1>6, <1>o, <1>c DEF NodeInv, Evicting
<1>10. Tracked(n)'
  <2>1. \A d \in Conn : ph[n][d] # "none" => ph'[n][d] # "none"
    BY <1>6
  <2>2. \A d, e \in Conn :
          ph[n][d] \in {"evict", "evicting"} /\ old[n][d] = e /\ sess[n][e] # "none"
            => ph'[n][d] \in {"evict", "evicting"} /\ old'[n][d] = e
    BY <1>6 DEF o
  <2> QED BY <1>t, <1>u, <1>6, <2>1, <2>2 DEF NodeInv, Tracked, Local
<1>11. Handled(n)'
  BY <1>t, <1>u, <1>6 DEF NodeInv, Handled
<1>12. Late(n)'
  BY <1>t, <1>u, <1>6, <1>f DEF NodeInv, Late
<1>13. Fresh(n)'
  BY <1>t, <1>u, <1>6, <1>f DEF NodeInv, Fresh, Open
<1> QED BY <1>4, <1>5, <1>7, <1>8, <1>9, <1>10, <1>11, <1>12, <1>13 DEF NodeInv

(* activateIfCurrent, with its second look.                                *)
LEMMA ActivateStep ==
  ASSUME IInv, NEW c \in Conn, NEW n \in Ends(c), Activate(n, c) \/ Recheck(n, c)
  PROVE  TypeOK' /\ NodeInv(n)' /\ \A k \in Node : k # n => Same(k)
<1>n. n \in Node /\ Other(c, n) \in Node
  BY EndsAreNodes
<1>t. TypeOK /\ NodeInv(n)
  BY <1>n DEF IInv
<1> DEFINE holds == roster[n][Other(c, n)] = c /\ Open(n, c)
<1>1. PICK v \in Phase, s \in SessionState :
        /\ Go(n, c, v) /\ sess' = [sess EXCEPT ![n][c] = s]
        /\ \/ v = "discard" /\ s = sess[n][c]
           \/ v = "recheck" /\ holds /\ s = "live" /\ mgr[n] = "running"
           \/ v = "none" /\ holds /\ s = sess[n][c] /\ ph[n][c] = "recheck"
  <2>1. CASE Activate(n, c)
    BY <1>n, <1>t, <2>1 DEF Activate, Phase, SessionState, TypeOK
  <2>2. CASE Recheck(n, c)
    BY <1>n, <1>t, <2>2 DEF Recheck, Phase, SessionState, TypeOK
  <2> QED BY <2>1, <2>2
<1>u. /\ mgr' = mgr /\ handling' = handling /\ doomed' = doomed /\ roster' = roster
      /\ old' = old /\ up' = up
      /\ helloOK' = helloOK /\ trouble' = trouble /\ streams' = streams
      /\ ph[n][c] \in {"activate", "recheck"}
  BY DEF Activate, Recheck, bounds
<1>2. /\ ph' \in [Node -> [Conn -> Phase]] /\ ph'[n] = [ph[n] EXCEPT ![c] = v]
      /\ \A k \in Node : k # n => ph'[k] = ph[k]
  BY <1>n, <1>t, <1>1, GoEffect
<1>3. /\ sess' \in [Node -> [Conn -> SessionState]]
      /\ sess'[n] = [sess[n] EXCEPT ![c] = s]
      /\ \A k \in Node : k # n => sess'[k] = sess[k]
  BY <1>n, <1>t, <1>1, SessEffect
<1>4. TypeOK'
  BY <1>t, <1>u, <1>2, <1>3 DEF TypeOK
<1>5. \A k \in Node : k # n => Same(k)
  BY <1>u, <1>2, <1>3 DEF Same
<1>6. /\ ph'[n][c] = v /\ v \in {"discard", "recheck", "none"}
      /\ \A d \in Conn \ {c} : ph'[n][d] = ph[n][d]
      /\ \A d \in Conn : sess'[n][d] = "none" <=> sess[n][d] = "none"
      /\ \A d \in Conn :
           sess'[n][d] \in {"open", "live"} <=> sess[n][d] \in {"open", "live"}
      /\ \A d \in Conn : sess'[n][d] = "closing" <=> sess[n][d] = "closing"
  BY <1>n, <1>t, <1>1, <1>2, <1>3, NodeTyped DEF Open
<1>f. /\ \A m \in Node : roster[n][m] # NoConn => roster[n][m] \in Conn
      /\ \A d \in Conn : old[n][d] # NoConn => old[n][d] \in Conn /\ d # c
  BY <1>n, <1>t, <1>u, NodeTyped DEF NodeInv, Replaced
<1>7. Placed(n)'
  BY <1>t, <1>u, <1>6, <1>f DEF NodeInv, Placed, Local
<1>8. Replaced(n)'
  <2>1. \A d \in Conn : old[n][d] # NoConn =>
          /\ ph'[n][d] = ph[n][d]
          /\ ph[n][d] = "evicting" => sess'[n][old[n][d]] \notin {"open", "live"}
    BY <1>t, <1>6, <1>f DEF NodeInv, Replaced, Open
  <2>2. \A d \in Conn : old[n][d] # NoConn =>
          ph'[n][old[n][d]] \notin {"dial", "accept", "install"}
    BY <1>t, <1>6, <1>f DEF NodeInv, Replaced
  <2> QED BY <1>t, <1>u, <2>1, <2>2 DEF NodeInv, Replaced, Local, Open
<1>9. Evicting(n)'
  BY <1>t, <1>u, <1>6 DEF NodeInv, Evicting
<1>10. Tracked(n)'
  <2>1. \A d \in Conn :
          ph[n][d] # "none" => ph'[n][d] # "none" \/ roster[n][Other(d, n)] = d
    BY <1>1, <1>6
  <2>2. \A d \in Conn : ph[n][d] \in {"evict", "evicting"} => ph'[n][d] = ph[n][d]
    BY <1>u, <1>6
  <2> QED BY <1>t, <1>u, <1>6, <2>1, <2>2 DEF NodeInv, Tracked, Local
<1>11. Handled(n)'
  BY <1>t, <1>u, <1>6 DEF NodeInv, Handled
<1>12. Late(n)'
  <2>1. mgr[n] # "closed"
    BY <1>t, <1>u DEF NodeInv, Late
  <2>2. ASSUME mgr[n] \in {"draining", "waiting"}, NEW m \in Node, roster[n][m] # NoConn
        PROVE  ph'[n][roster[n][m]] \in {"evict", "evicting", "activate", "discard"}
    <3>1. ph[n][roster[n][m]] \in {"evict", "evicting", "activate", "discard"}
      BY <1>t, <2>2 DEF NodeInv, Late
    <3>2. roster[n][m] = c => v = "discard"
      BY <1>t, <1>1, <1>n, <2>2, <3>1 DEF NodeInv, Placed
    <3> QED BY <1>6, <1>f, <2>2, <3>1, <3>2
  <2> QED BY <1>t, <1>u, <2>1, <2>2 DEF NodeInv, Late
<1>13. Fresh(n)'
  <2>1. \A m \in Node : roster[n][m] = c => v # "none" \/ Open(n, c)
    BY <1>1
  <2> QED BY <1>t, <1>u, <1>6, <1>f, <2>1 DEF NodeInv, Fresh, Open
<1> QED BY <1>4, <1>5, <1>7, <1>8, <1>9, <1>10, <1>11, <1>12, <1>13 DEF NodeInv

(* discardSession.                                                         *)
LEMMA DiscardStep ==
  ASSUME IInv, NEW c \in Conn, NEW n \in Ends(c), Discard(n, c)
  PROVE  TypeOK' /\ NodeInv(n)' /\ \A k \in Node : k # n => Same(k)
<1> DEFINE v == IF sess[n][c] = "none" THEN "none" ELSE "closing"
<1>n. n \in Node /\ Other(c, n) \in Node
  BY EndsAreNodes
<1>t. TypeOK /\ NodeInv(n)
  BY <1>n DEF IInv
<1>u. /\ mgr' = mgr /\ handling' = handling /\ doomed' = doomed /\ old' = old
      /\ helloOK' = helloOK /\ trouble' = trouble /\ streams' = streams
      /\ ph[n][c] = "discard" /\ Go(n, c, v) /\ BeginClose(n, c, "quiet")
      /\ roster' = RemoveIfCurrent(n, c)
  BY DEF Discard, bounds
<1>c. NoConn \notin Conn
  BY PeersAssumption
<1>1. /\ ph' \in [Node -> [Conn -> Phase]] /\ ph'[n] = [ph[n] EXCEPT ![c] = v]
      /\ \A k \in Node : k # n => ph'[k] = ph[k]
  <2>1. v \in Phase
    BY DEF Phase
  <2> HIDE DEF v
  <2> QED BY <1>n, <1>t, <1>u, <2>1, GoEffect
<1>2. /\ sess' \in [Node -> [Conn -> SessionState]]
      /\ sess'[n] = [sess[n] EXCEPT ![c] = IF Open(n, c) THEN "quiet" ELSE sess[n][c]]
      /\ \A k \in Node : k # n => sess'[k] = sess[k]
      /\ up' \in [Conn -> BOOLEAN]
  BY <1>n, <1>t, <1>u, BeginCloseEffect
<1>3. /\ roster' \in [Node -> [Node -> Conn \cup {NoConn}]]
      /\ \A m \in Node : roster'[n][m] =
           IF m = Other(c, n) /\ roster[n][m] = c THEN NoConn ELSE roster[n][m]
      /\ \A k \in Node : k # n => roster'[k] = roster[k]
  BY <1>t, <1>u, RemoveEffect
<1>4. TypeOK'
  BY <1>t, <1>u, <1>1, <1>2, <1>3 DEF TypeOK
<1>5. \A k \in Node : k # n => Same(k)
  BY <1>u, <1>1, <1>2, <1>3 DEF Same
<1>6. /\ ph'[n][c] = v /\ sess'[n][c] \notin {"open", "live"}
      /\ \A d \in Conn \ {c} : ph'[n][d] = ph[n][d] /\ sess'[n][d] = sess[n][d]
      /\ \A d \in Conn : sess'[n][d] = "none" <=> sess[n][d] = "none"
  <2>1. ph[n] \in [Conn -> Phase] /\ sess[n] \in [Conn -> SessionState]
    BY <1>n, <1>t, NodeTyped
  <2>2. ph'[n][c] = v /\ \A d \in Conn \ {c} : ph'[n][d] = ph[n][d]
    BY <1>1, <2>1
  <2>3. /\ sess'[n][c] = IF Open(n, c) THEN "quiet" ELSE sess[n][c]
        /\ \A d \in Conn \ {c} : sess'[n][d] = sess[n][d]
    BY <1>2, <2>1
  <2> QED BY <1>c, <2>2, <2>3 DEF Open
<1>f. \A d \in Conn : old[n][d] # NoConn => old[n][d] \in Conn /\ d # c
  BY <1>n, <1>t, <1>u, NodeTyped DEF NodeInv, Replaced
<1>g. \A m \in Node : roster'[n][m] # NoConn =>
        roster'[n][m] = roster[n][m] /\ roster[n][m] \in Conn \ {c}
  <2>1. \A m \in Node : roster[n][m] \in Conn \cup {NoConn}
    BY <1>n, <1>t, NodeTyped
  <2>2. \A m \in Node : roster[n][m] = c => m = Other(c, n)
    BY <1>c, <1>t DEF NodeInv, Placed
  <2> QED BY <1>3, <2>1, <2>2
<1>7. Placed(n)'
  <2>1. \A m \in Node : roster'[n][m] # NoConn =>
          /\ Local(n, roster'[n][m]) /\ Other(roster'[n][m], n) = m
          /\ ph'[n][roster'[n][m]] \notin {"dial", "accept", "install"}
    BY <1>t, <1>6, <1>g DEF NodeInv, Placed
  <2>2. \A d \in Conn : ph'[n][d] \in {"dial", "accept"} => sess'[n][d] = "none"
    BY <1>t, <1>6 DEF NodeInv, Placed
  <2> QED BY <2>1, <2>2 DEF Placed, Local
<1>8. Replaced(n)'
  <2>1. \A d \in Conn : old[n][d] # NoConn =>
          /\ sess'[n][old[n][d]] \in {"open", "live"} =>
               sess'[n][old[n][d]] = sess[n][old[n][d]]
          /\ ph'[n][old[n][d]] \notin {"dial", "accept", "install"}
    BY <1>t, <1>6, <1>f DEF NodeInv, Replaced
  <2>2. \A d \in Conn : old[n][d] # NoConn => roster'[n][Other(old[n][d], n)] # old[n][d]
    <3> SUFFICES ASSUME NEW d \in Conn, old[n][d] # NoConn
                 PROVE  roster'[n][Other(old[n][d], n)] # old[n][d]
      OBVIOUS
    <3>1. Other(old[n][d], n) \in Node
      BY <1>t, <1>f, EndsAreNodes DEF NodeInv, Replaced, Local
    <3> QED BY <1>t, <1>3, <1>c, <1>f, <3>1 DEF NodeInv, Replaced
  <2> QED BY <1>t, <1>u, <1>6, <1>f, <2>1, <2>2 DEF NodeInv, Replaced, Local, Open
<1>9. Evicting(n)'
  BY <1>t, <1>u, <1>6 DEF NodeInv, Evicting
<1>10. Tracked(n)'
  <2> SUFFICES ASSUME NEW e \in Conn, Local(n, e), sess[n][e] # "none", e # c
               PROVE  \/ roster'[n][Other(e, n)] = e
                      \/ ph'[n][e] # "none"
                      \/ \E d \in Conn :
                           ph'[n][d] \in {"evict", "evicting"} /\ old'[n][d] = e
                      \/ e \in doomed'[n]
    BY <1>6 DEF Tracked, Local
  <2>1. Other(e, n) \in Node
    BY EndsAreNodes DEF Local
  <2>2. \A d \in Conn : ph[n][d] \in {"evict", "evicting"} => ph'[n][d] = ph[n][d]
    BY <1>u, <1>6
  <2> QED BY <1>t, <1>u, <1>3, <1>6, <2>1, <2>2 DEF NodeInv, Tracked
<1>11. Handled(n)'
  BY <1>t, <1>u, <1>6 DEF NodeInv, Handled
<1>12. Late(n)'
  <2>1. \A m \in Node : roster'[n][m] # NoConn =>
          /\ roster'[n][m] = roster[n][m]
          /\ ph'[n][roster[n][m]] = ph[n][roster[n][m]]
    BY <1>6, <1>g
  <2>2. mgr[n] # "closed"
    BY <1>t, <1>u DEF NodeInv, Late
  <2> QED BY <1>t, <1>u, <2>1, <2>2 DEF NodeInv, Late
<1>13. Fresh(n)'
  <2>1. \A m \in Node : roster'[n][m] # NoConn =>
          /\ roster'[n][m] = roster[n][m]
          /\ ph'[n][roster[n][m]] = ph[n][roster[n][m]]
          /\ sess'[n][roster[n][m]] = sess[n][roster[n][m]]
    BY <1>6, <1>g
  <2> QED BY <1>t, <2>1 DEF NodeInv, Fresh, Open
<1> QED BY <1>4, <1>5, <1>7, <1>8, <1>9, <1>10, <1>11, <1>12, <1>13 DEF NodeInv

(* Close begins, with its callback.                                        *)
LEMMA ClosingStep ==
  ASSUME IInv, NEW c \in Conn, NEW n \in Ends(c),
         SessionEnds(n, c) \/ Invalidate(n, c) \/ CloseDoomed(n, c)
  PROVE  TypeOK' /\ NodeInv(n)' /\ \A k \in Node : k # n => Same(k)
<1>n. n \in Node
  BY EndsAreNodes
<1>t. TypeOK /\ NodeInv(n)
  BY <1>n DEF IInv
<1>u. /\ mgr' = mgr /\ handling' = handling /\ doomed' = doomed /\ old' = old
      /\ helloOK' = helloOK /\ ph' = ph /\ roster' = roster
      /\ Open(n, c) /\ BeginClose(n, c, "closing")
  BY DEF SessionEnds, Invalidate, CloseDoomed
<1>1. trouble' \in Nat /\ streams' \in Nat
  BY <1>t DEF SessionEnds, Invalidate, CloseDoomed, Fault, bounds, TypeOK
<1>2. /\ sess' \in [Node -> [Conn -> SessionState]]
      /\ sess'[n] = [sess[n] EXCEPT ![c] = IF Open(n, c) THEN "closing" ELSE sess[n][c]]
      /\ \A k \in Node : k # n => sess'[k] = sess[k]
      /\ up' \in [Conn -> BOOLEAN]
  BY <1>n, <1>t, <1>u, BeginCloseEffect
<1>3. TypeOK'
  BY <1>t, <1>u, <1>1, <1>2 DEF TypeOK
<1>4. \A k \in Node : k # n => Same(k)
  BY <1>u, <1>2 DEF Same
<1>5. /\ sess[n][c] \in {"open", "live"} /\ sess'[n][c] = "closing"
      /\ \A d \in Conn \ {c} : sess'[n][d] = sess[n][d]
  BY <1>n, <1>t, <1>u, <1>2, NodeTyped DEF Open
<1>f. /\ \A m \in Node : roster[n][m] # NoConn => roster[n][m] \in Conn
      /\ \A d \in Conn : old[n][d] # NoConn => old[n][d] \in Conn
  BY <1>n, <1>t, NodeTyped
<1>6. Placed(n)' /\ Evicting(n)' /\ Late(n)'
  BY <1>t, <1>u, <1>5 DEF NodeInv, Placed, Evicting, Late, Local
<1>7. Replaced(n)'
  BY <1>t, <1>u, <1>5, <1>f DEF NodeInv, Replaced, Local, Open
<1>8. Tracked(n)'
  BY <1>t, <1>u, <1>5 DEF NodeInv, Tracked, Local
<1>9. Handled(n)'
  BY <1>t, <1>u, <1>5 DEF NodeInv, Handled
<1>10. Fresh(n)'
  BY <1>t, <1>u, <1>5, <1>f DEF NodeInv, Fresh, Open
<1> QED BY <1>3, <1>4, <1>6, <1>7, <1>8, <1>9, <1>10 DEF NodeInv

(* Close returns, and whoever has waited for it goes on.                   *)
LEMMA ReturnStep ==
  ASSUME IInv, NEW c \in Conn, NEW n \in Ends(c), CloseReturns(n, c)
  PROVE  TypeOK' /\ NodeInv(n)' /\ \A k \in Node : k # n => Same(k)
<1> DEFINE waits(d) == ph[n][d] = "evicting" /\ old[n][d] = c
<1>n. n \in Node /\ Other(c, n) \in Node
  BY EndsAreNodes
<1>t. TypeOK /\ NodeInv(n)
  BY <1>n DEF IInv
<1>u. /\ mgr' = mgr /\ handling' = handling /\ doomed' = doomed /\ up' = up
      /\ helloOK' = helloOK /\ trouble' = trouble /\ streams' = streams
      /\ sess[n][c] \in {"closing", "quiet"} /\ ~handling[n][c]
      /\ roster' = IF sess[n][c] = "closing" THEN RemoveIfCurrent(n, c) ELSE roster
      /\ sess' = [sess EXCEPT ![n][c] = "none"]
  BY DEF CloseReturns, bounds
<1>c. NoConn \notin Conn
  BY PeersAssumption
<1>1. /\ ph' \in [Node -> [Conn -> Phase]]
      /\ \A d \in Conn : ph'[n][d] =
           IF d = c /\ ph[n][d] = "closing" THEN "none"
           ELSE IF waits(d) THEN "activate" ELSE ph[n][d]
      /\ \A k \in Node : k # n => ph'[k] = ph[k]
  <2> DEFINE f == [d \in Conn |->
               IF d = c /\ ph[n][d] = "closing" THEN "none"
               ELSE IF waits(d) THEN "activate" ELSE ph[n][d]]
  <2>1. f \in [Conn -> Phase]
    BY <1>n, <1>t, NodeTyped DEF Phase
  <2>2. ph' = [ph EXCEPT ![n] = f]
    BY <1>n, <1>t DEF CloseReturns, Resume, TypeOK
  <2> HIDE DEF f
  <2>3. /\ ph' \in [Node -> [Conn -> Phase]] /\ ph'[n] = f
        /\ \A k \in Node : k # n => ph'[k] = ph[k]
    BY <1>n, <1>t, <2>1, <2>2 DEF TypeOK
  <2> QED BY <2>3 DEF f
<1>2. /\ old' \in [Node -> [Conn -> Conn \cup {NoConn}]]
      /\ \A d \in Conn : old'[n][d] = IF waits(d) THEN NoConn ELSE old[n][d]
      /\ \A k \in Node : k # n => old'[k] = old[k]
  <2> DEFINE g == [d \in Conn |-> IF waits(d) THEN NoConn ELSE old[n][d]]
  <2>1. g \in [Conn -> Conn \cup {NoConn}]
    BY <1>n, <1>t, NodeTyped
  <2>2. old' = [old EXCEPT ![n] = g]
    BY <1>n, <1>t DEF CloseReturns, Resume, TypeOK
  <2> HIDE DEF g
  <2>3. /\ old' \in [Node -> [Conn -> Conn \cup {NoConn}]] /\ old'[n] = g
        /\ \A k \in Node : k # n => old'[k] = old[k]
    BY <1>n, <1>t, <2>1, <2>2 DEF TypeOK
  <2> QED BY <2>3 DEF g
<1>3. /\ sess' \in [Node -> [Conn -> SessionState]]
      /\ sess'[n] = [sess[n] EXCEPT ![c] = "none"]
      /\ \A k \in Node : k # n => sess'[k] = sess[k]
  <2>1. "none" \in SessionState
    BY DEF SessionState
  <2> QED BY <1>n, <1>t, <1>u, <2>1, SessEffect
<1>4. /\ roster' \in [Node -> [Node -> Conn \cup {NoConn}]]
      /\ \A m \in Node :
           /\ roster'[n][m] = roster[n][m] \/ roster'[n][m] = NoConn
           /\ roster[n][m] # c => roster'[n][m] = roster[n][m]
           /\ m = Other(c, n) /\ sess[n][c] = "closing" => roster'[n][m] # c
      /\ \A k \in Node : k # n => roster'[k] = roster[k]
  <2>1. CASE sess[n][c] = "closing"
    <3>1. roster' = RemoveIfCurrent(n, c)
      BY <1>u, <2>1
    <3>2. /\ roster' \in [Node -> [Node -> Conn \cup {NoConn}]]
          /\ \A m \in Node : roster'[n][m] =
               IF m = Other(c, n) /\ roster[n][m] = c THEN NoConn ELSE roster[n][m]
          /\ \A k \in Node : k # n => roster'[k] = roster[k]
      BY <1>t, <3>1, RemoveEffect
    <3> QED BY <1>c, <3>2
  <2>2. CASE sess[n][c] # "closing"
    BY <1>t, <1>u, <2>2 DEF TypeOK
  <2> QED BY <2>1, <2>2
<1>5. TypeOK'
  BY <1>t, <1>u, <1>1, <1>2, <1>3, <1>4 DEF TypeOK
<1>6. \A k \in Node : k # n => Same(k)
  BY <1>u, <1>1, <1>2, <1>3, <1>4 DEF Same
<1>7. /\ sess'[n][c] = "none"
      /\ \A d \in Conn \ {c} : sess'[n][d] = sess[n][d]
  BY <1>n, <1>t, <1>3, NodeTyped
<1>f. /\ \A m \in Node : roster'[n][m] # NoConn =>
           roster'[n][m] = roster[n][m] /\ roster[n][m] \in Conn
      /\ \A d \in Conn : old[n][d] # NoConn => old[n][d] \in Conn
      /\ \A d \in Conn :
           ph'[n][d] \in {"dial", "accept", "install"} => ph'[n][d] = ph[n][d]
  <2>1. /\ \A m \in Node : roster[n][m] \in Conn \cup {NoConn}
        /\ \A d \in Conn : old[n][d] \in Conn \cup {NoConn}
    BY <1>n, <1>t, NodeTyped
  <2>2. \A d \in Conn :
          ph'[n][d] \in {"dial", "accept", "install"} => ph'[n][d] = ph[n][d]
    BY <1>1
  <2> QED BY <1>4, <2>1, <2>2
<1>8. Placed(n)'
  <2>1. \A m \in Node : roster'[n][m] # NoConn =>
          /\ Local(n, roster'[n][m]) /\ Other(roster'[n][m], n) = m
          /\ ph'[n][roster'[n][m]] \notin {"dial", "accept", "install"}
    BY <1>t, <1>f DEF NodeInv, Placed
  <2>2. \A d \in Conn : ph'[n][d] \in {"dial", "accept"} => sess'[n][d] = "none"
    BY <1>t, <1>f, <1>7 DEF NodeInv, Placed
  <2> QED BY <2>1, <2>2 DEF Placed, Local
<1>9. Replaced(n)'
  <2> SUFFICES ASSUME NEW d \in Conn, old'[n][d] # NoConn
               PROVE  /\ ph'[n][d] \in {"evict", "evicting"}
                      /\ ph'[n][d] = "evicting" =>
                           sess'[n][old'[n][d]] \notin {"open", "live"}
                      /\ ph'[n][old'[n][d]] \notin {"dial", "accept", "install"}
                      /\ Local(n, old'[n][d])
                      /\ roster'[n][Other(old'[n][d], n)] # old'[n][d]
    BY DEF Replaced, Open, Local
  <2>1. /\ old'[n][d] = old[n][d] /\ old[n][d] \in Conn /\ ~waits(d)
        /\ ph[n][d] \in {"evict", "evicting"} /\ ph'[n][d] = ph[n][d]
    BY <1>t, <1>1, <1>2, <1>f DEF NodeInv, Replaced
  <2>2. /\ ph[n][d] = "evicting" => sess[n][old[n][d]] \notin {"open", "live"}
        /\ ph[n][old[n][d]] \notin {"dial", "accept", "install"}
        /\ Local(n, old[n][d]) /\ roster[n][Other(old[n][d], n)] # old[n][d]
    BY <1>c, <1>t, <2>1 DEF NodeInv, Replaced, Open
  <2>3. Other(old[n][d], n) \in Node
    BY <2>1, <2>2, EndsAreNodes DEF Local
  <2>4. sess'[n][old[n][d]] \in {sess[n][old[n][d]], "none"}
    BY <1>7, <2>1
  <2>5. ph'[n][old[n][d]] \notin {"dial", "accept", "install"}
    BY <1>f, <2>1, <2>2
  <2>6. roster'[n][Other(old[n][d], n)] # old[n][d]
    BY <1>c, <1>4, <2>1, <2>2, <2>3
  <2> QED BY <2>1, <2>2, <2>4, <2>5, <2>6
<1>10. Evicting(n)'
  BY <1>t, <1>1, <1>2 DEF NodeInv, Evicting
<1>11. Tracked(n)'
  <2> SUFFICES ASSUME NEW e \in Conn, Local(n, e), sess[n][e] # "none", e # c
               PROVE  \/ roster'[n][Other(e, n)] = e
                      \/ ph'[n][e] # "none"
                      \/ \E d \in Conn :
                           ph'[n][d] \in {"evict", "evicting"} /\ old'[n][d] = e
                      \/ e \in doomed'[n]
    BY <1>7 DEF Tracked, Local
  <2>1. Other(e, n) \in Node
    BY EndsAreNodes DEF Local
  <2>2. \A d \in Conn : ph[n][d] \in {"evict", "evicting"} /\ old[n][d] = e =>
          ph'[n][d] = ph[n][d] /\ old'[n][d] = e
    BY <1>1, <1>2
  <2>3. ph[n][e] # "none" => ph'[n][e] # "none"
    BY <1>1
  <2>4. roster[n][Other(e, n)] = e => roster'[n][Other(e, n)] = e
    BY <1>4, <2>1
  <2> QED BY <1>t, <1>u, <2>2, <2>3, <2>4 DEF NodeInv, Tracked
<1>12. Handled(n)'
  BY <1>t, <1>u, <1>7 DEF NodeInv, Handled
<1>13. Late(n)'
  <2>1. \A d \in Conn : ph[n][d] \in {"evict", "evicting", "activate", "discard"} =>
          ph'[n][d] \in {"evict", "evicting", "activate", "discard"}
    BY <1>1
  <2>2. \A d \in Conn : ph[n][d] = "none" => ph'[n][d] = "none"
    BY <1>1
  <2> QED BY <1>t, <1>u, <1>f, <2>1, <2>2 DEF NodeInv, Late
<1>14. Fresh(n)'
  <2> SUFFICES ASSUME NEW m \in Node, roster'[n][m] # NoConn,
                      sess'[n][roster'[n][m]] \notin {"open", "live", "closing"}
               PROVE  ph'[n][roster'[n][m]] \notin {"none", "closing"}
    BY DEF Fresh, Open
  <2>1. roster'[n][m] = roster[n][m] /\ roster[n][m] \in Conn
    BY <1>f
  <2>2. ph[n][roster[n][m]] \notin {"none", "closing"}
    <3>1. CASE roster[n][m] = c
      <4>1. m = Other(c, n)
        BY <1>c, <1>t, <3>1 DEF NodeInv, Placed
      <4>2. sess[n][c] # "closing"
        BY <1>4, <2>1, <3>1, <4>1
      <4> QED BY <1>t, <1>u, <2>1, <3>1, <4>2 DEF NodeInv, Fresh, Open
    <3>2. CASE roster[n][m] # c
      BY <1>t, <1>7, <2>1, <3>2 DEF NodeInv, Fresh, Open
    <3> QED BY <3>1, <3>2
  <2> QED BY <1>1, <2>1, <2>2
<1> QED BY <1>5, <1>6, <1>8, <1>9, <1>10, <1>11, <1>12, <1>13, <1>14 DEF NodeInv

LEMMA StreamStep ==
  ASSUME IInv, NEW c \in Conn, NEW n \in Ends(c), SpawnStream(n, c) \/ StreamDone(n, c)
  PROVE  TypeOK' /\ NodeInv(n)' /\ \A k \in Node : k # n => Same(k)
<1>n. n \in Node
  BY EndsAreNodes
<1>t. TypeOK /\ NodeInv(n)
  BY <1>n DEF IInv
<1>u. /\ mgr' = mgr /\ up' = up /\ helloOK' = helloOK /\ ph' = ph /\ old' = old
      /\ sess' = sess /\ roster' = roster /\ doomed' = doomed /\ trouble' = trouble
  BY DEF SpawnStream, StreamDone, bounds
<1>1. streams' \in Nat
  BY <1>t DEF SpawnStream, StreamDone, bounds, TypeOK
<1>2. PICK b \in BOOLEAN :
        handling' = [handling EXCEPT ![n][c] = b] /\ (b => sess[n][c] = "live")
  BY Zenon DEF SpawnStream, StreamDone
<1>3. /\ handling' \in [Node -> [Conn -> BOOLEAN]]
      /\ handling'[n] = [handling[n] EXCEPT ![c] = b]
      /\ \A k \in Node : k # n => handling'[k] = handling[k]
  <2>1. handling \in [Node -> [Conn -> BOOLEAN]]
    BY <1>t DEF TypeOK
  <2> QED BY <1>n, <1>2, <2>1, Update
<1>4. TypeOK'
  BY <1>t, <1>u, <1>1, <1>3 DEF TypeOK
<1>5. \A k \in Node : k # n => Same(k)
  BY <1>u, <1>3 DEF Same
<1>6. Handled(n)'
  <2>1. handling[n] \in [Conn -> BOOLEAN]
    BY <1>n, <1>t, NodeTyped
  <2>2. handling'[n][c] = b /\ \A d \in Conn \ {c} : handling'[n][d] = handling[n][d]
    BY <1>3, <2>1
  <2> QED BY <1>t, <1>u, <1>2, <2>2 DEF NodeInv, Handled
<1>7. Placed(n)' /\ Replaced(n)'
  BY <1>t, <1>u DEF NodeInv, Placed, Replaced, Local, Open
<1>8. Evicting(n)' /\ Tracked(n)'
  BY <1>t, <1>u DEF NodeInv, Evicting, Tracked, Local
<1>9. Late(n)' /\ Fresh(n)'
  BY <1>t, <1>u DEF NodeInv, Late, Fresh, Open
<1> QED BY <1>4, <1>5, <1>6, <1>7, <1>8, <1>9 DEF NodeInv

(* The steps of Manager.Close, and a new start.                            *)
LEMMA ManagerStep ==
  ASSUME IInv, NEW n \in Node, Closing(n) \/ Cancel(n)
  PROVE  TypeOK' /\ NodeInv(n)' /\ \A k \in Node : k # n => Same(k)
<1>t. TypeOK /\ NodeInv(n)
  BY DEF IInv
<1>u. /\ helloOK' = helloOK /\ ph' = ph /\ old' = old /\ sess' = sess
      /\ handling' = handling
  BY DEF Closing, Cancel, CloseAll, EndpointClose, CloseDone, Start
<1>v. up' \in [Conn -> BOOLEAN]
  BY <1>t, Zenon DEF Closing, Cancel, CloseAll, EndpointClose, CloseDone, Start, TypeOK
<1>w. trouble' \in Nat /\ streams' \in Nat
  BY <1>t DEF Closing, Cancel, CloseAll, EndpointClose, CloseDone, Start, Fault, bounds,
              TypeOK
<1>f. roster[n] \in [Node -> Conn \cup {NoConn}]
  BY <1>t, NodeTyped
<1>r. /\ Evicting(n)' /\ Handled(n)'
      /\ roster'[n] = roster[n] => Placed(n)' /\ Replaced(n)' /\ Fresh(n)'
      /\ roster'[n] = roster[n] /\ doomed'[n] = doomed[n] => Tracked(n)'
  BY <1>t, <1>u DEF NodeInv, Placed, Replaced, Evicting, Tracked, Handled, Fresh,
                    Local, Open
<1>1. CASE CloseAll(n)
  <2>1. /\ mgr' \in [Node -> {"running", "cancelled", "draining", "waiting", "closed",
                              "crashed"}]
        /\ doomed' \in [Node -> SUBSET Conn]
        /\ roster' \in [Node -> [Node -> Conn \cup {NoConn}]]
    <3>1. {roster[n][m] : m \in Node} \ {NoConn} \in SUBSET Conn
      BY <1>f
    <3>2. [m \in Node |-> NoConn] \in [Node -> Conn \cup {NoConn}]
      OBVIOUS
    <3> QED BY <1>1, <1>t, <3>1, <3>2 DEF CloseAll, TypeOK
  <2>2. /\ mgr'[n] = "draining" /\ \A m \in Node : roster'[n][m] = NoConn
        /\ doomed'[n] = {roster[n][m] : m \in Node} \ {NoConn}
        /\ doomed[n] = {}
    BY <1>1, <1>t DEF CloseAll, TypeOK, NodeInv, Late
  <2>3. \A k \in Node : k # n => Same(k)
    BY <1>1, <1>t, <1>u DEF CloseAll, Same, TypeOK
  <2>4. Placed(n)' /\ Late(n)' /\ Fresh(n)'
    BY <1>t, <1>u, <2>2 DEF NodeInv, Placed, Late, Fresh
  <2>5. Replaced(n)'
    <3> SUFFICES ASSUME NEW d \in Conn, old[n][d] # NoConn
                 PROVE  /\ Local(n, old[n][d])
                        /\ roster'[n][Other(old[n][d], n)] # old[n][d]
      BY <1>t, <1>u DEF NodeInv, Replaced, Local, Open
    <3>1. old[n][d] \in Conn /\ Local(n, old[n][d])
      BY <1>t, NodeTyped DEF NodeInv, Replaced
    <3> QED BY <2>2, <3>1, EndsAreNodes DEF Local
  <2>6. Tracked(n)'
    <3> SUFFICES ASSUME NEW e \in Conn, Local(n, e), roster[n][Other(e, n)] = e
                 PROVE  e \in doomed'[n]
      BY <1>t, <1>u, <2>2 DEF NodeInv, Tracked, Local
    <3>1. Other(e, n) \in Node /\ e # NoConn
      BY EndsAreNodes, PeersAssumption DEF Local
    <3> QED BY <2>2, <3>1
  <2> QED BY <1>t, <1>u, <1>v, <1>w, <1>r, <2>1, <2>3, <2>4, <2>5, <2>6
          DEF TypeOK, NodeInv
<1>2. CASE EndpointClose(n)
  <2>1. /\ mgr' \in [Node -> {"running", "cancelled", "draining", "waiting", "closed",
                              "crashed"}]
        /\ doomed' \in [Node -> SUBSET Conn] /\ roster' = roster
        /\ mgr'[n] = "waiting" /\ doomed'[n] = {} /\ mgr[n] = "draining"
        /\ \A k \in Node : k # n => mgr'[k] = mgr[k] /\ doomed'[k] = doomed[k]
        /\ \A c \in doomed[n] : sess[n][c] = "none"
    BY <1>2, <1>t DEF EndpointClose, TypeOK
  <2>2. Tracked(n)'
    BY <1>t, <1>u, <2>1 DEF NodeInv, Tracked, Local
  <2>3. Late(n)'
    BY <1>t, <1>u, <2>1 DEF NodeInv, Late
  <2> QED BY <1>t, <1>u, <1>v, <1>w, <1>r, <2>1, <2>2, <2>3 DEF TypeOK, NodeInv, Same
<1>3. CASE CloseDone(n) \/ Start(n) \/ Cancel(n)
  <2>1. /\ mgr' \in [Node -> {"running", "cancelled", "draining", "waiting", "closed",
                              "crashed"}]
        /\ doomed' = doomed /\ roster' = roster
        /\ mgr[n] \in {"waiting", "crashed", "running"}
        /\ \/ mgr'[n] \in {"running", "cancelled"}
           \/ /\ mgr'[n] = "closed" /\ mgr[n] = "waiting"
              /\ \A c \in Conn : ph[n][c] = "none"
        /\ \A k \in Node : k # n => mgr'[k] = mgr[k]
    BY <1>3, <1>t DEF CloseDone, Start, Cancel, TypeOK
  <2>2. Late(n)'
    BY <1>t, <1>u, <2>1 DEF NodeInv, Late
  <2> QED BY <1>t, <1>u, <1>v, <1>w, <1>r, <2>1, <2>2 DEF TypeOK, NodeInv, Same
<1> QED BY <1>1, <1>2, <1>3 DEF Closing

LEMMA CrashStep ==
  ASSUME IInv, NEW n \in Node, Crash(n)
  PROVE  TypeOK' /\ NodeInv(n)' /\ \A k \in Node : k # n => Same(k)
<1>t. TypeOK
  BY DEF IInv
<1>1. up' \in [Conn -> BOOLEAN] /\ handling' \in [Node -> [Conn -> BOOLEAN]]
  BY <1>t, Zenon DEF Crash, TypeOK
<1>2. /\ mgr' \in [Node -> {"running", "cancelled", "draining", "waiting", "closed",
                            "crashed"}]
      /\ ph' \in [Node -> [Conn -> Phase]]
      /\ sess' \in [Node -> [Conn -> SessionState]]
      /\ old' \in [Node -> [Conn -> Conn \cup {NoConn}]]
      /\ roster' \in [Node -> [Node -> Conn \cup {NoConn}]]
      /\ doomed' \in [Node -> SUBSET Conn]
  <2>1. /\ [c \in Conn |-> "none"] \in [Conn -> Phase]
        /\ [c \in Conn |-> "none"] \in [Conn -> SessionState]
        /\ [c \in Conn |-> NoConn] \in [Conn -> Conn \cup {NoConn}]
        /\ [m \in Node |-> NoConn] \in [Node -> Conn \cup {NoConn}]
    BY DEF Phase, SessionState
  <2> QED BY <1>t, <2>1 DEF Crash, TypeOK
<1>3. trouble' \in Nat /\ streams' \in Nat /\ helloOK' = helloOK
  BY <1>t DEF Crash, Fault, TypeOK
<1>4. \A k \in Node : k # n => Same(k)
  BY <1>t DEF Crash, Same, TypeOK
<1>5. /\ mgr'[n] = "crashed" /\ doomed'[n] = {}
      /\ \A c \in Conn : /\ ph'[n][c] = "none" /\ old'[n][c] = NoConn
                         /\ sess'[n][c] = "none" /\ handling'[n][c] = FALSE
      /\ \A m \in Node : roster'[n][m] = NoConn
  BY <1>t DEF Crash, TypeOK
<1>6. NodeInv(n)'
  BY <1>5 DEF NodeInv, Placed, Replaced, Evicting, Tracked, Handled, Late, Fresh
<1> QED BY <1>t, <1>1, <1>2, <1>3, <1>4, <1>6 DEF TypeOK

(* A new connection, at either of its ends.                                *)
LEMMA DialEnd ==
  ASSUME TypeOK, NEW c \in Conn, NEW k \in Ends(c), NodeInv(k), Free(c),
         NEW v \in {"dial", "accept"}, ph'[k] = [ph[k] EXCEPT ![c] = v],
         EndpointOpen(k), UNCHANGED <<mgr, old, sess, handling, roster, doomed>>
  PROVE  NodeInv(k)'
<1>n. k \in Node /\ Other(c, k) \in Node
  BY EndsAreNodes
<1>c. NoConn \notin Conn
  BY PeersAssumption
<1>1. /\ ph[k][c] = "none" /\ sess[k][c] = "none" /\ roster[k][Other(c, k)] # c
      /\ \A d \in Conn : old[k][d] # c
  BY DEF Free
<1>2. ph'[k][c] = v /\ \A d \in Conn \ {c} : ph'[k][d] = ph[k][d]
  BY <1>n, NodeTyped
<1>3. /\ \A m \in Node : roster[k][m] # NoConn => roster[k][m] \in Conn \ {c}
      /\ \A d \in Conn : old[k][d] # NoConn => old[k][d] \in Conn \ {c} /\ d # c
  <2>1. /\ \A m \in Node : roster[k][m] \in Conn \cup {NoConn}
        /\ \A d \in Conn : old[k][d] \in Conn \cup {NoConn}
    BY <1>n, NodeTyped
  <2>2. \A m \in Node : roster[k][m] # c
    BY <1>c, <1>1 DEF NodeInv, Placed
  <2>3. old[k][c] = NoConn
    BY <1>1 DEF NodeInv, Replaced
  <2> QED BY <1>1, <2>1, <2>2, <2>3
<1>4. Placed(k)'
  BY <1>1, <1>2, <1>3 DEF NodeInv, Placed, Local
<1>5. Replaced(k)'
  BY <1>2, <1>3 DEF NodeInv, Replaced, Local, Open
<1>6. Evicting(k)'
  BY <1>2 DEF NodeInv, Evicting
<1>7. Tracked(k)'
  <2>1. \A d \in Conn : ph[k][d] # "none" => ph'[k][d] = ph[k][d]
    BY <1>1, <1>2
  <2> QED BY <1>1, <2>1 DEF NodeInv, Tracked, Local
<1>8. Handled(k)' /\ Late(k)'
  BY <1>2, <1>3 DEF NodeInv, Handled, Late, EndpointOpen
<1>9. Fresh(k)'
  BY <1>2, <1>3 DEF NodeInv, Fresh, Open
<1> QED BY <1>4, <1>5, <1>6, <1>7, <1>8, <1>9 DEF NodeInv

LEMMA DialStep ==
  ASSUME IInv, NEW n \in Node, NEW m \in Node \ {n}, Dial(n, m)
  PROVE  IInv'
<1>t. TypeOK
  BY DEF IInv
<1>u. /\ mgr' = mgr /\ old' = old /\ sess' = sess /\ handling' = handling
      /\ roster' = roster /\ doomed' = doomed /\ trouble' = trouble /\ streams' = streams
      /\ EndpointOpen(n) /\ EndpointOpen(m)
  BY DEF Dial, bounds, EndpointOpen
<1>1. PICK c \in Conn : /\ n \in Ends(c) /\ m \in Ends(c) /\ Free(c)
                        /\ ph' = [ph EXCEPT ![n][c] = "dial", ![m][c] = "accept"]
  BY DEF Dial, Between, Ends, Dialer, Acceptor
<1>2. up' \in [Conn -> BOOLEAN] /\ helloOK' \in [Conn -> BOOLEAN]
  BY <1>t, Zenon DEF Dial, Between, TypeOK
<1>3. /\ ph' \in [Node -> [Conn -> Phase]]
      /\ ph'[n] = [ph[n] EXCEPT ![c] = "dial"]
      /\ ph'[m] = [ph[m] EXCEPT ![c] = "accept"]
      /\ \A k \in Node : k # n /\ k # m => ph'[k] = ph[k]
  <2> DEFINE f == [ph EXCEPT ![n][c] = "dial"]
  <2>1. ph \in [Node -> [Conn -> Phase]] /\ "dial" \in Phase /\ "accept" \in Phase
    BY <1>t DEF TypeOK, Phase
  <2>2. /\ f \in [Node -> [Conn -> Phase]] /\ f[n] = [ph[n] EXCEPT ![c] = "dial"]
        /\ \A k \in Node : k # n => f[k] = ph[k]
    BY <2>1, Update
  <2>3. ph' = [f EXCEPT ![m][c] = "accept"]
    BY <1>1
  <2> HIDE DEF f
  <2>4. /\ ph' \in [Node -> [Conn -> Phase]] /\ ph'[m] = [f[m] EXCEPT ![c] = "accept"]
        /\ \A k \in Node : k # m => ph'[k] = f[k]
    BY <2>1, <2>2, <2>3, Update
  <2> QED BY <2>2, <2>4
<1>4. TypeOK'
  BY <1>t, <1>u, <1>2, <1>3 DEF TypeOK
<1>5. NodeInv(n)'
  BY <1>t, <1>u, <1>1, <1>3, DialEnd DEF IInv
<1>6. NodeInv(m)'
  BY <1>t, <1>u, <1>1, <1>3, DialEnd DEF IInv
<1>7. \A k \in Node : k # n /\ k # m => Same(k)
  BY <1>u, <1>3 DEF Same
<1> QED BY <1>4, <1>5, <1>6, <1>7, SameInv DEF IInv

LEMMA StepInv ==
  ASSUME IInv, [Next]_vars
  PROVE  IInv'
<1>s. ASSUME NEW n \in Node, TypeOK' /\ NodeInv(n)' /\ \A k \in Node : k # n => Same(k)
      PROVE  IInv'
  BY <1>s, SameInv DEF IInv
<1>1. ASSUME NEW n \in Stops, Closing(n) \/ Cancel(n) \/ Crash(n)
      PROVE  IInv'
  <2>1. n \in Node
    BY PeersAssumption
  <2>2. CASE Closing(n) \/ Cancel(n)
    BY <2>1, <2>2, <1>s, ManagerStep
  <2>3. CASE Crash(n)
    BY <2>1, <2>3, <1>s, CrashStep
  <2> QED BY <1>1, <2>2, <2>3
<1>2. ASSUME NEW n \in Node, NEW m \in Node \ {n}, Dial(n, m)
      PROVE  IInv'
  BY <1>2, DialStep
<1>3. ASSUME NEW c \in Conn, Lose(c)
      PROVE  IInv'
  <2>1. /\ UNCHANGED <<mgr, helloOK, ph, old, sess, handling, roster, doomed, streams>>
        /\ trouble' = trouble + 1
    BY <1>3 DEF Lose, Fault
  <2>2. up' \in [Conn -> BOOLEAN]
    BY <1>3, Zenon DEF Lose, IInv, TypeOK
  <2>3. TypeOK'
    BY <2>1, <2>2 DEF IInv, TypeOK
  <2>4. \A k \in Node : Same(k)
    BY <2>1 DEF Same
  <2> QED BY <2>3, <2>4, SameInv DEF IInv
<1>4. ASSUME NEW c \in Conn, NEW n \in Ends(c),
             Setup(n, c) \/ Session(n, c) \/ Invalidate(n, c)
      PROVE  IInv'
  <2>1. n \in Node
    BY EndsAreNodes
  <2>2. CASE Accept(n, c) \/ Hello(n, c)
    BY <2>1, <2>2, <1>s, ShakeStep
  <2>3. CASE Install(n, c)
    <3>1. CASE RejectsNew(n, c)
      BY <2>1, <2>3, <3>1, <1>s, RejectStep
    <3>2. CASE ~RejectsNew(n, c)
      BY <2>1, <2>3, <3>2, <1>s, InstallStep
    <3> QED BY <3>1, <3>2
  <2>4. CASE Evict(n, c)
    BY <2>1, <2>4, <1>s, EvictStep
  <2>5. CASE Activate(n, c) \/ Recheck(n, c)
    BY <2>1, <2>5, <1>s, ActivateStep
  <2>6. CASE Discard(n, c)
    BY <2>1, <2>6, <1>s, DiscardStep
  <2>7. CASE SessionEnds(n, c) \/ Invalidate(n, c) \/ CloseDoomed(n, c)
    BY <2>1, <2>7, <1>s, ClosingStep
  <2>8. CASE StreamDone(n, c)
    BY <2>1, <2>8, <1>s, StreamStep
  <2>9. CASE CloseReturns(n, c)
    BY <2>1, <2>9, <1>s, ReturnStep
  <2> QED BY <1>4, <2>2, <2>3, <2>4, <2>5, <2>6, <2>7, <2>8, <2>9 DEF Setup, Session
<1>5. ASSUME NEW c \in Conn, NEW n \in Ends(c) \cap Stops, SpawnStream(n, c)
      PROVE  IInv'
  BY <1>5, <1>s, EndsAreNodes, StreamStep
<1>6. CASE UNCHANGED vars
  <2>1. TypeOK' /\ \A k \in Node : Same(k)
    BY <1>6 DEF vars, IInv, TypeOK, Same
  <2> QED BY <2>1, SameInv DEF IInv
<1> QED BY <1>1, <1>2, <1>3, <1>4, <1>5, <1>6 DEF Next

LEMMA InitInv == Init => IInv
<1> SUFFICES ASSUME Init PROVE IInv
  OBVIOUS
<1>1. up \in [Conn -> BOOLEAN] /\ helloOK \in [Conn -> BOOLEAN]
  BY Zenon DEF Init
<1>2. handling \in [Node -> [Conn -> BOOLEAN]]
  BY Zenon DEF Init
<1>3. TypeOK
  BY <1>1, <1>2 DEF Init, TypeOK, Phase, SessionState
<1>4. \A n \in Node : NodeInv(n)
  BY DEF Init, NodeInv, Placed, Replaced, Evicting, Tracked, Handled, Late, Fresh
<1> QED BY <1>3, <1>4 DEF IInv

LEMMA Inductive == Spec => []IInv
  BY InitInv, StepInv, PTL DEF Spec

-----------------------------------------------------------------------------
(* Theorems *)

(* The roster refers to connections, and every goroutine is at a step of   *)
(* dial, register, eviction or teardown, for any set of nodes.             *)
THEOREM TypeCorrect == Spec => []TypeOK
<1>1. IInv => TypeOK
  BY DEF IInv
<1> QED BY <1>1, Inductive, PTL

(* Sessions do not leak: one that is open is in the roster, or a goroutine *)
(* is about to close it.                                                   *)
THEOREM OpenSessionsAreOwned == Spec => []NoOrphan
<1>1. IInv => NoOrphan
  <2> SUFFICES ASSUME IInv, NEW c \in Conn, NEW n \in Ends(c), Open(n, c)
               PROVE  \/ roster[n][Other(c, n)] = c
                      \/ ph[n][c] # "none"
                      \/ \E d \in Conn : ph[n][d] = "evict" /\ old[n][d] = c
                      \/ c \in doomed[n]
    BY DEF NoOrphan
  <2>1. NodeInv(n) /\ c # NoConn /\ sess[n][c] # "none"
    BY EndsAreNodes DEF IInv, Open
  <2>2. \A d \in Conn : ph[n][d] = "evicting" => old[n][d] # c
    BY <2>1 DEF NodeInv, Replaced, Evicting
  <2> QED BY <2>1, <2>2 DEF NodeInv, Tracked, Local
<1> QED BY <1>1, Inductive, PTL

(* A closed session does not stay in the roster: somebody still removes it.*)
THEOREM EntriesAreFresh == Spec => []NoStaleEntry
<1>1. IInv => NoStaleEntry
  BY DEF IInv, NodeInv, Fresh, NoStaleEntry
<1> QED BY <1>1, Inductive, PTL

(* When Manager.Close has returned, there is no session, no roster entry   *)
(* and no stream handler left.                                             *)
THEOREM CloseIsComplete == Spec => []NothingSurvivesClose
<1>1. IInv => NothingSurvivesClose
  <2> SUFFICES ASSUME IInv, NEW n \in Node, mgr[n] = "closed"
               PROVE  /\ \A c \in Conn : n \in Ends(c) =>
                           sess[n][c] = "none" /\ ~handling[n][c]
                      /\ \A m \in Node : roster[n][m] = NoConn
    BY DEF NothingSurvivesClose
  <2>1. NodeInv(n) /\ roster[n] \in [Node -> Conn \cup {NoConn}] /\ NoConn \notin Conn
    BY NodeTyped, PeersAssumption DEF IInv
  <2>2. doomed[n] = {} /\ \A c \in Conn : ph[n][c] = "none"
    BY <2>1 DEF NodeInv, Late
  <2>3. \A m \in Node : roster[n][m] = NoConn
    BY <2>1, <2>2 DEF NodeInv, Late
  <2>4. \A c \in Conn : n \in Ends(c) => sess[n][c] = "none"
    <3> SUFFICES ASSUME NEW c \in Conn, n \in Ends(c) PROVE sess[n][c] = "none"
      OBVIOUS
    <3>1. roster[n][Other(c, n)] # c
      BY <2>1, <2>3, EndsAreNodes
    <3> QED BY <2>1, <2>2, <3>1 DEF NodeInv, Tracked, Local
  <2>5. \A c \in Conn : n \in Ends(c) => ~handling[n][c]
    BY <2>1, <2>4 DEF NodeInv, Handled
  <2> QED BY <2>3, <2>4, <2>5
<1> QED BY <1>1, Inductive, PTL

(* The late callback of a closed session leaves its replacement in place:  *)
(* an open session is taken out of the roster only by its own goroutine,   *)
(* by Manager.Close or by a crash.                                         *)
THEOREM ReplacementsSurvive == Spec => ReplacementSurvives
<1> DEFINE A == \A n, m \in Node :
             (Connected(n, m) /\ roster'[n][m] = NoConn) =>
               \/ ph[n][roster[n][m]] = "discard"
               \/ mgr[n] = "cancelled"
               \/ mgr'[n] = "crashed"
<1>1. ASSUME IInv, [Next]_vars PROVE [A]_vars
  <2>t. TypeOK
    BY <1>1 DEF IInv
  <2>c. NoConn \notin Conn
    BY PeersAssumption
  <2>1. CASE roster' = roster
    BY <2>1 DEF Connected, Open
  <2>2. ASSUME NEW n \in Stops, Closing(n) \/ Cancel(n) \/ Crash(n)
        PROVE  A
    <3>1. n \in Node
      BY PeersAssumption
    <3>2. CASE CloseAll(n)
      BY <2>t, <3>1, <3>2 DEF CloseAll, Connected, Open, TypeOK
    <3>3. CASE Crash(n)
      BY <2>t, <3>1, <3>3 DEF Crash, Connected, Open, TypeOK
    <3>4. CASE EndpointClose(n) \/ CloseDone(n) \/ Start(n) \/ Cancel(n)
      BY <2>1, <3>4 DEF EndpointClose, CloseDone, Start, Cancel, Connected, Open
    <3> QED BY <2>2, <3>2, <3>3, <3>4 DEF Closing
  <2>3. ASSUME NEW c \in Conn, NEW n \in Ends(c),
             Setup(n, c) \/ Session(n, c) \/ Invalidate(n, c)
        PROVE  A
    <3>n. n \in Node /\ Other(c, n) \in Node
      BY EndsAreNodes
    <3>1. CASE Install(n, c)
      <4>1. CASE RejectsNew(n, c)
        BY <3>1, <4>1 DEF Install, Connected, Open
      <4>2. CASE ~RejectsNew(n, c)
        <5>1. roster' = [roster EXCEPT ![n][Other(c, n)] = c]
          BY <3>1, <4>2 DEF Install
        <5>2. /\ roster'[n] = [roster[n] EXCEPT ![Other(c, n)] = c]
              /\ \A k \in Node : k # n => roster'[k] = roster[k]
          BY <2>t, <3>n, <5>1, RosterEffect
        <5>3. roster'[n][Other(c, n)] # NoConn
          BY <2>t, <2>c, <3>n, <5>2, NodeTyped
        <5>4. \A m \in Node : m # Other(c, n) => roster'[n][m] = roster[n][m]
          BY <2>t, <3>n, <5>2, NodeTyped
        <5> QED BY <5>2, <5>3, <5>4 DEF Connected, Open
      <4> QED BY <4>1, <4>2
    <3>2. CASE Discard(n, c)
      <4>1. roster' = RemoveIfCurrent(n, c) /\ ph[n][c] = "discard"
        BY <3>2 DEF Discard
      <4>2. /\ \A m \in Node : roster'[n][m] =
                 IF m = Other(c, n) /\ roster[n][m] = c THEN NoConn ELSE roster[n][m]
            /\ \A k \in Node : k # n => roster'[k] = roster[k]
        BY <2>t, <4>1, RemoveEffect
      <4> QED BY <4>1, <4>2 DEF Connected, Open
    <3>3. CASE CloseReturns(n, c)
      <4>1. CASE sess[n][c] = "closing"
        <5>1. roster' = RemoveIfCurrent(n, c)
          BY <3>3, <4>1 DEF CloseReturns
        <5>2. /\ \A m \in Node : roster'[n][m] =
                   IF m = Other(c, n) /\ roster[n][m] = c THEN NoConn ELSE roster[n][m]
              /\ \A k \in Node : k # n => roster'[k] = roster[k]
          BY <2>t, <5>1, RemoveEffect
        <5> QED BY <4>1, <5>2 DEF Connected, Open
      <4>2. CASE sess[n][c] # "closing"
        BY <3>3, <4>2 DEF CloseReturns, Connected, Open
      <4> QED BY <4>1, <4>2
    <3>4. CASE roster' = roster
      BY <3>4 DEF Connected, Open
    <3> QED BY <2>3, <3>1, <3>2, <3>3, <3>4
            DEF Setup, Session, Accept, Hello, Evict, Activate, Recheck, SessionEnds,
                Invalidate, CloseDoomed, StreamDone
  <2>4. CASE \E n \in Node : \E m \in Node \ {n} : Dial(n, m)
    BY <2>1, <2>4 DEF Dial
  <2>5. CASE \E c \in Conn : Lose(c) \/ \E n \in Ends(c) \cap Stops : SpawnStream(n, c)
    BY <2>1, <2>5 DEF Lose, SpawnStream
  <2>6. CASE UNCHANGED vars
    BY <2>6
  <2> QED BY <1>1, <2>2, <2>3, <2>4, <2>5, <2>6 DEF Next
<1>2. Spec => [][A]_vars
  BY <1>1, Inductive, PTL DEF Spec
<1> QED BY <1>2 DEF ReplacementSurvives

-----------------------------------------------------------------------------
(* What the two ends of a connection share: while it works, each end is in *)
(* the Hello exchange or has an open session on it, and a session is only  *)
(* replaced by one with the same peer.                                     *)
Shaking == {"dial", "accept"}

Attached(c) == up[c] => \A n \in Ends(c) : ph[n][c] \in Shaking \/ Open(n, c)

Heir(n, d) ==
  old[n][d] # NoConn => Local(n, d) /\ Other(d, n) = Other(old[n][d], n)

Bonds == /\ \A c \in Conn : Attached(c)
         /\ \A n \in Node, d \in Conn : Heir(n, d)

(* A step that revives no connection, and leaves open or shaking every end *)
(* of the connections that still work.                                     *)
Holds(c, n) ==
  up'[c] => /\ up[c]
            /\ ph[n][c] \in Shaking => ph'[n][c] \in Shaking \/ Open(n, c)'
            /\ Open(n, c) => Open(n, c)'

LEMMA HoldsAttached ==
  ASSUME NEW c \in Conn, Attached(c), \A n \in Ends(c) : Holds(c, n)
  PROVE  Attached(c)'
BY DEF Attached, Holds

(* Ends and sessions that nobody touches.                                  *)
LEMMA UntouchedHolds ==
  ASSUME NEW c \in Conn, NEW n \in Ends(c), up'[c] => up[c],
         ph'[n][c] = ph[n][c], sess'[n][c] = sess[n][c]
  PROVE  Holds(c, n)
BY DEF Holds, Open

(* Session.Close cuts the connection.                                      *)
LEMMA CloseHolds ==
  ASSUME TypeOK, NEW n \in Node, NEW d \in Conn, NEW how, BeginClose(n, d, how),
         NEW c \in Conn, NEW k \in Ends(c),
         ph[k][c] \in Shaking => ph'[k][c] = ph[k][c]
  PROVE  Holds(c, k)
<1>k. k \in Node
  BY EndsAreNodes
<1>1. up' = [up EXCEPT ![d] = FALSE] /\ up \in [Conn -> BOOLEAN]
  BY DEF BeginClose, TypeOK
<1>2. CASE c = d
  BY <1>1, <1>2 DEF Holds
<1>3. CASE c # d
  <2>1. up'[c] = up[c]
    BY <1>1, <1>3
  <2>2. sess'[k][c] = sess[k][c]
    BY <1>k, <1>3 DEF BeginClose, TypeOK
  <2> QED
    BY <2>1, <2>2 DEF Holds, Open
<1> QED
  BY <1>2, <1>3

(* What a change of one entry leaves alone.                                *)
LEMMA Elsewhere ==
  ASSUME NEW T, NEW f \in [Node -> [Conn -> T]], NEW n \in Node,
         NEW d \in Conn, NEW v, NEW k \in Node, NEW c \in Conn
  PROVE  [f EXCEPT ![n][d] = v][k][c] = IF k = n /\ c = d THEN v ELSE f[k][c]
OBVIOUS

(* The goroutines that set up sessions.                                    *)
LEMMA SetupAttached ==
  ASSUME IInv, NEW d \in Conn, NEW n \in Ends(d), Setup(n, d),
         NEW c \in Conn, Attached(c)
  PROVE  Attached(c)'
<1>t. TypeOK /\ n \in Node /\ NodeInv(n)
  BY EndsAreNodes DEF IInv
<1>u. /\ ph \in [Node -> [Conn -> Phase]] /\ up \in [Conn -> BOOLEAN]
      /\ sess \in [Node -> [Conn -> SessionState]]
  BY <1>t DEF TypeOK
<1> SUFFICES ASSUME NEW k \in Ends(c) PROVE Holds(c, k)
  BY HoldsAttached
<1>k. k \in Node
  BY EndsAreNodes
<1>1. CASE Accept(n, d) \/ Hello(n, d)
  <2>1. CASE k = n /\ c = d
    <3>1. \/ up' = up /\ sess' = [sess EXCEPT ![n][d] = "open"]
          \/ up' = [up EXCEPT ![d] = FALSE]
      BY <1>1 DEF Accept, Hello
    <3>2. up'[d] => up[d] /\ sess'[n][d] = "open"
      BY <1>t, <1>u, <3>1
    <3> QED
      BY <2>1, <3>2, PeersAssumption DEF Holds, Open
  <2>2. CASE ~(k = n /\ c = d)
    <3>1. PICK v : ph' = [ph EXCEPT ![n][d] = v]
      BY <1>1 DEF Accept, Hello, Go
    <3>2. ph'[k][c] = ph[k][c]
      BY <1>k, <1>t, <1>u, <2>2, <3>1, Elsewhere
    <3>3. sess' = sess \/ sess' = [sess EXCEPT ![n][d] = "open"]
      BY <1>1 DEF Accept, Hello
    <3>4. sess'[k][c] = sess[k][c]
      BY <1>k, <1>t, <1>u, <2>2, <3>3, Elsewhere
    <3>5. up' = up \/ up' = [up EXCEPT ![d] = FALSE]
      BY <1>1 DEF Accept, Hello
    <3>6. up'[c] => up[c]
      BY <1>u, <3>5
    <3> QED
      BY <3>2, <3>4, <3>6, UntouchedHolds
  <2> QED
    BY <2>1, <2>2
<1>2. ASSUME ~(Accept(n, d) \/ Hello(n, d))
      PROVE  /\ ph[n][d] \notin Shaking
             /\ \E v : ph' = [ph EXCEPT ![n][d] = v]
  BY <1>2 DEF Setup, Install, Evict, Activate, Recheck, Discard, Go, Shaking
<1>3. ASSUME ~(Accept(n, d) \/ Hello(n, d))
      PROVE  ph[k][c] \in Shaking => ph'[k][c] = ph[k][c]
  <2>1. PICK v : ph' = [ph EXCEPT ![n][d] = v]
    BY <1>2, <1>3
  <2>2. ph'[k][c] = IF k = n /\ c = d THEN v ELSE ph[k][c]
    BY <1>k, <1>t, <1>u, <2>1, Elsewhere
  <2> QED
    BY <1>2, <1>3, <2>2
<1>4. CASE Install(n, d) \/ Discard(n, d)
  <2>0. ~(Accept(n, d) \/ Hello(n, d))
    BY <1>4 DEF Install, Discard, Accept, Hello
  <2>1. BeginClose(n, d, "quiet") \/ UNCHANGED <<sess, up>>
    BY <1>4 DEF Install, Discard
  <2>2. CASE BeginClose(n, d, "quiet")
    BY <1>t, <1>3, <2>0, <2>2, CloseHolds
  <2>3. CASE UNCHANGED <<sess, up>>
    BY <1>3, <2>0, <2>3 DEF Holds, Open
  <2> QED
    BY <2>1, <2>2, <2>3
<1>5. CASE Evict(n, d)
  <2>0. ~(Accept(n, d) \/ Hello(n, d))
    BY <1>5 DEF Evict, Accept, Hello
  <2>1. old[n][d] \in Conn
    BY <1>5, <1>t DEF Evict, NodeInv, Evicting, TypeOK
  <2>2. BeginClose(n, old[n][d], "quiet")
    BY <1>5 DEF Evict
  <2> QED
    BY <1>t, <1>3, <2>0, <2>1, <2>2, CloseHolds
<1>6. CASE Activate(n, d) \/ Recheck(n, d)
  <2>0. ~(Accept(n, d) \/ Hello(n, d))
    BY <1>6 DEF Activate, Recheck, Accept, Hello
  <2>1. up' = up /\ (sess' = sess \/ sess' = [sess EXCEPT ![n][d] = "live"])
    BY <1>6 DEF Activate, Recheck
  <2>2. sess'[k][c] = sess[k][c] \/ sess'[k][c] = "live"
    BY <1>k, <1>t, <1>u, <2>1, Elsewhere
  <2> QED
    BY <1>3, <2>0, <2>1, <2>2 DEF Holds, Open
<1> QED
  BY <1>1, <1>4, <1>5, <1>6 DEF Setup

(* The goroutines of a session.                                            *)
LEMMA SessionAttached ==
  ASSUME IInv, NEW d \in Conn, NEW n \in Ends(d),
         Session(n, d) \/ Invalidate(n, d) \/ SpawnStream(n, d),
         NEW c \in Conn, Attached(c)
  PROVE  Attached(c)'
<1>t. TypeOK /\ n \in Node
  BY EndsAreNodes DEF IInv
<1>u. /\ ph \in [Node -> [Conn -> Phase]] /\ up \in [Conn -> BOOLEAN]
      /\ sess \in [Node -> [Conn -> SessionState]]
  BY <1>t DEF TypeOK
<1> SUFFICES ASSUME NEW k \in Ends(c) PROVE Holds(c, k)
  BY HoldsAttached
<1>k. k \in Node
  BY EndsAreNodes
<1>1. CASE SessionEnds(n, d) \/ CloseDoomed(n, d) \/ Invalidate(n, d)
  <2>1. BeginClose(n, d, "closing") /\ ph' = ph
    BY <1>1 DEF SessionEnds, CloseDoomed, Invalidate
  <2> QED
    BY <1>t, <2>1, CloseHolds
<1>2. CASE StreamDone(n, d) \/ SpawnStream(n, d)
  BY <1>2 DEF StreamDone, SpawnStream, Holds, Open
<1>3. CASE CloseReturns(n, d)
  <2>1. up' = up
    BY <1>3 DEF CloseReturns
  <2>2. sess'[k][c] = IF k = n /\ c = d THEN "none" ELSE sess[k][c]
    BY <1>3, <1>k, <1>t, <1>u, Elsewhere DEF CloseReturns
  <2>3. Open(k, c) => Open(k, c)'
    BY <1>3, <2>2 DEF Open, CloseReturns
  <2>4. ph[k][c] \in Shaking => ph'[k][c] = ph[k][c]
    BY <1>3, <1>k, <1>u DEF CloseReturns, Resume, Shaking
  <2> QED
    BY <2>1, <2>3, <2>4 DEF Holds
<1> QED
  BY <1>1, <1>2, <1>3 DEF Session

(* Everything else: a dial gives both ends a new connection, the network,  *)
(* an endpoint that closes and a crash take connections away.              *)
LEMMA OutsideAttached ==
  ASSUME IInv, NEW c \in Conn, Attached(c),
         \/ \E n \in Node : Closing(n) \/ Cancel(n) \/ Crash(n)
         \/ \E n \in Node : \E m \in Node \ {n} : Dial(n, m)
         \/ \E d \in Conn : Lose(d)
  PROVE  Attached(c)'
<1>t. TypeOK
  BY DEF IInv
<1>u. /\ ph \in [Node -> [Conn -> Phase]] /\ up \in [Conn -> BOOLEAN]
      /\ sess \in [Node -> [Conn -> SessionState]]
  BY <1>t DEF TypeOK
<1>k. Ends(c) \subseteq Node
  BY EndsAreNodes
<1>1. ASSUME NEW n \in Node, Closing(n) \/ Cancel(n)
      PROVE  Attached(c)'
  <2>1. up'[c] => up[c]
    BY <1>1, <1>u DEF Closing, CloseAll, EndpointClose, CloseDone, Start, Cancel
  <2>2. ph' = ph /\ sess' = sess
    BY <1>1 DEF Closing, CloseAll, EndpointClose, CloseDone, Start, Cancel
  <2> QED
    BY <2>1, <2>2 DEF Attached, Open
<1>2. ASSUME NEW n \in Node, Crash(n)
      PROVE  Attached(c)'
  <2>1. up'[c] => up[c] /\ n \notin Ends(c)
    BY <1>2, <1>u DEF Crash
  <2>2. ASSUME NEW k \in Node, k # n
        PROVE  ph'[k] = ph[k] /\ sess'[k] = sess[k]
    BY <1>2, <1>u, <2>2 DEF Crash
  <2> QED
    BY <1>k, <2>1, <2>2 DEF Attached, Open
<1>3. ASSUME NEW d \in Conn, Lose(d)
      PROVE  Attached(c)'
  <2>1. up'[c] => up[c]
    BY <1>3, <1>u DEF Lose
  <2>2. ph' = ph /\ sess' = sess
    BY <1>3 DEF Lose
  <2> QED
    BY <2>1, <2>2 DEF Attached, Open
<1>4. ASSUME NEW n \in Node, NEW m \in Node \ {n}, Dial(n, m)
      PROVE  Attached(c)'
  <2>1. PICK d \in Between(n, m) :
          /\ ph' = [ph EXCEPT ![n][d] = "dial", ![m][d] = "accept"]
          /\ up' = [up EXCEPT ![d] = TRUE]
    BY <1>4 DEF Dial
  <2>2. sess' = sess
    BY <1>4 DEF Dial
  <2>3. d \in Conn /\ Ends(d) = {n, m}
    BY DEF Between, Ends, Dialer, Acceptor
  <2>4. CASE c = d
    <3>1. ph'[n][d] = "dial" /\ ph'[m][d] = "accept"
      BY <1>u, <2>1, <2>3
    <3> QED
      BY <2>3, <2>4, <3>1 DEF Attached, Shaking
  <2>5. CASE c # d
    <3>1. up'[c] = up[c]
      BY <1>u, <2>1, <2>3, <2>5
    <3>2. \A k \in Ends(c) : ph'[k][c] = ph[k][c]
      BY <1>k, <1>u, <2>1, <2>3, <2>5
    <3> QED
      BY <2>2, <3>1, <3>2 DEF Attached, Open
  <2> QED
    BY <2>4, <2>5
<1> QED
  BY <1>1, <1>2, <1>3, <1>4

(* Install is the only step that names a session to replace: the one that  *)
(* the roster has with the same peer.                                      *)
LEMMA StepHeir ==
  ASSUME IInv, Next, NEW n \in Node, NEW d \in Conn, Heir(n, d)
  PROVE  Heir(n, d)'
<1>t. TypeOK
  BY DEF IInv
<1>u. old \in [Node -> [Conn -> Conn \cup {NoConn}]]
  BY <1>t DEF TypeOK
<1>1. ASSUME old'[n][d] = old[n][d] \/ old'[n][d] = NoConn
      PROVE  Heir(n, d)'
  BY <1>1 DEF Heir, Local
<1>2. ASSUME NEW e \in Conn, NEW k \in Ends(e), Setup(k, e)
      PROVE  Heir(n, d)'
  <2>k. k \in Node /\ Other(e, k) \in Node
    BY EndsAreNodes
  <2>1. \/ old' = old
        \/ old' = [old EXCEPT ![k][e] = NoConn]
        \/ Install(k, e) /\ old' = [old EXCEPT ![k][e] = roster[k][Other(e, k)]]
    BY <1>2 DEF Setup, Accept, Hello, Install, Evict, Activate, Recheck, Discard
  <2>2. CASE n = k /\ d = e /\ old'[n][d] = roster[k][Other(e, k)]
    <3>1. Placed(n)
      BY DEF IInv, NodeInv
    <3> QED
      BY <1>2, <2>k, <2>2, <3>1 DEF Heir, Local, Placed
  <2> QED
    BY <1>1, <1>u, <2>k, <2>1, <2>2
<1>3. ASSUME NEW e \in Conn, NEW k \in Ends(e),
             Session(k, e) \/ Invalidate(k, e) \/ SpawnStream(k, e)
      PROVE  Heir(n, d)'
  <2>k. k \in Node
    BY EndsAreNodes
  <2>1. old' = old \/ Resume(k, e)
    BY <1>3 DEF Session, SessionEnds, CloseDoomed, StreamDone, CloseReturns,
                Invalidate, SpawnStream
  <2>2. old'[n][d] = old[n][d] \/ old'[n][d] = NoConn
    BY <1>u, <2>k, <2>1 DEF Resume
  <2> QED
    BY <1>1, <2>2
<1>4. ASSUME NEW k \in Node, Closing(k) \/ Cancel(k) \/ Crash(k)
      PROVE  Heir(n, d)'
  <2>1. old'[n][d] = old[n][d] \/ old'[n][d] = NoConn
    BY <1>u, <1>4 DEF Closing, CloseAll, EndpointClose, CloseDone, Start, Cancel,
                      Crash
  <2> QED
    BY <1>1, <2>1
<1>5. ASSUME \/ \E k \in Node : \E m \in Node \ {k} : Dial(k, m)
             \/ \E e \in Conn : Lose(e)
      PROVE  Heir(n, d)'
  BY <1>1, <1>5 DEF Dial, Lose
<1> QED
  BY <1>2, <1>3, <1>4, <1>5, PeersAssumption DEF Next

LEMMA StepBonds ==
  ASSUME IInv, Bonds, [Next]_vars
  PROVE  Bonds'
<1>1. CASE Next
  <2>1. ASSUME NEW c \in Conn PROVE Attached(c)'
    <3>1. Attached(c)
      BY DEF Bonds
    <3> QED
      BY <1>1, <3>1, SetupAttached, SessionAttached, OutsideAttached,
         PeersAssumption DEF Next
  <2>2. ASSUME NEW n \in Node, NEW d \in Conn PROVE Heir(n, d)'
    BY <1>1, StepHeir DEF Bonds
  <2> QED
    BY <2>1, <2>2 DEF Bonds
<1>2. CASE UNCHANGED vars
  BY <1>2 DEF vars, Bonds, Attached, Heir, Open
<1> QED
  BY <1>1, <1>2

LEMMA BondsInv == Spec => [](IInv /\ Bonds)
<1>1. Init => Bonds
  BY DEF Init, Bonds, Attached, Heir
<1> QED
  BY <1>1, InitInv, StepInv, StepBonds, PTL DEF Spec

(* Connections are used by both ends or by none: when one end uses a       *)
(* connection that works and the other end is done with setting up and     *)
(* replacing sessions, that other end uses the same connection.            *)
THEOREM ConnectionsAreShared == Spec => []NoHalfOpen
<1>1. ASSUME IInv, Bonds PROVE NoHalfOpen
  <2> SUFFICES ASSUME NEW n \in Node, NEW m \in Node,
                      Connected(n, m), up[roster[n][m]],
                      \A c \in Conn : Ends(c) = {n, m} => ph[m][c] = "none",
                      mgr[m] # "draining"
               PROVE  roster[m][n] = roster[n][m] /\ Connected(m, n)
    BY DEF NoHalfOpen
  <2> DEFINE c == roster[n][m]
  <2>1. c \in Conn
    BY <1>1 DEF Connected, Open, IInv, TypeOK
  <2>2. Local(n, c) /\ Other(c, n) = m
    BY <1>1, <2>1, PeersAssumption DEF IInv, NodeInv, Placed
  <2>3. Ends(c) = {n, m} /\ m \in Ends(c) /\ Other(c, m) = n
    BY <2>1, <2>2, PeersAssumption DEF Local, Ends, Other
  <2>4. Open(m, c)
    <3>1. ph[m][c] = "none"
      BY <2>1, <2>3
    <3> QED
      BY <1>1, <2>1, <2>3, <3>1 DEF Bonds, Attached, Shaking
  <2> HIDE DEF c
  <2>5. ASSUME NEW d \in Conn, old[m][d] = c
        PROVE  ph[m][d] = "none"
    <3>1. Local(m, d) /\ Other(d, m) = n
      BY <1>1, <2>1, <2>3, <2>5, PeersAssumption DEF Bonds, Heir
    <3>2. Ends(d) = {n, m}
      BY <3>1 DEF Local, Ends, Other
    <3> QED
      BY <3>2
  <2>6. doomed[m] = {}
    BY <1>1 DEF IInv, NodeInv, Late
  <2>7. roster[m][n] = c
    <3>1. Tracked(m) /\ sess[m][c] # "none"
      BY <1>1, <2>4 DEF IInv, NodeInv, Open
    <3>2. ph[m][c] = "none" /\ Local(m, c)
      BY <2>1, <2>3 DEF Local
    <3> QED
      BY <2>1, <2>3, <2>5, <2>6, <3>1, <3>2 DEF Tracked
  <2> QED
    BY <2>4, <2>7 DEF c, Connected
<1> QED
  BY <1>1, BondsInv, PTL
=============================================================================
