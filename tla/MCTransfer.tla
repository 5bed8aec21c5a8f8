----------------------------- MODULE MCTransfer -----------------------------
(***************************************************************************)
(* Workloads for TLC.  One pull without interference on every pair of      *)
(* small files; a few pulls at once, with edits, broken streams and stops, *)
(* on files chosen for their shape.                                        *)
(***************************************************************************)
EXTENDS Transfer, TLC

CONSTANTS n1, n2, n3    \* nodes

Files(max) == UNION {[1..k -> {0, 1, 2}] : k \in 0..max}

Job(by, from, old, new, bs) ==
  [by |-> by, from |-> from, local |-> old, remote |-> new, bs |-> bs,
   live |-> old # NoFile]

Quiet(pulls) ==
  [pulls |-> pulls, contents |-> {}, edits |-> 0, breaks |-> 0, stops |-> 0]

(* Every basis and target, with a block size the peer accepts.             *)
Alone == {Quiet(<<Job(n1, n2, old, new, bs)>>) :
            old \in Files(3), new \in Files(5), bs \in {2, 3}}

Long(k) == [i \in 1..k |-> i % 3]

(* The sizes: nothing to start from, a block size the peer refuses, files  *)
(* at and beyond MaxFile, a reply and a signature beyond MaxMessage.       *)
Limits == {Quiet(<<Job(n1, n2, old, new, bs)>>) :
             old \in {NoFile, <<>>, <<0, 1, 2, 0>>} \cup {Long(k) : k \in 7..9},
             new \in {<<0, 1, 2, 0>>, <<2, 0, 1, 2, 0, 1>>} \cup {Long(k) : k \in 7..9},
             bs \in 1..4}

(* A pull under edits on both sides, a broken stream and a stop.           *)
Disturbed == {[pulls |-> <<Job(n1, n2, <<0, 1, 2>>, <<1, 0, 1, 2>>, 2)>>,
               contents |-> {NoFile, <<2, 1>>, Long(8)},
               edits |-> 3, breaks |-> 1, stops |-> 1]}

(* Daemons that pull from each other with one slot each.                   *)
Crossed == {[pulls |-> <<Job(n1, n2, <<0, 1, 2>>, <<1, 0, 1, 2>>, 2),
                         Job(n2, n1, <<0, 1>>, <<2, 0, 1>>, 2),
                         Job(n3, n2, NoFile, <<1, 1>>, 2)>>,
             contents |-> {}, edits |-> 0, breaks |-> 1, stops |-> 1]}

MCWorkload == Alone \cup Limits \cup Disturbed \cup Crossed
=============================================================================
