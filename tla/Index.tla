------------------------------- MODULE Index -------------------------------
(***************************************************************************)
(* The per-path state that peers exchange and the last-writer-wins (LWW)   *)
(* order on it: internal/index, and the clock internal/scan stamps local   *)
(* changes with.                                                           *)
(*                                                                         *)
(* A content hash is a positive natural number and 0 stands for the empty  *)
(* hash of a deletion marker; numbers keep the string order the tie-break  *)
(* uses.  Times and modes are natural numbers.  Size is not a field: it is *)
(* a function of the content (see Sync).                                   *)
(***************************************************************************)
EXTENDS Integers

CONSTANT NoEntry    \* a path the index has no entry for

Entry == [deleted: BOOLEAN, hash: Nat, mode: Nat, mtime: Nat,
          updatedAt: Nat, deletedAt: Nat]

ASSUME NoEntryAssumption == NoEntry \notin Entry

Live(e) == e # NoEntry /\ ~e.deleted

Tombstone(e) == e # NoEntry /\ e.deleted

-----------------------------------------------------------------------------
(* Fault for testing the properties: ties always go to the newcomer.       *)
compareEntriesAboveAlways(a, b) == TRUE

(* compareEntries(a, b) > 0: deletion above life, then hash, mode, mtime.  *)
compareEntriesAbove(a, b) ==
  IF a.deleted # b.deleted THEN a.deleted
  ELSE IF a.hash # b.hash THEN a.hash > b.hash
  ELSE IF a.mode # b.mode THEN a.mode > b.mode
  ELSE a.mtime > b.mtime

Identical(a, b) ==
  /\ a.deleted = b.deleted
  /\ a.hash = b.hash
  /\ a.mode = b.mode
  /\ a.mtime = b.mtime

(* Fault: two changes a tick apart count as a tie, which local wins.       *)
WinsTolerant(local, remote) == remote.updatedAt > local.updatedAt + 1

(* Does remote replace local?                                              *)
Wins(local, remote) ==
  \/ remote.updatedAt > local.updatedAt
  \/ /\ remote.updatedAt = local.updatedAt
     /\ ~Identical(local, remote)
     /\ compareEntriesAbove(remote, local)

SetIfWins(files, p, remote) ==
  IF files[p] # NoEntry /\ ~Wins(files[p], remote)
    THEN files
    ELSE [files EXCEPT ![p] = remote]

(* A deletion marker whose age (by DeletedAt, or UpdatedAt when that is    *)
(* missing) exceeds the time to live; ttl = 0 disables collection.         *)
Expired(e, now, ttl) ==
  LET t == IF e.deletedAt = 0 THEN e.updatedAt ELSE e.deletedAt IN
  /\ ttl > 0
  /\ Tombstone(e)
  /\ t # 0
  /\ t + ttl < now

GCTombstones(files, now, ttl) ==
  [p \in DOMAIN files |->
     IF Expired(files[p], now, ttl) THEN NoEntry ELSE files[p]]

-----------------------------------------------------------------------------
Later(a, b) == IF a < b THEN b ELSE a

(* The LWW clock of a local change: never before now, the file's mtime, or *)
(* one tick after the entry it replaces (0: there is none).                *)
stampUpdatedAt(now, modTime, prevUpdated) ==
  LET t == Later(now, modTime) IN
  IF prevUpdated = 0 THEN t ELSE Later(t, prevUpdated + 1)

-----------------------------------------------------------------------------
(* The part of the LWW order that says which content a path has.  Mode and *)
(* mtime are left out: a commit records the ones the filesystem reports,   *)
(* which can be lower than the ones a peer sent.                           *)
VersionBelow(a, b) ==
  \/ a.updatedAt < b.updatedAt
  \/ /\ a.updatedAt = b.updatedAt
     /\ \/ ~a.deleted /\ b.deleted
        \/ a.deleted = b.deleted /\ a.hash <= b.hash
=============================================================================
