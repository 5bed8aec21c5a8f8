--------------------------- MODULE TransferProofs ---------------------------
(***************************************************************************)
(* Theorems about Transfer, for every workload, every number of slots and  *)
(* every limit on sizes.                                                   *)
(***************************************************************************)
EXTENDS Transfer, DeltaProofs, FiniteSetTheorems

(* Leaves that name no prover are left to Zenon, then to SMT.              *)
USE ZenonT(8), SMTT(15)

-----------------------------------------------------------------------------
(* The inductive invariant *)

(* pullAndVerify tries a delta, then the full file, then the full file     *)
(* once more, and never returns to a way it has left.                      *)
Ahead(h) == CASE h = "delta" -> {"full", "last"}
              [] h = "full"  -> {"last"}
              [] OTHER       -> {}

Family(f) == f = [t \in Pull |-> f[t]]

(* A request finds no handler of an earlier one in its place.              *)
Fresh ==
  \A t \in Pull :
    /\ \A h \in Ahead(how[t]) : serving[t][h] = "none"
    /\ ph[t] \in {"open", "request"} => serving[t][how[t]] = "none"

Signed ==
  \A t \in Pull : ph[t] = "request" /\ how[t] = "delta" => basis[t] # NoFile

IInv ==
  /\ load \in Workload
  /\ Family(basis) /\ Family(reply)
  /\ TypeOK /\ Signed /\ Fresh /\ SlotsAccounted /\ AbortedForCause

(* TypeOK without the two semaphores.                                      *)
Typed ==
  /\ ph \in [Pull -> Phase] /\ how \in [Pull -> How]
  /\ \A t \in Pull : reply[t].type \in {"none", "error", "file_data", "delta"}
  /\ serving \in [Pull -> [How -> Handler]]
  /\ drift \in [Pull -> BOOLEAN]
  /\ stopped \in SUBSET Node /\ broken \in SUBSET Pull /\ edits \in Nat
  /\ \A t \in Pull :
       ph[t] \in {"wait", "verify"} /\ how[t] = "delta" => basis[t] # NoFile

(* All of the invariant that does not count slots.                         *)
Course ==
  /\ load \in Workload
  /\ Family(basis) /\ Family(reply)
  /\ Typed /\ Signed /\ Fresh /\ AbortedForCause

Waiting(n) == {t \in Pull : Puller(t) = n /\ ph[t] = "wait"}

Busy == {"serving", "checked", "replied"}
Serving(n) == {x \in Pull \X How : Peer(x[1]) = n /\ serving[x[1]][x[2]] \in Busy}

PullCount ==
  /\ pullSem \in [Node -> 0..Slots]
  /\ \A n \in Node : pullSem[n] = Cardinality(Waiting(n))
ServeCount ==
  /\ serveSem \in [Node -> 0..Slots]
  /\ \A n \in Node : serveSem[n] = Cardinality(Serving(n))

LEMMA Parts == IInv <=> Course /\ PullCount /\ ServeCount
BY Zenon DEF IInv, Course, PullCount, ServeCount, Waiting, Serving, Busy, Typed, TypeOK,
       SlotsAccounted

LEMMA FinitePulls ==
  ASSUME load \in Workload
  PROVE  /\ IsFiniteSet(Pull)
         /\ \A t \in Pull : Puller(t) \in Node /\ Peer(t) \in Node
         /\ \A n \in Node : IsFiniteSet(Waiting(n)) /\ IsFiniteSet(Serving(n))
<1>1. /\ IsFiniteSet(Pull)
      /\ \A t \in Pull : Puller(t) \in Node /\ Peer(t) \in Node
  BY WorkloadAssumption DEF Pull, Puller, Peer
<1>2. IsFiniteSet(How)
  <2>1. IsFiniteSet({} \cup {"delta"})
    BY FS_EmptySet, FS_AddElement
  <2>2. IsFiniteSet(({} \cup {"delta"}) \cup {"full"})
    BY <2>1, FS_AddElement
  <2>3. IsFiniteSet((({} \cup {"delta"}) \cup {"full"}) \cup {"last"})
    BY <2>2, FS_AddElement
  <2>4. How = (({} \cup {"delta"}) \cup {"full"}) \cup {"last"}
    BY DEF How
  <2> QED
    BY <2>3, <2>4
<1>3. IsFiniteSet(Pull \X How)
  BY <1>1, <1>2, FS_Product
<1>4. \A n \in Node : Waiting(n) \in SUBSET Pull /\ Serving(n) \in SUBSET (Pull \X How)
  BY DEF Waiting, Serving
<1> QED
  BY <1>1, <1>3, <1>4, FS_Subset

-----------------------------------------------------------------------------
(* Slots *)

(* What a step does to the streams that hold a pull slot.                  *)
PullSlotKept == pullSem' = pullSem /\ \A t \in Pull : ph'[t] = "wait" <=> ph[t] = "wait"
PullSlotTaken(t) ==
  /\ ph[t] # "wait" /\ Go(t, "wait")
  /\ pullSem[Puller(t)] < Slots /\ pullSem' = Take(pullSem, Puller(t))
PullSlotGiven(t) ==
  /\ ph[t] = "wait" /\ \E p \in Phase \ {"wait"} : Go(t, p)
  /\ pullSem' = Drop(pullSem, Puller(t))

LEMMA PullSlots ==
  ASSUME Course, PullCount, load' = load,
         \/ PullSlotKept
         \/ \E t \in Pull : PullSlotTaken(t) \/ PullSlotGiven(t)
  PROVE  PullCount'
<1>1. /\ ph \in [Pull -> Phase] /\ Slots \in Nat
      /\ Pull' = Pull /\ \A t \in Pull : Puller(t)' = Puller(t)
  BY TransferAssumption DEF Course, Typed, Pull, Puller
<1>2. \A n \in Node : IsFiniteSet(Waiting(n))
  BY FinitePulls DEF Course
<1>3. CASE PullSlotKept
  <2>1. ASSUME NEW n \in Node PROVE Waiting(n)' = Waiting(n)
    BY <1>1, <1>3 DEF PullSlotKept, Waiting
  <2> QED
    BY <1>3, <2>1 DEF PullSlotKept, PullCount
<1>4. ASSUME NEW t \in Pull, PullSlotTaken(t)
      PROVE  PullCount'
  <2>1. Puller(t) \in Node
    BY FinitePulls DEF Course
  <2>2. pullSem' = [pullSem EXCEPT ![Puller(t)] = pullSem[Puller(t)] + 1]
    BY <1>4 DEF PullSlotTaken, Take
  <2>3. pullSem' \in [Node -> 0..Slots]
    BY <1>1, <1>4, <2>1, <2>2 DEF PullCount, PullSlotTaken
  <2>4. ASSUME NEW n \in Node PROVE pullSem'[n] = Cardinality(Waiting(n)')
    <3>1. CASE n = Puller(t)
      <4>1. Waiting(n)' = Waiting(n) \cup {t} /\ t \notin Waiting(n)
        BY <1>1, <1>4, <3>1 DEF PullSlotTaken, Go, Waiting
      <4>2. Cardinality(Waiting(n) \cup {t}) = Cardinality(Waiting(n)) + 1
        BY <1>2, <4>1, FS_AddElement, Zenon
      <4> QED
        BY <2>2, <3>1, <4>1, <4>2 DEF PullCount
    <3>2. CASE n # Puller(t)
      <4>1. Waiting(n)' = Waiting(n)
        BY <1>1, <1>4, <3>2 DEF PullSlotTaken, Go, Waiting
      <4> QED
        BY <2>2, <3>2, <4>1 DEF PullCount
    <3> QED
      BY <3>1, <3>2
  <2> QED
    BY <2>3, <2>4 DEF PullCount
<1>5. ASSUME NEW t \in Pull, PullSlotGiven(t)
      PROVE  PullCount'
  <2>1. Puller(t) \in Node
    BY FinitePulls DEF Course
  <2>2. pullSem' = [pullSem EXCEPT ![Puller(t)] = pullSem[Puller(t)] - 1]
    BY <1>5 DEF PullSlotGiven, Drop
  <2>3. ASSUME NEW n \in Node PROVE pullSem'[n] = Cardinality(Waiting(n)')
    <3>1. CASE n = Puller(t)
      <4>1. Waiting(n)' = Waiting(n) \ {t} /\ t \in Waiting(n)
        BY <1>1, <1>5, <3>1 DEF PullSlotGiven, Go, Waiting
      <4>2. Cardinality(Waiting(n) \ {t}) = Cardinality(Waiting(n)) - 1
        BY <1>2, <4>1, FS_RemoveElement, Zenon
      <4> QED
        BY <2>2, <3>1, <4>1, <4>2 DEF PullCount
    <3>2. CASE n # Puller(t)
      <4>1. Waiting(n)' = Waiting(n)
        BY <1>1, <1>5, <3>2 DEF PullSlotGiven, Go, Waiting
      <4> QED
        BY <2>2, <3>2, <4>1 DEF PullCount
    <3> QED
      BY <3>1, <3>2
  <2>4. ASSUME NEW n \in Node, n = Puller(t) PROVE pullSem'[n] \in Nat
    <3>1. Waiting(n)' = Waiting(n) \ {t}
      BY <1>1, <1>5, <2>4 DEF PullSlotGiven, Go, Waiting
    <3>2. IsFiniteSet(Waiting(n) \ {t})
      BY <1>2, FS_RemoveElement
    <3> QED
      BY <2>3, <3>1, <3>2, FS_CardinalityType, Zenon
  <2>5. pullSem' \in [Node -> 0..Slots]
    BY <1>1, <2>1, <2>2, <2>4 DEF PullCount
  <2> QED
    BY <2>3, <2>5 DEF PullCount
<1> QED
  BY <1>3, <1>4, <1>5

(* What a step does to the handlers that hold a serve slot.                *)
ServeSlotKept ==
  /\ serveSem' = serveSem
  /\ \A t \in Pull, h \in How : serving'[t][h] \in Busy <=> serving[t][h] \in Busy
ServeSlotTaken(t, h) ==
  /\ serving[t][h] \notin Busy
  /\ \E s \in Busy : serving' = [serving EXCEPT ![t][h] = s]
  /\ serveSem[Peer(t)] < Slots /\ serveSem' = Take(serveSem, Peer(t))
ServeSlotGiven(t, h) ==
  /\ serving[t][h] \in Busy
  /\ \E s \in Handler \ Busy : serving' = [serving EXCEPT ![t][h] = s]
  /\ serveSem' = Drop(serveSem, Peer(t))

LEMMA ServeSlots ==
  ASSUME Course, ServeCount, load' = load,
         \/ ServeSlotKept
         \/ \E t \in Pull, h \in How : ServeSlotTaken(t, h) \/ ServeSlotGiven(t, h)
  PROVE  ServeCount'
<1>1. /\ serving \in [Pull -> [How -> Handler]] /\ Slots \in Nat
      /\ Pull' = Pull /\ \A t \in Pull : Peer(t)' = Peer(t)
  BY TransferAssumption DEF Course, Typed, Pull, Peer
<1>2. \A n \in Node : IsFiniteSet(Serving(n))
  BY FinitePulls DEF Course
<1>3. CASE ServeSlotKept
  <2>1. ASSUME NEW n \in Node PROVE Serving(n)' = Serving(n)
    BY <1>1, <1>3 DEF ServeSlotKept, Serving
  <2> QED
    BY <1>3, <2>1 DEF ServeSlotKept, ServeCount
<1>4. ASSUME NEW t \in Pull, NEW h \in How, ServeSlotTaken(t, h)
      PROVE  ServeCount'
  <2>1. Peer(t) \in Node
    BY FinitePulls DEF Course
  <2>2. serveSem' = [serveSem EXCEPT ![Peer(t)] = serveSem[Peer(t)] + 1]
    BY <1>4 DEF ServeSlotTaken, Take
  <2>3. serveSem' \in [Node -> 0..Slots]
    BY <1>1, <1>4, <2>1, <2>2 DEF ServeCount, ServeSlotTaken
  <2>4. ASSUME NEW x \in Pull \X How
        PROVE  serving'[x[1]][x[2]] \in Busy
                 <=> x = <<t, h>> \/ serving[x[1]][x[2]] \in Busy
    BY <1>1, <1>4 DEF ServeSlotTaken
  <2>5. ASSUME NEW n \in Node PROVE serveSem'[n] = Cardinality(Serving(n)')
    <3>1. CASE n = Peer(t)
      <4>1. Serving(n)' = Serving(n) \cup {<<t, h>>} /\ <<t, h>> \notin Serving(n)
        BY <1>1, <1>4, <2>4, <3>1 DEF ServeSlotTaken, Serving
      <4>2. Cardinality(Serving(n) \cup {<<t, h>>}) = Cardinality(Serving(n)) + 1
        BY <1>2, <4>1, FS_AddElement, Zenon
      <4> QED
        BY <2>2, <3>1, <4>1, <4>2 DEF ServeCount
    <3>2. CASE n # Peer(t)
      <4>1. Serving(n)' = Serving(n)
        BY <1>1, <2>4, <3>2 DEF Serving
      <4> QED
        BY <2>2, <3>2, <4>1 DEF ServeCount
    <3> QED
      BY <3>1, <3>2
  <2> QED
    BY <2>3, <2>5 DEF ServeCount
<1>5. ASSUME NEW t \in Pull, NEW h \in How, ServeSlotGiven(t, h)
      PROVE  ServeCount'
  <2>1. Peer(t) \in Node
    BY FinitePulls DEF Course
  <2>2. serveSem' = [serveSem EXCEPT ![Peer(t)] = serveSem[Peer(t)] - 1]
    BY <1>5 DEF ServeSlotGiven, Drop
  <2>3. ASSUME NEW x \in Pull \X How
        PROVE  serving'[x[1]][x[2]] \in Busy
                 <=> x # <<t, h>> /\ serving[x[1]][x[2]] \in Busy
    BY <1>1, <1>5 DEF ServeSlotGiven
  <2>4. ASSUME NEW n \in Node, n = Peer(t)
        PROVE  Serving(n)' = Serving(n) \ {<<t, h>>} /\ <<t, h>> \in Serving(n)
    BY <1>1, <1>5, <2>3, <2>4 DEF ServeSlotGiven, Serving
  <2>5. ASSUME NEW n \in Node PROVE serveSem'[n] = Cardinality(Serving(n)')
    <3>1. CASE n = Peer(t)
      <4>1. Cardinality(Serving(n) \ {<<t, h>>}) = Cardinality(Serving(n)) - 1
        BY <1>2, <2>4, <3>1, FS_RemoveElement, Zenon
      <4> QED
        BY <2>2, <2>4, <3>1, <4>1 DEF ServeCount
    <3>2. CASE n # Peer(t)
      <4>1. Serving(n)' = Serving(n)
        BY <1>1, <2>3, <3>2 DEF Serving
      <4> QED
        BY <2>2, <3>2, <4>1 DEF ServeCount
    <3> QED
      BY <3>1, <3>2
  <2>6. ASSUME NEW n \in Node, n = Peer(t) PROVE serveSem'[n] \in Nat
    <3>1. IsFiniteSet(Serving(n) \ {<<t, h>>})
      BY <1>2, FS_RemoveElement, Zenon
    <3> QED
      BY <2>4, <2>5, <2>6, <3>1, FS_CardinalityType, Zenon
  <2>7. serveSem' \in [Node -> 0..Slots]
    BY <1>1, <2>1, <2>2, <2>6 DEF ServeCount
  <2> QED
    BY <2>5, <2>7 DEF ServeCount
<1> QED
  BY <1>3, <1>4, <1>5

-----------------------------------------------------------------------------
(* Steps *)

(* What Course says of one pull: its phase, the way it tries, the answer   *)
(* on its stream, its handlers, its basis and whether it may give up.      *)
Fine(p, h, r, s, b, cause) ==
  /\ p \in Phase /\ h \in How
  /\ r.type \in {"none", "error", "file_data", "delta"}
  /\ s \in [How -> Handler]
  /\ p \in {"request", "wait", "verify"} /\ h = "delta" => b # NoFile
  /\ \A k \in Ahead(h) : s[k] = "none"
  /\ p \in {"open", "request"} => s[h] = "none"
  /\ p = "aborted" => cause

Cause(t) ==
  \/ t \in broken \/ {Puller(t), Peer(t)} \cap stopped # {}
  \/ how[t] = "delta" /\ ~Fits(SignatureSize(t))

Framed ==
  /\ load \in Workload
  /\ Family(ph) /\ Family(how) /\ Family(basis) /\ Family(reply) /\ Family(serving)
  /\ drift \in [Pull -> BOOLEAN]
  /\ stopped \in SUBSET Node /\ broken \in SUBSET Pull /\ edits \in Nat

LEMMA CoursePulls ==
  ASSUME Course
  PROVE  /\ Framed
         /\ \A t \in Pull : Fine(ph[t], how[t], reply[t], serving[t], basis[t], Cause(t))
BY DEF Course, Framed, Fine, Cause, Typed, Signed, Fresh, AbortedForCause, Family

(* A step of one pull leaves the others alone.                             *)
Others(t) ==
  /\ load' = load /\ Framed'
  /\ stopped \subseteq stopped' /\ broken \subseteq broken'
  /\ \A u \in Pull \ {t} :
       /\ ph'[u] = ph[u] /\ how'[u] = how[u] /\ reply'[u] = reply[u]
       /\ serving'[u] = serving[u] /\ basis'[u] = basis[u]

LEMMA CauseStays ==
  ASSUME load' = load, stopped \subseteq stopped', broken \subseteq broken',
         NEW u \in Pull, how'[u] = how[u], basis'[u] = basis[u], Cause(u)
  PROVE  Cause(u)'
BY DEF Cause, Puller, Peer, SignatureSize, Fits, BlockCount

LEMMA OneStep ==
  ASSUME Course, NEW t \in Pull, Others(t),
         Fine(ph'[t], how'[t], reply'[t], serving'[t], basis'[t], Cause(t)')
  PROVE  Course'
<1>1. Pull' = Pull
  BY DEF Others, Pull
<1>2. ASSUME NEW u \in Pull
      PROVE  Fine(ph'[u], how'[u], reply'[u], serving'[u], basis'[u], Cause(u)')
  <2>1. CASE u = t
    BY <2>1
  <2>2. CASE u # t
    <3>1. Fine(ph[u], how[u], reply[u], serving[u], basis[u], Cause(u))
      BY CoursePulls
    <3>2. Cause(u) => Cause(u)'
      BY <2>2, CauseStays DEF Others
    <3> QED
      BY <2>2, <3>1, <3>2 DEF Fine, Others
  <2> QED
    BY <2>1, <2>2
<1>3. \A u \in Pull' : Fine(ph'[u], how'[u], reply'[u], serving'[u], basis'[u], Cause(u)')
  BY <1>1, <1>2
<1>4. Framed'
  BY DEF Others
<1>5. Typed'
  BY <1>3, <1>4 DEF Framed, Fine, Typed, Family
<1> QED
  BY <1>3, <1>4, <1>5 DEF Course, Framed, Fine, Cause, Signed, Fresh, AbortedForCause

(* Open, RequestFails and Verify hold no slot.                             *)
LEMMA OpenCourse ==
  ASSUME Course, NEW t \in Pull, Open(t)
  PROVE  Course' /\ load' = load /\ PullSlotKept /\ ServeSlotKept
<1>1. Framed /\ Fine(ph[t], how[t], reply[t], serving[t], basis[t], Cause(t))
  BY CoursePulls
<1>2. UNCHANGED <<load, reply, serving, pullSem, serveSem, stopped, broken, edits, drift>>
  BY DEF Open, fileVars
<1>3. \/ /\ how' = how /\ basis' = basis
         /\ ph' = [ph EXCEPT ![t] = "cancelled"]
      \/ /\ how' = how /\ basis' = basis /\ how[t] # "delta"
         /\ ph' = [ph EXCEPT ![t] = "request"]
      \/ /\ how[t] = "delta" /\ how' = [how EXCEPT ![t] = "full"]
         /\ ph' = ph /\ basis' = basis
      \/ /\ how' = how /\ local[t] # NoFile
         /\ ph' = [ph EXCEPT ![t] = "request"]
         /\ basis' = [basis EXCEPT ![t] = local[t]]
  BY DEF Open, Go
<1>4. ph[t] = "open"
  BY DEF Open
<1>5. Others(t)
  BY <1>1, <1>2, <1>3 DEF Others, Framed, Family, Pull
<1>6. Fine(ph'[t], how'[t], reply'[t], serving'[t], basis'[t], Cause(t)')
  BY <1>1, <1>2, <1>3, <1>4 DEF Fine, Framed, Family, Phase, How, Ahead
<1>7. PullSlotKept
  BY <1>1, <1>2, <1>3, <1>4 DEF PullSlotKept, Framed, Family
<1> QED
  BY <1>2, <1>5, <1>6, <1>7, OneStep DEF ServeSlotKept

LEMMA RequestFailsCourse ==
  ASSUME Course, NEW t \in Pull, RequestFails(t)
  PROVE  Course' /\ load' = load /\ PullSlotKept /\ ServeSlotKept
<1>1. Framed /\ Fine(ph[t], how[t], reply[t], serving[t], basis[t], Cause(t))
  BY CoursePulls
<1>2. UNCHANGED <<load, how, basis, reply, serving, pullSem, serveSem, stopped, broken,
                  edits, drift>>
  BY DEF RequestFails, fileVars
<1>3. \/ ph' = [ph EXCEPT ![t] = "cancelled"]
      \/ ph' = [ph EXCEPT ![t] = "aborted"] /\ {Puller(t), Peer(t)} \cap stopped # {}
  BY DEF RequestFails, Go
<1>4. ph[t] = "request"
  BY DEF RequestFails
<1>5. Others(t)
  BY <1>1, <1>2, <1>3 DEF Others, Framed, Family, Pull
<1>6. ph'[t] = "aborted" => Cause(t)'
  BY <1>1, <1>2, <1>3 DEF Cause, Framed, Family, Puller, Peer
<1>7. Fine(ph'[t], how'[t], reply'[t], serving'[t], basis'[t], Cause(t)')
  BY <1>1, <1>2, <1>3, <1>4, <1>6 DEF Fine, Framed, Family, Phase
<1>8. PullSlotKept
  BY <1>1, <1>2, <1>3, <1>4 DEF PullSlotKept, Framed, Family
<1> QED
  BY <1>2, <1>5, <1>7, <1>8, OneStep DEF ServeSlotKept

LEMMA VerifyCourse ==
  ASSUME Course, NEW t \in Pull, Verify(t)
  PROVE  Course' /\ load' = load /\ PullSlotKept /\ ServeSlotKept
<1>1. Framed /\ Fine(ph[t], how[t], reply[t], serving[t], basis[t], Cause(t))
  BY CoursePulls
<1>2. UNCHANGED <<load, basis, reply, serving, pullSem, serveSem, stopped, broken,
                  edits, drift>>
  BY DEF Verify, fileVars
<1>3. \/ how' = how /\ \E p \in {"ok", "failed"} : ph' = [ph EXCEPT ![t] = p]
      \/ /\ how[t] # "last" /\ how' = [how EXCEPT ![t] = "last"]
         /\ ph' = [ph EXCEPT ![t] = "open"]
  BY DEF Verify, Go
<1>4. ph[t] = "verify"
  BY DEF Verify
<1>5. Others(t)
  BY <1>1, <1>2, <1>3 DEF Others, Framed, Family, Pull
<1>6. Fine(ph'[t], how'[t], reply'[t], serving'[t], basis'[t], Cause(t)')
  BY <1>1, <1>2, <1>3, <1>4 DEF Fine, Framed, Family, Phase, How, Ahead
<1>7. PullSlotKept
  BY <1>1, <1>2, <1>3, <1>4 DEF PullSlotKept, Framed, Family
<1> QED
  BY <1>2, <1>5, <1>6, <1>7, OneStep DEF ServeSlotKept

(* A request takes a pull slot and starts a handler, or is too large.      *)
LEMMA RequestCourse ==
  ASSUME Course, NEW t \in Pull, Request(t)
  PROVE  /\ Course' /\ load' = load /\ ServeSlotKept
         /\ PullSlotKept \/ PullSlotTaken(t)
<1>1. Framed /\ Fine(ph[t], how[t], reply[t], serving[t], basis[t], Cause(t))
  BY CoursePulls
<1>2. UNCHANGED <<load, how, basis, reply, serveSem, stopped, broken, edits, drift>>
  BY DEF Request, fileVars
<1>3. ph[t] = "request"
  BY DEF Request
<1>4. CASE how[t] = "delta" /\ ~Fits(SignatureSize(t))
  <2>1. ph' = [ph EXCEPT ![t] = "aborted"] /\ serving' = serving /\ pullSem' = pullSem
    BY <1>4 DEF Request, Go
  <2>2. Others(t)
    BY <1>1, <1>2, <2>1 DEF Others, Framed, Family, Pull
  <2>3. Cause(t)'
    BY <1>2, <1>4, CauseStays DEF Cause
  <2>4. Fine(ph'[t], how'[t], reply'[t], serving'[t], basis'[t], Cause(t)')
    BY <1>1, <1>2, <2>1, <2>3 DEF Fine, Framed, Family, Phase
  <2>5. PullSlotKept
    BY <1>1, <1>3, <2>1 DEF PullSlotKept, Framed, Family
  <2> QED
    BY <1>2, <2>1, <2>2, <2>4, <2>5, OneStep DEF ServeSlotKept
<1>5. CASE ~(how[t] = "delta" /\ ~Fits(SignatureSize(t)))
  <2>1. /\ ph' = [ph EXCEPT ![t] = "wait"]
        /\ serving' = [serving EXCEPT ![t][how[t]] = "queued"]
    BY <1>5 DEF Request, Go
  <2>2. PullSlotTaken(t)
    BY <1>3, <1>5 DEF PullSlotTaken, Request
  <2>3. /\ \A u \in Pull \ {t} : serving'[u] = serving[u]
        /\ serving'[t] = [serving[t] EXCEPT ![how[t]] = "queued"]
        /\ Family(serving')
    BY <1>1, <2>1, Zenon DEF Framed, Family
  <2>4. Others(t)
    BY <1>1, <1>2, <2>1, <2>3 DEF Others, Framed, Family, Pull
  <2>5. Fine(ph'[t], how'[t], reply'[t], serving'[t], basis'[t], Cause(t)')
    BY <1>1, <1>2, <1>3, <2>1, <2>3 DEF Fine, Framed, Family, Phase, How, Ahead, Handler
  <2>6. ServeSlotKept
    BY <1>1, <1>2, <1>3, <2>3 DEF ServeSlotKept, Fine, Busy
  <2> QED
    BY <1>2, <2>2, <2>4, <2>5, <2>6, OneStep
<1> QED
  BY <1>4, <1>5

(* An answer or the end of the stream gives the pull slot back.            *)
LEMMA ReceiveCourse ==
  ASSUME Course, NEW t \in Pull, ReceiveData(t) \/ ReceiveError(t)
  PROVE  /\ Course' /\ load' = load /\ ServeSlotKept
         /\ PullSlotGiven(t)
<1>1. Framed /\ Fine(ph[t], how[t], reply[t], serving[t], basis[t], Cause(t))
  BY CoursePulls
<1>2. /\ UNCHANGED <<load, basis, serving, serveSem, stopped, broken, edits, drift>>
      /\ reply' = [reply EXCEPT ![t] = None]
      /\ pullSem' = Drop(pullSem, Puller(t))
      /\ ph[t] = "wait"
  BY DEF ReceiveData, ReceiveError, Received, fileVars
<1>3. \/ how' = how /\ \E p \in {"verify", "failed"} : ph' = [ph EXCEPT ![t] = p]
      \/ /\ how[t] = "delta" /\ how' = [how EXCEPT ![t] = "full"]
         /\ ph' = [ph EXCEPT ![t] = "open"]
  BY DEF ReceiveData, ReceiveError, Go
<1>4. Others(t)
  BY <1>1, <1>2, <1>3 DEF Others, Framed, Family, Pull
<1>5. reply'[t].type = "none"
  BY <1>1, <1>2 DEF Framed, Family, None
<1>6. Fine(ph'[t], how'[t], reply'[t], serving'[t], basis'[t], Cause(t)')
  BY <1>1, <1>2, <1>3, <1>5 DEF Fine, Framed, Family, Phase, How, Ahead
<1>7. PullSlotGiven(t)
  BY <1>2, <1>3 DEF PullSlotGiven, Go, Phase
<1> QED
  BY <1>2, <1>4, <1>6, <1>7, OneStep DEF ServeSlotKept

LEMMA StreamEndsCourse ==
  ASSUME Course, NEW t \in Pull, PeerLost(t) \/ BreakStream(t)
  PROVE  /\ Course' /\ load' = load /\ ServeSlotKept
         /\ PullSlotGiven(t)
<1>1. Framed /\ Fine(ph[t], how[t], reply[t], serving[t], basis[t], Cause(t))
  BY CoursePulls
<1>2. /\ UNCHANGED <<load, how, basis, serving, serveSem, stopped, edits, drift>>
      /\ reply' = [reply EXCEPT ![t] = None]
      /\ pullSem' = Drop(pullSem, Puller(t))
      /\ ph' = [ph EXCEPT ![t] = "aborted"]
      /\ ph[t] = "wait"
  BY DEF PeerLost, BreakStream, StreamEnds, Go, fileVars
<1>3. \/ broken' = broken /\ {Puller(t), Peer(t)} \cap stopped # {}
      \/ broken' = broken \cup {t}
  BY DEF PeerLost, BreakStream
<1>4. Others(t)
  BY <1>1, <1>2, <1>3 DEF Others, Framed, Family, Pull
<1>5. reply'[t].type = "none" /\ ph'[t] = "aborted"
  BY <1>1, <1>2 DEF Framed, Family, None
<1>6. Cause(t)'
  BY <1>2, <1>3 DEF Cause, Puller, Peer
<1>7. Fine(ph'[t], how'[t], reply'[t], serving'[t], basis'[t], Cause(t)')
  BY <1>1, <1>2, <1>5, <1>6 DEF Fine, Phase
<1>8. PullSlotGiven(t)
  BY <1>2, Zenon DEF PullSlotGiven, Go, Phase
<1> QED
  BY <1>2, <1>4, <1>7, <1>8, OneStep DEF ServeSlotKept

(* A handler moves on, and may answer.                                     *)
Handles(t, h, s, msg) ==
  /\ handlerUnchanged
  /\ serving[t][h] # "none" /\ serving' = [serving EXCEPT ![t][h] = s]
  /\ msg.type \in {"none", "error", "file_data", "delta"}
  /\ reply' = reply \/ reply' = [reply EXCEPT ![t] = msg]

LEMMA HandlerCourse ==
  ASSUME Course, NEW t \in Pull, NEW h \in How, NEW s \in Handler, NEW msg,
         Handles(t, h, s, msg)
  PROVE  Course' /\ load' = load /\ PullSlotKept
<1>1. Framed /\ Fine(ph[t], how[t], reply[t], serving[t], basis[t], Cause(t))
  BY CoursePulls
<1>2. UNCHANGED <<load, ph, how, basis, pullSem, stopped, broken, edits, drift>>
  BY DEF Handles, handlerUnchanged, pullVars, fileVars
<1>3. /\ \A u \in Pull \ {t} : serving'[u] = serving[u]
      /\ serving'[t] = [serving[t] EXCEPT ![h] = s]
      /\ Family(serving')
  BY <1>1, Zenon DEF Handles, Framed, Family
<1>4. Others(t)
  BY <1>1, <1>2, <1>3 DEF Handles, Others, Framed, Family, Pull
<1>5. reply'[t] \in {reply[t], msg}
  BY <1>1 DEF Handles, Framed, Family
<1>6. Cause(t) => Cause(t)'
  BY <1>2, CauseStays
<1>7. Fine(ph'[t], how'[t], reply'[t], serving'[t], basis'[t], Cause(t)')
  BY <1>1, <1>2, <1>3, <1>5, <1>6 DEF Handles, Fine, Ahead, How
<1>8. PullSlotKept
  BY <1>2 DEF PullSlotKept
<1> QED
  BY <1>2, <1>4, <1>7, <1>8, OneStep

LEMMA AnswerCourse ==
  ASSUME Course, NEW t \in Pull, NEW h \in How, handlerUnchanged,
         serving[t][h] \in {"serving", "checked"}, serveSem' = serveSem,
         NEW msg, msg.type \in {"none", "error", "file_data", "delta"},
         Answer(t, h, msg)
  PROVE  Course' /\ load' = load /\ PullSlotKept /\ ServeSlotKept
<1>1. /\ serving' = [serving EXCEPT ![t][h] = "replied"]
      /\ reply' \in {reply, [reply EXCEPT ![t] = msg]}
  BY DEF Answer
<1>2. Handles(t, h, "replied", msg)
  BY <1>1 DEF Handles
<1>5. Course' /\ load' = load /\ PullSlotKept
  BY <1>2, HandlerCourse DEF Handler
<1>3. serving \in [Pull -> [How -> Handler]]
  BY DEF Course, Typed
<1>4. ServeSlotKept
  BY <1>1, <1>3 DEF ServeSlotKept, Busy
<1> QED
  BY <1>4, <1>5

LEMMA ServeCourse ==
  ASSUME Course, NEW t \in Pull, NEW h \in How, ServeStep(t, h)
  PROVE  /\ Course' /\ load' = load /\ PullSlotKept
         /\ ServeSlotKept \/ ServeSlotTaken(t, h) \/ ServeSlotGiven(t, h)
<1> DEFINE Goal == /\ Course' /\ load' = load /\ PullSlotKept
                   /\ ServeSlotKept \/ ServeSlotTaken(t, h) \/ ServeSlotGiven(t, h)
<1>1. serving \in [Pull -> [How -> Handler]]
  BY DEF Course, Typed
<1>2. None.type = "none" /\ Error.type = "error"
  BY DEF None, Error
<1>3. CASE AcquireServe(t, h)
  <2>3. Handles(t, h, "serving", None)
    BY <1>2, <1>3 DEF AcquireServe, Handles
  <2>1. Course' /\ load' = load /\ PullSlotKept
    BY <2>3, HandlerCourse DEF Handler
  <2>2. ServeSlotTaken(t, h)
    BY <1>3 DEF AcquireServe, ServeSlotTaken, Busy
  <2> QED
    BY <2>1, <2>2
<1>4. CASE ServerBusy(t, h)
  <2>1. /\ handlerUnchanged /\ serving[t][h] = "queued"
        /\ serving' = [serving EXCEPT ![t][h] = "none"]
        /\ reply' \in {reply, [reply EXCEPT ![t] = Error]}
        /\ serveSem' = serveSem
    BY <1>4 DEF ServerBusy
  <2>4. Handles(t, h, "none", Error)
    BY <1>2, <2>1 DEF Handles
  <2>2. Course' /\ load' = load /\ PullSlotKept
    BY <2>4, HandlerCourse DEF Handler
  <2>3. ServeSlotKept
    BY <1>1, <2>1 DEF ServeSlotKept, Busy
  <2> QED
    BY <2>2, <2>3
<1>5. CASE serveEntry(t, h)
  <2>1. CASE Answer(t, h, Error)
    BY <1>2, <1>5, <2>1, AnswerCourse DEF serveEntry
  <2>2. CASE serving' = [serving EXCEPT ![t][h] = "checked"] /\ UNCHANGED reply
    <3>3. Handles(t, h, "checked", None)
      BY <1>2, <1>5, <2>2 DEF serveEntry, Handles
    <3>1. Course' /\ load' = load /\ PullSlotKept
      BY <3>3, HandlerCourse DEF Handler
    <3>2. ServeSlotKept
      BY <1>1, <1>5, <2>2 DEF serveEntry, ServeSlotKept, Busy
    <3> QED
      BY <3>1, <3>2
  <2> QED
    BY <1>5, <2>1, <2>2 DEF serveEntry
<1>6. CASE serveFile(t, h)
  <2>1. PICK msg \in {[type |-> "file_data", data |-> remote[t]], Error} : Answer(t, h, msg)
    BY <1>6 DEF serveFile
  <2>2. msg.type \in {"none", "error", "file_data", "delta"}
    BY <2>1 DEF Error
  <2> QED
    BY <1>6, <2>1, <2>2, AnswerCourse DEF serveFile
<1>7. CASE ReleaseServe(t, h)
  <2>3. Handles(t, h, "none", None)
    BY <1>2, <1>7 DEF ReleaseServe, Handles
  <2>1. Course' /\ load' = load /\ PullSlotKept
    BY <2>3, HandlerCourse DEF Handler
  <2>2. ServeSlotGiven(t, h)
    BY <1>7, Zenon DEF ReleaseServe, ServeSlotGiven, Busy, Handler
  <2> QED
    BY <2>1, <2>2
<1> QED
  BY <1>3, <1>4, <1>5, <1>6, <1>7 DEF ServeStep

LEMMA DeltaCourse ==
  ASSUME Course, NEW t \in Pull, serveDelta(t)
  PROVE  Course' /\ load' = load /\ PullSlotKept /\ ServeSlotKept
<1>1. PICK msg : /\ Answer(t, "delta", msg)
                 /\ \/ msg = Error
                    \/ \E d, data : msg = [type |-> "delta", delta |-> d, data |-> data]
  BY DEF serveDelta
<1>2. msg.type \in {"none", "error", "file_data", "delta"}
  BY <1>1 DEF Error
<1> QED
  BY <1>1, <1>2, AnswerCourse DEF serveDelta, How

(* Edits, the scan of the peer and a stop touch no pull and no handler.    *)
LEMMA WorldCourse ==
  ASSUME Course, UNCHANGED <<load, ph, how, basis, reply, serving, pullSem, serveSem>>,
         broken' = broken, stopped' \in SUBSET Node, stopped \subseteq stopped',
         drift' \in [Pull -> BOOLEAN], edits' \in Nat
  PROVE  Course' /\ load' = load /\ PullSlotKept /\ ServeSlotKept
<1>1. Framed /\ \A t \in Pull : Fine(ph[t], how[t], reply[t], serving[t], basis[t], Cause(t))
  BY CoursePulls
<1>2. Framed'
  BY <1>1 DEF Framed, Family, Pull
<1>3. ASSUME NEW t \in Pull PROVE Cause(t) => Cause(t)'
  BY CauseStays
<1>4. Pull' = Pull
  BY DEF Pull
<1>5. AbortedForCause'
  BY <1>1, <1>3, <1>4 DEF AbortedForCause, Cause, Fine
<1>6. Typed' /\ Signed' /\ Fresh'
  BY <1>2, <1>4 DEF Course, Framed, Typed, Signed, Fresh
<1> QED
  BY <1>2, <1>5, <1>6 DEF Course, Framed, PullSlotKept, ServeSlotKept

LEMMA NextCourse ==
  ASSUME IInv, [Next]_vars
  PROVE  IInv'
<1>1. Course /\ PullCount /\ ServeCount
  BY Parts
<1> SUFFICES /\ Course' /\ load' = load
             /\ \/ PullSlotKept
                \/ \E t \in Pull : PullSlotTaken(t) \/ PullSlotGiven(t)
             /\ \/ ServeSlotKept
                \/ \E t \in Pull, h \in How : ServeSlotTaken(t, h) \/ ServeSlotGiven(t, h)
  <2>1. PullCount' /\ ServeCount'
    BY <1>1, PullSlots, ServeSlots
  <2> QED
    BY <2>1 DEF IInv, Course, PullCount, ServeCount, Waiting, Serving, Busy, Typed,
                TypeOK, SlotsAccounted
<1>2. ASSUME NEW t \in Pull, PullStep(t)
      PROVE  /\ Course' /\ load' = load
             /\ PullSlotKept \/ PullSlotTaken(t) \/ PullSlotGiven(t)
             /\ ServeSlotKept
  BY <1>1, <1>2, OpenCourse, RequestCourse, RequestFailsCourse, ReceiveCourse,
     StreamEndsCourse, VerifyCourse, Zenon DEF PullStep
<1>3. ASSUME NEW t \in Pull, BreakStream(t)
      PROVE  Course' /\ load' = load /\ PullSlotGiven(t) /\ ServeSlotKept
  BY <1>1, <1>3, StreamEndsCourse, Zenon
<1>4. CASE UNCHANGED vars
  BY <1>1, <1>4, WorldCourse DEF vars, pullVars, fileVars, Course, Typed
<1>5. ASSUME NEW t \in Pull, EditLocal(t) \/ EditRemote(t) \/ ScanRemote(t)
      PROVE  Course' /\ load' = load /\ PullSlotKept /\ ServeSlotKept
  <2>1. UNCHANGED <<load, ph, how, basis, reply, serving, pullSem, serveSem, broken, stopped>>
    BY <1>5 DEF EditLocal, EditRemote, ScanRemote, worldUnchanged, pullVars
  <2>2. drift \in [Pull -> BOOLEAN] /\ edits \in Nat /\ stopped \in SUBSET Node
    BY <1>1 DEF Course, Typed
  <2>3. edits' \in Nat
    BY <1>5, <2>2 DEF EditLocal, EditRemote, ScanRemote
  <2>4. drift' \in [Pull -> BOOLEAN]
    <3>1. drift' = drift \/ \E b \in BOOLEAN : drift' = [drift EXCEPT ![t] = b]
      BY <1>5, Zenon DEF EditLocal, EditRemote, ScanRemote
    <3> QED
      BY <2>2, <3>1
  <2> QED
    BY <1>1, <2>1, <2>2, <2>3, <2>4, WorldCourse
<1>6. ASSUME NEW n \in Node, Stop(n)
      PROVE  Course' /\ load' = load /\ PullSlotKept /\ ServeSlotKept
  <2>1. /\ UNCHANGED <<load, ph, how, basis, reply, serving, pullSem, serveSem, broken,
                       drift, edits>>
        /\ stopped' = stopped \cup {n}
    BY <1>6 DEF Stop, worldUnchanged, pullVars, fileVars
  <2>2. drift \in [Pull -> BOOLEAN] /\ edits \in Nat /\ stopped \in SUBSET Node
    BY <1>1 DEF Course, Typed
  <2> QED
    BY <1>1, <2>1, <2>2, WorldCourse
<1> QED
  BY <1>1, <1>2, <1>3, <1>4, <1>5, <1>6, ServeCourse, DeltaCourse, Zenon DEF Next, Progress

LEMMA InitCourse == Init => IInv
<1> SUFFICES ASSUME Init PROVE IInv
  OBVIOUS
<1>1. Course
  BY DEF Init, Course, Family, Typed, Signed, Fresh, AbortedForCause, Phase, How,
         Handler, None, Ahead
<1>2. \A n \in Node : Waiting(n) = {} /\ Serving(n) = {}
  BY DEF Init, Waiting, Serving, Busy
<1>3. /\ \A n \in Node : pullSem[n] = 0 /\ serveSem[n] = 0
      /\ pullSem \in [Node -> 0..Slots] /\ serveSem \in [Node -> 0..Slots]
  BY TransferAssumption DEF Init
<1>4. Cardinality({}) = 0
  BY FS_EmptySet, Zenon
<1>5. PullCount /\ ServeCount
  BY <1>2, <1>3, <1>4 DEF PullCount, ServeCount
<1> QED
  BY <1>1, <1>5, Parts

LEMMA InvAlways == Spec => []IInv
BY InitCourse, NextCourse, PTL DEF Spec

-----------------------------------------------------------------------------
(* The bytes *)

(* A delta on the stream was made from the basis the puller still holds.   *)
Answered(r, p, b, bs) ==
  /\ r.type # "none" => p = "wait"
  /\ r.type = "delta" => /\ r.data \in Seq(Nat) /\ b \in Seq(Nat)
                         /\ r.delta = Encode(r.data, Sign(b, bs), bs)

Exact(t) == /\ Answered(reply[t], ph[t], basis[t], load.pulls[t].bs)
            /\ ph[t] = "verify" => got[t] = sent[t]

Data ==
  /\ local \in [Pull -> File] /\ remote \in [Pull -> File] /\ basis \in [Pull -> File]
  /\ Family(got) /\ Family(sent)
  /\ \A t \in Pull : Exact(t)

LEMMA DataStep ==
  ASSUME IInv, Data, load' = load, NEW t \in Pull,
         local' \in [Pull -> File], remote' \in [Pull -> File], basis' \in [Pull -> File],
         Family(got'), Family(sent'), Exact(t)',
         \A u \in Pull \ {t} : /\ ph'[u] = ph[u] /\ basis'[u] = basis[u]
                               /\ reply'[u] = reply[u]
                               /\ got'[u] = got[u] /\ sent'[u] = sent[u]
  PROVE  Data'
<1>1. Pull' = Pull
  BY DEF Pull
<1>2. ASSUME NEW u \in Pull PROVE Exact(u)'
  <2>1. CASE u = t
    BY <2>1
  <2>2. CASE u # t
    <3>1. Exact(u)
      BY DEF Data
    <3> QED
      BY <2>2, <3>1, Zenon DEF Exact
  <2> QED
    BY <2>1, <2>2
<1> QED
  BY <1>1, <1>2, Zenon DEF Data, Family

LEMMA DataStays ==
  ASSUME IInv, Data, UNCHANGED <<load, ph, basis, reply, got, sent>>,
         local' \in [Pull -> File], remote' \in [Pull -> File]
  PROVE  Data'
<1>1. Pull' = Pull
  BY DEF Pull
<1>2. ASSUME NEW u \in Pull PROVE Exact(u)'
  BY Zenon DEF Data, Exact
<1> QED
  BY <1>1, <1>2, Zenon DEF Data, Family

(* The puller's steps.                                                     *)
LEMMA DataOpen ==
  ASSUME IInv, Data, NEW t \in Pull, Open(t) PROVE Data'
<1>1. /\ ph \in [Pull -> Phase] /\ basis \in [Pull -> File] /\ local \in [Pull -> File]
      /\ Exact(t)
  BY DEF IInv, TypeOK, Data
<1>2. reply[t].type = "none"
  BY <1>1 DEF Open, Exact, Answered, IInv, TypeOK
<1>3. \E p \in Phase \ {"verify"} : ph' = [ph EXCEPT ![t] = p]
  <2>1. ph' = ph \/ \E p \in {"cancelled", "request"} : ph' = [ph EXCEPT ![t] = p]
    BY DEF Open, Go
  <2>2. ph' = ph => ph' = [ph EXCEPT ![t] = "open"]
    BY <1>1 DEF Open
  <2> QED
    BY <2>1, <2>2 DEF Phase
<1>4. basis' = basis \/ basis' = [basis EXCEPT ![t] = local[t]]
  BY DEF Open
<1>5. basis' \in [Pull -> File] /\ \A u \in Pull \ {t} : basis'[u] = basis[u]
  BY <1>1, <1>4
<1>6. UNCHANGED <<load, got, sent, reply, local, remote>>
  BY DEF Open, fileVars
<1>7. ph'[t] # "verify" /\ \A u \in Pull \ {t} : ph'[u] = ph[u]
  BY <1>1, <1>3
<1>8. Exact(t)'
  BY <1>2, <1>6, <1>7 DEF Exact, Answered
<1> QED
  BY <1>1, <1>5, <1>6, <1>7, <1>8, DataStep DEF Data, Family

(* Steps that leave "verify" aside and clear the answer, or send nothing.  *)
LEMMA DataMoves ==
  ASSUME IInv, Data, NEW t \in Pull, NEW p \in Phase \ {"verify"}, Go(t, p),
         UNCHANGED <<load, basis, local, remote>>,
         reply' = [reply EXCEPT ![t] = None] \/ (reply' = reply /\ ph[t] # "wait"),
         \/ UNCHANGED <<got, sent>>
         \/ got' = [got EXCEPT ![t] = NoFile] /\ sent' = [sent EXCEPT ![t] = NoFile]
  PROVE  Data'
<1>1. /\ ph \in [Pull -> Phase] /\ Family(reply) /\ Family(got) /\ Family(sent) /\ Exact(t)
      /\ reply[t].type \in {"none", "error", "file_data", "delta"}
      /\ local \in [Pull -> File] /\ remote \in [Pull -> File] /\ basis \in [Pull -> File]
  BY DEF IInv, TypeOK, Data
<1>2. reply'[t].type = "none" /\ \A u \in Pull \ {t} : reply'[u] = reply[u]
  <2>1. CASE reply' = [reply EXCEPT ![t] = None]
    BY <1>1, <2>1 DEF Family, None
  <2>2. CASE reply' = reply /\ ph[t] # "wait"
    BY <1>1, <2>2 DEF Exact, Answered
  <2> QED
    BY <2>1, <2>2
<1>3. ph'[t] = p /\ \A u \in Pull \ {t} : ph'[u] = ph[u]
  BY <1>1 DEF Go
<1>4. Family(got') /\ Family(sent') /\ \A u \in Pull \ {t} : got'[u] = got[u] /\ sent'[u] = sent[u]
  BY <1>1 DEF Family
<1>5. Exact(t)'
  BY <1>2, <1>3 DEF Exact, Answered
<1> QED
  BY <1>1, <1>2, <1>3, <1>4, <1>5, DataStep

LEMMA DataReceive ==
  ASSUME IInv, Data, NEW t \in Pull, ReceiveData(t) PROVE Data'
<1> DEFINE bs == load.pulls[t].bs
           data == IF reply[t].type = "delta" THEN Rebuilt(t) ELSE reply[t].data
<1>1. /\ ph \in [Pull -> Phase] /\ Family(reply) /\ Family(got) /\ Family(sent) /\ Exact(t)
      /\ local \in [Pull -> File] /\ remote \in [Pull -> File] /\ basis \in [Pull -> File]
  BY DEF IInv, TypeOK, Data
<1>2. /\ data # Failed /\ got' = [got EXCEPT ![t] = data]
      /\ sent' = [sent EXCEPT ![t] = reply[t].data]
      /\ ph' = [ph EXCEPT ![t] = "verify"] /\ reply' = [reply EXCEPT ![t] = None]
      /\ UNCHANGED <<load, basis, local, remote>>
  BY Zenon DEF ReceiveData, Received, Go, fileVars
<1>3. bs \in Nat \ {0}
  BY WorkloadAssumption DEF IInv, Pull
<1>4. data = reply[t].data
  <2>1. CASE reply[t].type # "delta"
    BY <2>1
  <2>2. CASE reply[t].type = "delta"
    <3> DEFINE d == reply[t].delta
               b == basis[t]
               x == reply[t].data
    <3>1. x \in Seq(Nat) /\ b \in Seq(Nat) /\ d = Encode(x, Sign(b, bs), bs)
      BY <1>1, <2>2, Zenon DEF Exact, Answered
    <3>2. data = Apply(b, d)
      BY <1>2, <2>2, Zenon DEF Rebuilt, UnmarshalDelta
    <3>3. Apply(b, d) = IF Len(x) > MaxOutput THEN Failed ELSE x
      <4> HIDE DEF d, b, x, bs
      <4> QED
        BY <1>3, <3>1, RoundTrip, Zenon
    <3> QED
      BY <1>2, <3>2, <3>3, Zenon
  <2> QED
    BY <2>1, <2>2
<1> HIDE DEF data
<1>5. /\ reply'[t] = None /\ ph'[t] = "verify" /\ got'[t] = data /\ sent'[t] = reply[t].data
      /\ \A u \in Pull \ {t} : /\ ph'[u] = ph[u] /\ reply'[u] = reply[u]
                               /\ got'[u] = got[u] /\ sent'[u] = sent[u]
      /\ Family(got') /\ Family(sent')
  BY <1>1, <1>2, Zenon DEF Family
<1>6. Exact(t)'
  BY <1>4, <1>5 DEF Exact, Answered, None
<1> QED
  BY <1>1, <1>2, <1>5, <1>6, DataStep, Zenon

(* The peer's steps.                                                       *)
LEMMA DataAnswer ==
  ASSUME IInv, Data, NEW t \in Pull, UNCHANGED <<load, ph, basis, got, sent, local, remote>>,
         NEW msg, msg.type = "delta" => Answered(msg, "wait", basis[t], load.pulls[t].bs),
         reply' = reply \/ (ph[t] = "wait" /\ reply' = [reply EXCEPT ![t] = msg])
  PROVE  Data'
<1>1. /\ Family(reply) /\ Family(got) /\ Family(sent) /\ Exact(t)
      /\ local \in [Pull -> File] /\ remote \in [Pull -> File] /\ basis \in [Pull -> File]
  BY DEF IInv, Data
<1>2. CASE reply' = reply
  BY <1>1, <1>2, DataStays
<1>3. CASE ph[t] = "wait" /\ reply' = [reply EXCEPT ![t] = msg]
  <2>1. reply'[t] = msg /\ \A u \in Pull \ {t} : reply'[u] = reply[u]
    BY <1>1, <1>3 DEF Family
  <2>2. Exact(t)'
    BY <1>3, <2>1 DEF Exact, Answered
  <2> QED
    BY <1>1, <2>1, <2>2, DataStep DEF Family
<1> QED
  BY <1>2, <1>3

LEMMA DataServe ==
  ASSUME IInv, Data, NEW t \in Pull, NEW h \in How, ServeStep(t, h) PROVE Data'
<1>1. UNCHANGED <<load, ph, basis, got, sent, local, remote>>
  BY DEF ServeStep, AcquireServe, ServerBusy, serveEntry, serveFile, ReleaseServe,
         handlerUnchanged, pullVars, fileVars
<1> DEFINE full == [type |-> "file_data", data |-> remote[t]]
<1>2. \E msg \in {Error, full} :
        reply' = reply \/ (ph[t] = "wait" /\ reply' = [reply EXCEPT ![t] = msg])
  BY Zenon DEF ServeStep, AcquireServe, ServerBusy, serveEntry, serveFile, ReleaseServe, Answer
<1>3. Error.type # "delta" /\ full.type # "delta"
  BY DEF Error
<1> HIDE DEF full
<1> QED
  BY <1>1, <1>2, <1>3, DataAnswer

LEMMA DataDelta ==
  ASSUME IInv, Data, NEW t \in Pull, serveDelta(t) PROVE Data'
<1> DEFINE bs == load.pulls[t].bs
           d == Encode(remote[t], Sign(basis[t], bs), bs)
           msg == [type |-> "delta", delta |-> d, data |-> remote[t]]
<1>1. UNCHANGED <<load, ph, basis, got, sent, local, remote>>
  BY DEF serveDelta, handlerUnchanged, pullVars, fileVars
<1>2. \/ Answer(t, "delta", Error)
      \/ Answer(t, "delta", msg) /\ remote[t] # NoFile
  BY DEF serveDelta
<1>3. CASE reply' = reply
  BY <1>1, <1>3, DataStays DEF Data
<1>4. CASE reply' # reply /\ Answer(t, "delta", Error)
  <2>1. Error.type # "delta"
    BY DEF Error
  <2> QED
    BY <1>1, <1>4, <2>1, DataAnswer DEF Answer
<1>5. CASE reply' # reply /\ Answer(t, "delta", msg) /\ remote[t] # NoFile
  <2>1. ph[t] = "wait" /\ how[t] = "delta" /\ reply' = [reply EXCEPT ![t] = msg]
    BY <1>5 DEF Answer
  <2>2. remote[t] \in Seq(Nat)
    BY <1>5 DEF Data, File
  <2>3. basis[t] \in Seq(Nat)
    <3>1. basis[t] # NoFile
      BY <2>1 DEF IInv, TypeOK
    <3> QED
      BY <3>1 DEF Data, File
  <2> HIDE DEF d
  <2>4. msg.type = "delta" /\ msg.delta = d /\ msg.data = remote[t]
    OBVIOUS
  <2> HIDE DEF msg
  <2>5. Answered(msg, "wait", basis[t], bs)
    BY <2>2, <2>3, <2>4, Zenon DEF Answered, d
  <2> QED
    BY <1>1, <2>1, <2>5, DataAnswer, Zenon
<1> QED
  BY <1>2, <1>3, <1>4, <1>5

LEMMA NextData ==
  ASSUME IInv, Data, [Next]_vars
  PROVE  Data'
<1>1. /\ local \in [Pull -> File] /\ remote \in [Pull -> File]
      /\ ph \in [Pull -> Phase] /\ load \in Workload
  BY DEF Data, IInv, TypeOK
<1>2. ASSUME NEW t \in Pull, PullStep(t) PROVE Data'
  <2>1. CASE Request(t) \/ RequestFails(t)
    <3>1. \E p \in {"aborted", "wait", "cancelled"} : Go(t, p)
      BY <2>1 DEF Request, RequestFails
    <3>2. ph[t] # "wait" /\ UNCHANGED <<load, basis, local, remote, reply, got, sent>>
      BY <2>1 DEF Request, RequestFails, fileVars
    <3> QED
      BY <3>1, <3>2, DataMoves DEF Phase
  <2>2. CASE ReceiveError(t)
    <3>1. \E p \in {"open", "failed"} : Go(t, p)
      BY <2>2 DEF ReceiveError
    <3>2. /\ UNCHANGED <<load, basis, local, remote, got, sent>>
          /\ reply' = [reply EXCEPT ![t] = None]
      BY <2>2 DEF ReceiveError, Received, fileVars
    <3> QED
      BY <3>1, <3>2, DataMoves, Zenon DEF Phase
  <2>3. CASE PeerLost(t)
    <3>1. /\ Go(t, "aborted") /\ UNCHANGED <<load, basis, local, remote, got, sent>>
          /\ reply' = [reply EXCEPT ![t] = None]
      BY <2>3 DEF PeerLost, StreamEnds, fileVars
    <3> QED
      BY <3>1, DataMoves, Zenon DEF Phase
  <2>4. CASE Verify(t)
    <3>1. \E p \in {"open", "failed", "ok"} : Go(t, p)
      BY <2>4, Zenon DEF Verify
    <3>2. /\ UNCHANGED <<load, basis, local, remote, reply>> /\ ph[t] # "wait"
          /\ got' = [got EXCEPT ![t] = NoFile] /\ sent' = [sent EXCEPT ![t] = NoFile]
      BY <2>4 DEF Verify, fileVars
    <3> QED
      BY <3>1, <3>2, DataMoves, Zenon DEF Phase
  <2> QED
    BY <1>2, <2>1, <2>2, <2>3, <2>4, DataOpen, DataReceive, Zenon DEF PullStep
<1>3. ASSUME NEW t \in Pull, BreakStream(t) PROVE Data'
  <2>1. /\ Go(t, "aborted") /\ UNCHANGED <<load, basis, local, remote, got, sent>>
        /\ reply' = [reply EXCEPT ![t] = None]
    BY <1>3 DEF BreakStream, StreamEnds, fileVars
  <2> QED
    BY <2>1, DataMoves, Zenon DEF Phase
<1>4. ASSUME NEW t \in Pull, EditLocal(t) \/ EditRemote(t) PROVE Data'
  <2>1. load.contents \subseteq File
    BY <1>1, WorkloadAssumption
  <2>2. UNCHANGED <<load, ph, basis, reply, got, sent>>
    BY <1>4 DEF EditLocal, EditRemote, pullVars, worldUnchanged
  <2>3. \E data \in load.contents :
          \/ local' = [local EXCEPT ![t] = data] /\ remote' = remote
          \/ remote' = [remote EXCEPT ![t] = data] /\ local' = local
    BY <1>4 DEF EditLocal, EditRemote
  <2>4. local' \in [Pull -> File] /\ remote' \in [Pull -> File]
    BY <1>1, <2>1, <2>3
  <2> QED
    BY <2>2, <2>4, DataStays
<1>5. ASSUME UNCHANGED <<load, ph, basis, reply, got, sent, local, remote>> PROVE Data'
  BY <1>1, <1>5, DataStays
<1>6. ASSUME NEW t \in Pull, ScanRemote(t) PROVE Data'
  BY <1>5, <1>6 DEF ScanRemote, pullVars, worldUnchanged
<1>7. ASSUME NEW n \in Node, Stop(n) PROVE Data'
  BY <1>5, <1>7 DEF Stop, pullVars, fileVars, worldUnchanged
<1>8. CASE UNCHANGED vars
  BY <1>5, <1>8 DEF vars, pullVars, fileVars
<1> QED
  BY <1>2, <1>3, <1>4, <1>6, <1>7, <1>8, DataServe, DataDelta, Zenon DEF Next, Progress

LEMMA InitData == Init => Data
<1> SUFFICES ASSUME Init PROVE Data
  OBVIOUS
<1>1. load \in Workload /\ Pull = DOMAIN load.pulls
  BY DEF Init, Pull
<1>2. \A t \in Pull : load.pulls[t].local \in File /\ load.pulls[t].remote \in File
  BY <1>1, WorkloadAssumption
<1>3. NoFile \in File
  BY DEF File
<1>4. /\ local \in [Pull -> File] /\ remote \in [Pull -> File] /\ basis \in [Pull -> File]
      /\ Family(got) /\ Family(sent)
  BY <1>2, <1>3 DEF Init, Family
<1>5. \A t \in Pull : Exact(t)
  BY DEF Init, Exact, Answered, None
<1> QED
  BY <1>4, <1>5 DEF Data

LEMMA DataAlways == Spec => [](IInv /\ Data)
<1>1. Init => IInv /\ Data
  BY InitCourse, InitData
<1>2. IInv /\ Data /\ [Next]_vars => (IInv /\ Data)'
  BY NextCourse, NextData
<1> QED
  BY <1>1, <1>2, PTL DEF Spec

-----------------------------------------------------------------------------
(* Pulls, handlers and semaphores keep their types: in particular neither  *)
(* semaphore ever holds more than PullStreamConcurrency.                   *)
THEOREM TypeCorrect == Spec => []TypeOK
<1>1. IInv => TypeOK
  BY DEF IInv
<1> QED  BY <1>1, InvAlways, PTL

(* For any number of pulls and slots, each semaphore counts exactly the    *)
(* streams and the handlers that hold one of its slots.                    *)
THEOREM SlotsBalance == Spec => []SlotsAccounted
<1>1. IInv => SlotsAccounted
  BY DEF IInv
<1> QED  BY <1>1, InvAlways, PTL

(* A pull gives up the peer's manifest only for a stream that broke, a     *)
(* daemon that stops, or a signature too large to send (errPeerLogical).   *)
THEOREM AbortsHaveCause == Spec => []AbortedForCause
<1>1. IInv => AbortedForCause
  BY DEF IInv
<1> QED  BY <1>1, InvAlways, PTL

(* For all files, block sizes and edits under the transfer, the bytes that *)
(* pullDelta rebuilds or pullFull receives are those the peer has read.    *)
THEOREM PulledIsServed == Spec => []PulledAsServed
<1>1. Data => PulledAsServed
  BY DEF Data, Exact, PulledAsServed
<1> QED  BY <1>1, DataAlways, PTL

(* For all files and block sizes, every delta on a stream has the          *)
(* operations of the direct search, however the rolling checksums collide. *)
THEOREM DeltasAreGreedy == Spec => []DeltaIsGreedy
<1>1. ASSUME IInv, Data PROVE DeltaIsGreedy
  <2> SUFFICES ASSUME NEW t \in Pull, reply[t].type = "delta"
               PROVE  reply[t].delta.ops = Reference(reply[t].data, basis[t], load.pulls[t].bs)
    BY DEF DeltaIsGreedy
  <2> DEFINE bs == load.pulls[t].bs
             x == reply[t].data
             b == basis[t]
  <2>1. bs \in Nat \ {0}
    BY <1>1, WorkloadAssumption DEF IInv, Pull
  <2>2. x \in Seq(Nat) /\ b \in Seq(Nat) /\ reply[t].delta = Encode(x, Sign(b, bs), bs)
    BY <1>1, Zenon DEF Data, Exact, Answered
  <2> HIDE DEF bs, x, b
  <2>3. Encode(x, Sign(b, bs), bs).ops = Reference(x, b, bs)
    BY <2>1, <2>2, SearchIsGreedy, Zenon
  <2> QED
    BY <2>2, <2>3, Zenon DEF bs, x, b
<1> QED  BY <1>1, DataAlways, PTL

=============================================================================
