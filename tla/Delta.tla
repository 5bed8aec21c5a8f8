-------------------------------- MODULE Delta --------------------------------
(***************************************************************************)
(* The rsync-style delta of internal/delta: block signatures of a basis,   *)
(* the search for those blocks in a target by a weak rolling checksum, and *)
(* the reconstruction of the target.  A file is a sequence of bytes.  A    *)
(* strong checksum (MD5) is taken to identify a block and is modelled by   *)
(* the block itself; the weak one keeps its arithmetic, modulo a constant  *)
(* that is 2^16 in the code.  Positions are the code's, counted from 0;    *)
(* block indices are counted from 1.                                       *)
(***************************************************************************)
EXTENDS Integers, Sequences

CONSTANTS
  Modulus,        \* of the halves of the weak checksum
  MaxOps,         \* MaxDecodeOps
  MaxOutput,      \* MaxOutputSize
  Failed          \* the result of Apply and UnmarshalDelta on an error

ASSUME DeltaAssumption ==
  Modulus \in Nat \ {0} /\ MaxOps \in Nat /\ MaxOutput \in Nat

Slice(data, from, to) == SubSeq(data, from + 1, to)

(* The sums a and bb of weakChecksum over the first k bytes of b.          *)
SumA(b) == LET a[k \in 0..Len(b)] == IF k = 0 THEN 0 ELSE a[k - 1] + b[k] IN a
SumB(b) == LET bb[k \in 0..Len(b)] == IF k = 0 THEN 0 ELSE bb[k - 1] + SumA(b)[k] IN bb

(* The two halves of weakChecksum, <<a, bb>>.  The sums wrap at 2^32, a    *)
(* multiple of the modulus, which makes no difference to the halves.       *)
weakChecksum(b) == <<SumA(b)[Len(b)] % Modulus, SumB(b)[Len(b)] % Modulus>>

(* Fault: the byte that leaves is taken from the second half only once.    *)
rollUnweighted(sum, out, in, n) ==
  LET a == (sum[1] - out + in) % Modulus
  IN <<a, (sum[2] - out + a) % Modulus>>

(* The window of n bytes slides by one: out leaves it and in enters it.    *)
roll(sum, out, in, n) ==
  LET a == (sum[1] - out + in) % Modulus
  IN <<a, (sum[2] - n * out + a) % Modulus>>

(* Bytes [start, end) of the basis that a copy of block bi stands for.     *)
Block(basis, bs, bi) ==
  LET start == (bi - 1) * bs
      end == start + bs
  IN Slice(basis, start, IF end < Len(basis) THEN end ELSE Len(basis))

BlockCount(basis, bs) == (Len(basis) + bs - 1) \div bs

Sign(basis, bs) ==
  [bi \in 1..BlockCount(basis, bs) |->
     [weak |-> weakChecksum(Block(basis, bs, bi)), strong |-> Block(basis, bs, bi)]]

Literal(data) == [kind |-> "literal", data |-> data]
Copy(bi) == [kind |-> "copy", block |-> bi]

First(S) == CHOOSE i \in S : \A j \in S : i <= j

(* The blocks whose weak checksum is the given one and whose strong one is *)
(* that of data: weakMap, and the comparison of the candidates.            *)
Matches(sig, weak, data) ==
  {bi \in DOMAIN sig : sig[bi].weak = weak /\ sig[bi].strong = data}

flushLit(lit) == IF lit = <<>> THEN <<>> ELSE <<Literal(lit)>>

(* The loops of Encode: the position i, the bytes still to flush, and the  *)
(* operations so far.  sum is the rolling checksum of the window at i in   *)
(* the inner loop, and <<>> in the outer one.                              *)
Start == [i |-> 0, sum |-> <<>>, lit |-> <<>>, ops |-> <<>>]

Copied(s, found, i) ==
  [i |-> i, sum |-> <<>>, lit |-> <<>>,
   ops |-> Append(s.ops \o flushLit(s.lit), Copy(First(found)))]

(* No full block fits: what is left is one copy or all literal.            *)
Remainder(target, sig, s) ==
  LET n == Len(target)
      rest == Slice(target, s.i, n)
      whole == Matches(sig, weakChecksum(rest), rest)
  IN IF whole # {} THEN Copied(s, whole, n)
     ELSE [s EXCEPT !.i = n, !.sum = <<>>, !.lit = @ \o rest]

(* A window without a match: the byte at its start is literal.             *)
Slide(s, target, sum) ==
  [s EXCEPT !.i = @ + 1, !.sum = sum, !.lit = Append(@, target[s.i + 1])]

(* One turn of either loop; nothing is left to do at the end of target.    *)
Turn(target, sig, bs, s) ==
  LET n == Len(target)
      inner == s.sum # <<>>
      window(i) == Slice(target, i, i + bs)
      weak(i) == IF i + bs <= n THEN weakChecksum(window(i)) ELSE <<>>
      found == Matches(sig, IF inner THEN s.sum ELSE weak(s.i), window(s.i))
  IN IF s.i = n THEN s
     ELSE IF s.i + bs > n THEN Remainder(target, sig, s)
     ELSE IF found # {} THEN Copied(s, found, s.i + bs)
     ELSE IF ~inner THEN Slide(s, target, weak(s.i + 1))
     ELSE IF s.i + bs = n THEN [s EXCEPT !.sum = <<>>]
     ELSE Slide(s, target, roll(s.sum, target[s.i + 1], target[s.i + bs + 1], bs))

Op == [kind: {"literal"}, data: Seq(Nat)] \cup [kind: {"copy"}, block: Nat]

LoopState(target) ==
  [i: 0..Len(target), lit: Seq(Nat), ops: Seq(Op),
   sum: {<<>>} \cup ((0..Modulus - 1) \X (0..Modulus - 1))]

(* The state after k turns; no position takes more than two.               *)
Turns(target, sig, bs) ==
  LET next == [s \in LoopState(target) |-> Turn(target, sig, bs, s)]
      turn[k \in 0..2 * Len(target)] == IF k = 0 THEN Start ELSE next[turn[k - 1]]
  IN turn

Search(target, sig, bs) ==
  LET end == Turns(target, sig, bs)[2 * Len(target)] IN end.ops \o flushLit(end.lit)

Encode(target, sig, bs) ==
  [bs |-> bs, output |-> Len(target), ops |-> Search(target, sig, bs)]

(* UnmarshalSignature takes a signature of so many blocks.                 *)
UnmarshalSignature(blocks) == blocks <= MaxOps

(* MarshalDelta and UnmarshalDelta, which refuses what is over its limits. *)
UnmarshalDelta(d) ==
  IF Len(d.ops) > MaxOps \/ d.output > MaxOutput THEN Failed ELSE d

(* What an operation appends; a copy may not start beyond the basis.       *)
Output(basis, bs, op) ==
  IF op.kind = "literal" THEN op.data ELSE Block(basis, bs, op.block)
OutOfRange(basis, bs, op) == op.kind = "copy" /\ (op.block - 1) * bs > Len(basis)

(* The output after k operations.                                          *)
Outputs(basis, d) ==
  LET out[k \in 0..Len(d.ops)] ==
        IF k = 0 THEN <<>> ELSE out[k - 1] \o Output(basis, d.bs, d.ops[k])
  IN out

(* The output must have the declared size.  It only grows, so that the     *)
(* check after each operation refuses what the last one would.             *)
Apply(basis, d) ==
  LET out == Outputs(basis, d)[Len(d.ops)]
  IN IF \/ d.output > MaxOutput
        \/ \E k \in DOMAIN d.ops : OutOfRange(basis, d.bs, d.ops[k])
        \/ Len(out) # d.output
     THEN Failed ELSE out

(***************************************************************************)
(* The reference: a search that compares contents and needs no checksum.   *)
(* At each position it copies the first block of the basis with the bytes  *)
(* found there.  Without one it takes all bytes up to the next position    *)
(* that has one as a literal, and those that are too few for a block with  *)
(* them unless they are a block of their own.                              *)
(***************************************************************************)
Reach(target, bs, i) == IF i + bs <= Len(target) THEN i + bs ELSE Len(target)

Hits(target, basis, bs, i) ==
  {bi \in 1..BlockCount(basis, bs) :
     Block(basis, bs, bi) = Slice(target, i, Reach(target, bs, i))}

LiteralEnd(target, basis, bs, i) ==
  First({j \in i + 1..Len(target) :
           \/ j = Len(target)
           \/ j + bs <= Len(target) + 1 /\ Hits(target, basis, bs, j) # {}})

References(target, basis, bs) ==
  LET from[i \in 0..Len(target)] ==
        IF i = Len(target) THEN <<>>
        ELSE IF Hits(target, basis, bs, i) # {}
        THEN <<Copy(First(Hits(target, basis, bs, i)))>> \o from[Reach(target, bs, i)]
        ELSE <<Literal(Slice(target, i, LiteralEnd(target, basis, bs, i)))>>
               \o from[LiteralEnd(target, basis, bs, i)]
  IN from

Reference(target, basis, bs) == References(target, basis, bs)[0]
=============================================================================
