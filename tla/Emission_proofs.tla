--------------------------- MODULE Emission_proofs ---------------------------
(***************************************************************************)
(* What is read from the byte code of any function, and what is written    *)
(* for it, whatever its length, its opcodes and the widths of its          *)
(* operands.                                                               *)
(*                                                                         *)
(* First the decoder is shown to be an inverse of the compiler, one        *)
(* instruction at a time: its literals one by one (Taken), those of each   *)
(* group, its branch offset, line number or byte argument; InsDecoded has  *)
(* it for all of them.  Then a whole function: the parts of a block are    *)
(* found where the header says (Layout), and every instruction stands at   *)
(* the end of the one before it (CodeStands).                              *)
(*                                                                         *)
(* Inv is inductive and says what is recorded until registers are renamed  *)
(* (Reading) and what is written afterwards (Writing).  What the emitter   *)
(* writes for the instructions it handles is what a compiler would have    *)
(* written for them (EmittedIsCompiled), so that all that was shown of the *)
(* compiled code holds of the emitted one as well.                         *)
(***************************************************************************)
EXTENDS Emission, SequenceTheorems, FiniteSetTheorems, WellFoundedInduction, TLAPS

(* A set of numbers has a least element, ... *)
LEMMA LeastExists ==
    ASSUME NEW S \in SUBSET Nat, S # {}
    PROVE  \E m \in S : \A n \in S : m <= n
<1> DEFINE R == OpToRel(<, Nat)
<1>1. IsWellFoundedOn(R, Nat)
  BY NatLessThanWellFounded
<1>2. \A x, y \in Nat : y < x => <<y, x>> \in R
  BY DEF OpToRel
<1> HIDE DEF R
<1>3. PICK m \in S : \A y \in S : ~ (<<y, m>> \in R)
  BY <1>1, WFMin, Zenon
<1>4. \A n \in S : ~ (n < m)
  BY <1>2, <1>3, Zenon
<1>5. QED
  BY <1>4

(* ... so what holds of 0, and of each number after one it holds of, holds *)
(* of all of them: induction, with a set in place of a predicate. *)
LEMMA UpTo ==
    ASSUME NEW n \in Nat, NEW G,
           0 \in G, \A m \in 1..n : m - 1 \in G => m \in G
    PROVE  \A m \in 0..n : m \in G
<1> DEFINE T == { m \in 0..n : m \notin G }
<1>1. SUFFICES ASSUME T # {} PROVE FALSE
  OBVIOUS
<1>2. PICK m \in T : \A l \in T : m <= l
  <2>1. T \in SUBSET Nat
    OBVIOUS
  <2> HIDE DEF T
  <2>2. QED
    BY <1>1, <2>1, LeastExists
<1>3. m \in 1..n /\ m - 1 \in 0..n
  BY <1>2
<1>4. m - 1 \in G
  BY <1>2, <1>3
<1>5. QED
  BY <1>2, <1>3, <1>4

-----------------------------------------------------------------------------
(* What Joined yields for parts, each a sequence over S. *)
JoinedIsThat(S, parts) ==
    /\ Joined(parts, 0) = <<>>
    /\ \A k \in 1..Len(parts) : Joined(parts, k) = Joined(parts, k - 1) \o parts[k]
    /\ \A k \in 0..Len(parts) : Joined(parts, k) \in Seq(S)

(* The recursion of Joined has a solution, ... *)
LEMMA JoinedExists ==
    ASSUME NEW S, NEW parts \in Seq(Seq(S))
    PROVE  \E h \in [0..Len(parts) -> Seq(S)] :
              h[0] = <<>> /\ \A k \in 1..Len(parts) : h[k] = h[k - 1] \o parts[k]
<1> DEFINE n == Len(parts)
<1>0. n \in Nat /\ \A k \in 1..n : parts[k] \in Seq(S)
  OBVIOUS
<1> HIDE DEF n
<1> DEFINE Fits(h, m) == h[0] = <<>> /\ \A k \in 1..m : h[k] = h[k - 1] \o parts[k]
           G == { m \in 0..n : \E h \in [0..n -> Seq(S)] : Fits(h, m) }
<1>1. 0 \in G
  <2> DEFINE h == [k \in 0..n |-> <<>>]
  <2>1. h \in [0..n -> Seq(S)] /\ h[0] = <<>>
    BY <1>0
  <2> HIDE DEF h
  <2>2. Fits(h, 0)
    BY <2>1
  <2> HIDE DEF Fits
  <2>3. QED
    BY <1>0, <2>1, <2>2
<1>2. ASSUME NEW m \in 1..n, m - 1 \in G PROVE m \in G
  <2>1. PICK h \in [0..n -> Seq(S)] : Fits(h, m - 1)
    BY <1>2
  <2> DEFINE e == [h EXCEPT ![m] = h[m - 1] \o parts[m]]
  <2>2. m \in 0..n /\ m - 1 \in 0..n /\ h[m - 1] \in Seq(S) /\ parts[m] \in Seq(S)
    BY <1>0
  <2>3. h[m - 1] \o parts[m] \in Seq(S)
    BY <2>2
  <2>4. /\ e \in [0..n -> Seq(S)]
        /\ e[m] = h[m - 1] \o parts[m]
        /\ \A k \in 0..n : k # m => e[k] = h[k]
    BY <2>2, <2>3
  <2> HIDE DEF e
  <2>5. e[0] = <<>>
    BY <1>0, <2>1, <2>4
  <2>6. ASSUME NEW k \in 1..m PROVE e[k] = e[k - 1] \o parts[k]
    <3>1. k - 1 \in 0..n /\ k - 1 # m /\ k \in 0..n
      BY <1>0
    <3>2. e[k - 1] = h[k - 1]
      BY <2>4, <3>1
    <3>3. CASE k = m
      BY <2>4, <3>2, <3>3
    <3>4. CASE k # m
      <4>1. k \in 1..(m - 1)
        BY <3>4
      <4>2. h[k] = h[k - 1] \o parts[k]
        BY <2>1, <4>1
      <4>3. QED
        BY <2>4, <3>1, <3>2, <3>4, <4>2
    <3>5. QED
      BY <3>3, <3>4
  <2>7. Fits(e, m)
    BY <2>5, <2>6
  <2> HIDE DEF Fits
  <2>8. QED
    BY <2>2, <2>4, <2>7
<1>3. n \in G
  <2> HIDE DEF G
  <2>1. \A m \in 0..n : m \in G
    BY <1>0, <1>1, <1>2, UpTo
  <2>2. QED
    BY <1>0, <2>1
<1>4. QED
  BY <1>3 DEF n

(* ... which is the only one. *)
LEMMA JoinedUnfolds ==
    ASSUME NEW S, NEW parts \in Seq(Seq(S))
    PROVE  JoinedIsThat(S, parts)
<1> DEFINE n == Len(parts)
<1>0. n \in Nat
  OBVIOUS
<1>1. PICK h \in [0..n -> Seq(S)] :
         h[0] = <<>> /\ \A k \in 1..n : h[k] = h[k - 1] \o parts[k]
  BY JoinedExists
<1> HIDE DEF n
<1>2. ASSUME NEW m \in 0..n PROVE Joined(parts, m) = h[m]
  <2> DEFINE Step(u, k) == IF k = 0 THEN <<>> ELSE u[k - 1] \o parts[k]
             upTo == CHOOSE u : u = [k \in 0..m |-> Step(u, k)]
  <2>1. \E u : u = [k \in 0..m |-> Step(u, k)]
    <3> DEFINE u == [k \in 0..m |-> h[k]]
    <3>1. \A k \in 0..m : u[k] = Step(u, k)
      <4> SUFFICES ASSUME NEW k \in 0..m PROVE h[k] = Step(u, k)
        OBVIOUS
      <4>1. CASE k = 0
        BY <1>1, <4>1
      <4>2. CASE k # 0
        <5>1. k \in 1..n /\ k - 1 \in 0..m
          BY <1>0, <4>2
        <5>2. u[k - 1] = h[k - 1]
          BY <5>1
        <5> HIDE DEF u
        <5>3. QED
          BY <1>1, <4>2, <5>1, <5>2
      <4>3. QED
        BY <4>1, <4>2
    <3>2. u = [k \in 0..m |-> Step(u, k)]
      <4> HIDE DEF Step
      <4>1. u = [k \in 0..m |-> u[k]]
        OBVIOUS
      <4> HIDE DEF u
      <4>2. QED
        BY <3>1, <4>1
    <3> HIDE DEF u
    <3>3. QED
      BY <3>2
  <2>2. upTo = [k \in 0..m |-> Step(upTo, k)]
    <3> HIDE DEF Step
    <3>1. QED
      BY <2>1
  <2>3. Joined(parts, m) = upTo[m]
    BY DEF Joined
  <2> HIDE DEF upTo
  <2> DEFINE G == { k \in 0..m : upTo[k] = h[k] }
  <2>4. 0 \in G
    BY <1>1, <2>2
  <2>5. ASSUME NEW k \in 1..m, k - 1 \in G PROVE k \in G
    <3>1. k \in 0..m /\ k # 0 /\ k \in 1..n
      BY <1>0
    <3>2. upTo[k] = upTo[k - 1] \o parts[k]
      BY <2>2, <3>1
    <3>3. QED
      BY <1>1, <2>5, <3>1, <3>2
  <2>6. m \in G
    <3> HIDE DEF G
    <3>0. m \in Nat
      BY <1>0
    <3>1. \A k \in 0..m : k \in G
      BY <3>0, <2>4, <2>5, UpTo
    <3>2. QED
      BY <3>0, <3>1
  <2>7. QED
    BY <2>3, <2>6
<1>3. 0 \in 0..n /\ \A k \in 1..n : k \in 0..n /\ k - 1 \in 0..n
  BY <1>0
<1>4. Joined(parts, 0) = <<>>
  BY <1>1, <1>2, <1>3
<1>5. \A k \in 1..n : Joined(parts, k) = Joined(parts, k - 1) \o parts[k]
  BY <1>1, <1>2, <1>3
<1>6. \A k \in 0..n : Joined(parts, k) \in Seq(S)
  BY <1>1, <1>2
<1>7. QED
  BY <1>4, <1>5, <1>6 DEF JoinedIsThat, n

-----------------------------------------------------------------------------
(* The cells of the byte code b from position i on begin with those of s. *)
Found(b, i, s) ==
    \A k \in 1..Len(s) : i + k - 1 \in 1..Len(b.cells) /\ b.cells[i + k - 1] = s[k]

(* What is found of two sequences, one behind the other, is found of each; *)
(* ...                                                                     *)
LEMMA FoundApart ==
    ASSUME NEW S, NEW b, NEW i \in Nat, NEW s \in Seq(S), NEW t \in Seq(S), Found(b, i, s \o t)
    PROVE  Found(b, i, s) /\ Found(b, i + Len(s), t)
<1>1. /\ Len(s \o t) = Len(s) + Len(t)
      /\ \A k \in 1..Len(s) : k \in 1..Len(s \o t) /\ (s \o t)[k] = s[k]
      /\ \A k \in 1..Len(t) : Len(s) + k \in 1..Len(s \o t) /\ (s \o t)[Len(s) + k] = t[k]
  OBVIOUS
<1>2. Found(b, i, s)
  BY <1>1 DEF Found
<1>3. ASSUME NEW k \in 1..Len(t)
      PROVE  /\ i + Len(s) + k - 1 \in 1..Len(b.cells)
             /\ b.cells[i + Len(s) + k - 1] = t[k]
  <2>1. i + (Len(s) + k) - 1 = i + Len(s) + k - 1
    OBVIOUS
  <2>2. QED
    BY <1>1, <2>1 DEF Found
<1>4. QED
  BY <1>2, <1>3 DEF Found

(* ... and so is what is found of many.                                    *)
LEMMA FoundInJoined ==
    ASSUME NEW S, NEW b, NEW i \in Nat, NEW parts \in Seq(Seq(S)),
           Found(b, i, Joined(parts, Len(parts)))
    PROVE  \A k \in 1..Len(parts) : Found(b, i + Len(Joined(parts, k - 1)), parts[k])
<1> DEFINE n == Len(parts)
<1>0. n \in Nat /\ \A k \in 1..n : parts[k] \in Seq(S)
  OBVIOUS
<1> DEFINE J(k) == Joined(parts, k)
           G == { k \in 0..n : Found(b, i, J(n - k)) }
<1>1. JoinedIsThat(S, parts)
  BY JoinedUnfolds
<1> HIDE DEF n
<1>2. ASSUME NEW k \in 1..n PROVE J(k) = J(k - 1) \o parts[k] /\ J(k - 1) \in Seq(S)
  <2>1. k - 1 \in 0..n
    BY <1>0
  <2>2. QED
    BY <1>1, <2>1 DEF JoinedIsThat, n
<1>3. 0 \in G
  BY <1>0 DEF n
<1> HIDE DEF J
<1>4. ASSUME NEW k \in 1..n, k - 1 \in G PROVE k \in G
  <2>1. n - (k - 1) \in 1..n /\ n - (k - 1) - 1 = n - k /\ k \in 0..n
    BY <1>0
  <2>2. J(n - (k - 1)) = J(n - k) \o parts[n - (k - 1)] /\ J(n - k) \in Seq(S)
    BY <1>2, <2>1
  <2>3. parts[n - (k - 1)] \in Seq(S)
    BY <1>0, <2>1
  <2>4. Found(b, i, J(n - (k - 1)))
    BY <1>4
  <2> DEFINE s == J(n - k)
             t == parts[n - (k - 1)]
  <2>5. s \in Seq(S) /\ t \in Seq(S) /\ Found(b, i, s \o t)
    BY <2>2, <2>3, <2>4
  <2> HIDE DEF s, t
  <2>6. Found(b, i, s)
    BY <2>5, FoundApart
  <2>7. Found(b, i, J(n - k))
    BY <2>6 DEF s
  <2>8. QED
    BY <2>1, <2>7
<1> HIDE DEF G
<1>5. \A k \in 0..n : k \in G
  BY <1>0, <1>3, <1>4, UpTo
<1>6. ASSUME NEW k \in 1..n PROVE Found(b, i + Len(J(k - 1)), parts[k])
  <2>1. n - k \in 0..n /\ n - (n - k) = k
    BY <1>0
  <2>2. Found(b, i, J(k))
    BY <1>5, <2>1 DEF G
  <2>3. J(k) = J(k - 1) \o parts[k] /\ J(k - 1) \in Seq(S) /\ parts[k] \in Seq(S)
    BY <1>0, <1>2
  <2>4. QED
    BY <2>2, <2>3, FoundApart
<1>7. QED
  BY <1>6 DEF J, n

Encodings == {SmallEncoding, FullEncoding}

(* The ranges of literal indices and of bytes by their bounds, for provers *)
(* that would list them.                                                   *)
LEMMA LiteralIndices == \A x : x \in LiteralIndex <=> x \in Nat /\ x <= 32767
<1> DEFINE top == 32767
<1>1. LiteralIndex = 0..top
  BY DEF LiteralIndex
<1>2. top \in Nat
  OBVIOUS
<1>3. top <= 32767 /\ 32767 <= top
  OBVIOUS
<1> HIDE DEF top
<1>4. \A x : x \in 0..top <=> x \in Nat /\ x <= top
  BY <1>2
<1>5. \A x \in Nat : x <= top <=> x <= 32767
  BY <1>2, <1>3
<1>6. QED
  BY <1>1, <1>4, <1>5

(* Bytes by their bounds, for provers that would list them.                *)
LEMMA Bytes == \A x : x \in Byte <=> x \in Nat /\ x <= 255
<1> DEFINE top == 255
<1>1. Byte = 0..top
  BY DEF Byte
<1>2. top \in Nat
  OBVIOUS
<1>3. top <= 255 /\ 255 <= top
  OBVIOUS
<1> HIDE DEF top
<1>4. \A x : x \in 0..top <=> x \in Nat /\ x <= top
  BY <1>2
<1>5. \A x \in Nat : x <= top <=> x <= 255
  BY <1>2, <1>3
<1>6. QED
  BY <1>1, <1>4, <1>5

(* The two encodings have the numbers that decoding relies on.             *)
LEMMA Limits ==
    ASSUME NEW enc \in Encodings
    PROVE  /\ enc.limit \in {128, 255} /\ enc.limit <= enc.reach + 1
           /\ enc.reach \in Nat /\ enc.reach <= 32767
           /\ \A x \in 0..enc.reach : x \in LiteralIndex
<1>1. /\ enc.limit \in {128, 255} /\ enc.limit <= enc.reach + 1
      /\ enc.reach \in Nat /\ enc.reach <= 32767
  BY DEF Encodings, SmallEncoding, FullEncoding
<1>2. \A x \in 0..enc.reach : x \in Nat /\ x <= 32767
  BY <1>1
<1>3. QED
  BY <1>1, <1>2, LiteralIndices

(* A literal of two cells. *)
LEMMA SplitLiteral ==
    ASSUME NEW enc \in Encodings, NEW x \in 0..enc.reach, x >= enc.limit
    PROVE  LET h == (x + enc.delta) \div 256
               l == (x + enc.delta) % 256
           IN  /\ h \in Byte /\ h >= enc.limit /\ l \in Byte
               /\ (h * 256 + l - enc.delta) % 65536 = x
<1>1. CASE enc = FullEncoding
  <2>1. x \in Nat /\ 128 <= x /\ x <= 32767 /\ enc.delta = 32768 /\ enc.limit = 128
    BY <1>1 DEF FullEncoding
  <2> DEFINE h == (x + 32768) \div 256
             l == (x + 32768) % 256
  <2>2. h \in Nat /\ 128 <= h /\ h <= 255 /\ l \in Nat /\ l <= 255
    BY <2>1
  <2>3. h * 256 + l = x + 32768
    BY <2>1
  <2>4. x % 65536 = x
    BY <2>1
  <2>5. QED
    BY <2>1, <2>2, <2>3, <2>4, Bytes
<1>2. CASE enc = SmallEncoding
  <2>1. x \in Nat /\ 255 <= x /\ x <= 510 /\ enc.delta = 65025 /\ enc.limit = 255
    BY <1>2 DEF SmallEncoding
  <2> DEFINE h == (x + 65025) \div 256
             l == (x + 65025) % 256
  <2>2. h = 255 /\ l \in Nat /\ l <= 255
    BY <2>1
  <2>3. h * 256 + l = x + 65025
    BY <2>1
  <2>4. x % 65536 = x
    BY <2>1
  <2>5. QED
    BY <2>1, <2>2, <2>3, <2>4, Bytes
<1>3. QED
  BY <1>1, <1>2 DEF Encodings

(* Literals: what the compiler writes is what the decoder reads. *)
LEMMA LiteralCells ==
    ASSUME NEW enc \in Encodings, NEW x \in 0..enc.reach
    PROVE  CompileLiteral(enc, x) \in Seq(Byte) /\ CompileLiteral(enc, x) # <<>>
<1>1. x \in Nat /\ enc.limit \in {128, 255}
  BY Limits
<1>2. CASE x < enc.limit
  <2>1. CompileLiteral(enc, x) = <<x>> /\ x <= 255
    BY <1>1, <1>2 DEF CompileLiteral
  <2>2. x \in Byte
    BY <1>1, <2>1, Bytes
  <2>3. QED
    BY <2>1, <2>2
<1>3. CASE x >= enc.limit
  <2> DEFINE h == (x + enc.delta) \div 256
             l == (x + enc.delta) % 256
  <2>1. CompileLiteral(enc, x) = <<h, l>>
    BY <1>1, <1>3 DEF CompileLiteral
  <2>2. h \in Byte /\ l \in Byte
    BY <1>3, SplitLiteral
  <2> HIDE DEF h, l
  <2>3. QED
    BY <2>1, <2>2
<1>4. QED
  BY <1>1, <1>2, <1>3

(* A literal is decoded as what it was compiled from, and the cursor is    *)
(* left behind it.                                                         *)
LEMMA LiteralDecodes ==
    ASSUME NEW b, b.enc \in Encodings, NEW i \in Nat, NEW x \in 0..b.enc.reach,
           Found(b, i, CompileLiteral(b.enc, x))
    PROVE  DecodeLiteralIndex(b, i) =
              [value |-> x, next |-> i + Len(CompileLiteral(b.enc, x))]
<1> DEFINE s == CompileLiteral(b.enc, x)
<1>1. /\ Len(s) >= 1 => b.cells[i] = s[1]
      /\ Len(s) >= 2 => b.cells[i + 1] = s[2]
  <2>1. Len(s) \in Nat
    BY LiteralCells
  <2>2. i + 1 - 1 = i /\ i + 2 - 1 = i + 1
    OBVIOUS
  <2>3. QED
    BY <2>1, <2>2 DEF Found
<1>2. x \in Nat /\ b.enc.limit \in Nat
  BY Limits
<1>3. CASE x < b.enc.limit
  <2>1. s = <<x>>
    BY <1>3 DEF CompileLiteral
  <2>2. b.cells[i] = x /\ Len(s) = 1
    BY <1>1, <2>1
  <2>3. QED
    BY <1>2, <1>3, <2>2 DEF DecodeLiteralIndex
<1>4. CASE ~ (x < b.enc.limit)
  <2> DEFINE h == (x + b.enc.delta) \div 256
             l == (x + b.enc.delta) % 256
  <2>1. s = <<h, l>>
    BY <1>4 DEF CompileLiteral
  <2>2. h \in Byte /\ h >= b.enc.limit /\ (h * 256 + l - b.enc.delta) % 65536 = x
    BY <1>2, <1>4, SplitLiteral
  <2> HIDE DEF h, l
  <2>3. b.cells[i] = h /\ b.cells[i + 1] = l /\ Len(s) = 2
    BY <1>1, <2>1
  <2>4. QED
    BY <2>2, <2>3 DEF DecodeLiteralIndex
<1>5. QED
  BY <1>3, <1>4

-----------------------------------------------------------------------------
(* A decoding under way; and one that has recorded as read the registers   *)
(* among its literals, and as written none but one of them.                *)
Decoding ==
    [op : 1..Len(Ops), lits : Seq(LiteralIndex), reads : SUBSET LiteralIndex,
     write : LiteralIndex \cup {NoReg}, arg : Int, offset : Nat, index : Nat, next : Nat]

RegistersIn(registerEnd, lits) ==
    { lits[i] : i \in { j \in 1..Len(lits) : lits[j] < registerEnd } }

Sound(b, d) ==
    /\ d \in Decoding
    /\ d.reads = RegistersIn(b.registerEnd, d.lits)
    /\ d.write \in d.reads \cup {NoReg}

IsCode(b) == b.enc \in Encodings /\ b.registerEnd \in Nat

(* e is d with lits recorded behind its literals, write as written, and    *)
(* the cursor at next. *)
After(b, d, e, lits, write, next) ==
    /\ Sound(b, e)
    /\ e.op = d.op /\ e.offset = d.offset /\ e.arg = d.arg
    /\ e.lits = d.lits \o lits /\ e.write = write /\ e.next = next

(* The registers among the literals, when one more is recorded.            *)
LEMMA RegistersAppend ==
    ASSUME NEW registerEnd, NEW lits \in Seq(LiteralIndex), NEW x \in LiteralIndex
    PROVE  RegistersIn(registerEnd, Append(lits, x)) =
              IF x < registerEnd THEN RegistersIn(registerEnd, lits) \cup {x}
              ELSE RegistersIn(registerEnd, lits)
<1> DEFINE s == Append(lits, x)
           n == Len(lits)
<1>1. n \in Nat /\ Len(s) = n + 1 /\ s[n + 1] = x /\ \A i \in 1..n : s[i] = lits[i]
  OBVIOUS
<1>2. \A i \in 1..(n + 1) : i \in 1..n \/ i = n + 1
  BY <1>1
<1>3. 1..n \subseteq 1..(n + 1) /\ n + 1 \in 1..(n + 1)
  BY <1>1
<1> HIDE DEF s, n
<1>4. \A y \in RegistersIn(registerEnd, s) :
         y \in RegistersIn(registerEnd, lits) \/ (y = x /\ x < registerEnd)
  BY <1>1, <1>2 DEF RegistersIn, n
<1>5. \A y \in RegistersIn(registerEnd, lits) : y \in RegistersIn(registerEnd, s)
  BY <1>1, <1>3 DEF RegistersIn, n
<1>6. x < registerEnd => x \in RegistersIn(registerEnd, s)
  BY <1>1, <1>3 DEF RegistersIn
<1>7. QED
  BY <1>4, <1>5, <1>6 DEF s

(* There are none among no literals.                                       *)
LEMMA NoRegisters ==
    ASSUME NEW registerEnd PROVE RegistersIn(registerEnd, <<>>) = {}
  BY DEF RegistersIn

-----------------------------------------------------------------------------
(* The cursor moves over a literal. *)
LEMMA IndexRead ==
    ASSUME NEW b, IsCode(b), NEW d, Sound(b, d), NEW x \in 0..b.enc.reach,
           Found(b, d.next, CompileLiteral(b.enc, x))
    PROVE  LET n == d.next + Len(CompileLiteral(b.enc, x))
               e == ReadIndex(b, d)
           IN  After(b, d, e, <<>>, d.write, n) /\ e.index = x /\ x \in LiteralIndex
<1> DEFINE n == d.next + Len(CompileLiteral(b.enc, x))
           e == ReadIndex(b, d)
<1>1. d \in Decoding /\ d.next \in Nat /\ d.lits \in Seq(LiteralIndex)
  BY DEF Sound, Decoding
<1>2. n \in Nat /\ x \in Nat /\ x \in LiteralIndex
  <2>1. Len(CompileLiteral(b.enc, x)) \in Nat
    BY LiteralCells DEF IsCode
  <2>2. x \in LiteralIndex
    BY Limits DEF IsCode
  <2>3. n \in Nat
    BY <1>1, <2>1
  <2>4. x \in Nat
    BY <2>2, LiteralIndices
  <2>5. QED
    BY <2>2, <2>3, <2>4
<1>3. DecodeLiteralIndex(b, d.next) = [value |-> x, next |-> n]
  BY <1>1, LiteralDecodes DEF IsCode
<1> HIDE DEF n
<1>4. e = [d EXCEPT !.index = x, !.next = n]
  BY <1>3 DEF ReadIndex
<1>5. /\ e \in Decoding
      /\ e.op = d.op /\ e.offset = d.offset /\ e.arg = d.arg /\ e.lits = d.lits
      /\ e.reads = d.reads /\ e.write = d.write /\ e.next = n /\ e.index = x
  BY <1>1, <1>2, <1>4 DEF Decoding
<1> HIDE DEF e
<1>6. d.lits \o <<>> = d.lits
  BY <1>1
<1>7. QED
  BY <1>2, <1>5, <1>6 DEF After, Sound, n, e

(* What AddLiteral and the other ways to record x make of a decoding. *)
LEMMA LiteralAdded ==
    ASSUME NEW b, IsCode(b), NEW d, Sound(b, d), NEW x \in LiteralIndex
    PROVE  /\ After(b, d, AddLiteral(b, d, x), <<x>>, d.write, d.next)
           /\ x >= b.registerEnd =>
                 After(b, d, [d EXCEPT !.lits = Append(@, x)], <<x>>, d.write, d.next)
           /\ x < b.registerEnd =>
                 /\ After(b, d, SetWriteReg(b, d, x), <<x>>, x, d.next)
                 /\ After(b, d, AddReadReg(b, d, x), <<x>>, d.write, d.next)
<1>1. d \in Decoding /\ d.lits \in Seq(LiteralIndex) /\ b.registerEnd \in Nat /\ x \in Nat
  <2>1. d \in Decoding /\ b.registerEnd \in Nat
    BY DEF Sound, IsCode
  <2>2. d.lits \in Seq(LiteralIndex)
    BY <2>1 DEF Decoding
  <2>3. QED
    BY <2>1, <2>2, LiteralIndices
<1> DEFINE s == Append(d.lits, x)
<1>2. s \in Seq(LiteralIndex) /\ s = d.lits \o <<x>>
  BY <1>1
<1>3. RegistersIn(b.registerEnd, s) = IF x < b.registerEnd THEN d.reads \cup {x} ELSE d.reads
  BY <1>1, RegistersAppend DEF Sound
<1>4. /\ d.write \in d.reads \cup {NoReg}
      /\ d.reads \in SUBSET LiteralIndex /\ d.reads \cup {x} \in SUBSET LiteralIndex
  BY <1>1 DEF Sound, Decoding
<1> HIDE DEF s
<1>5. ASSUME NEW e, NEW r, NEW w,
             r = IF x < b.registerEnd THEN d.reads \cup {x} ELSE d.reads,
             w \in r \cup {NoReg},
             e = [d EXCEPT !.lits = s, !.reads = r, !.write = w]
      PROVE  After(b, d, e, <<x>>, w, d.next)
  <2>1. r \in SUBSET LiteralIndex /\ w \in LiteralIndex \cup {NoReg}
    BY <1>4, <1>5
  <2>2. /\ e \in Decoding
        /\ e.op = d.op /\ e.offset = d.offset /\ e.arg = d.arg /\ e.lits = s
        /\ e.reads = r /\ e.write = w /\ e.next = d.next
    BY <1>1, <1>2, <1>5, <2>1 DEF Decoding
  <2>3. QED
    BY <1>2, <1>3, <1>5, <2>2 DEF After, Sound
<1>6. After(b, d, AddLiteral(b, d, x), <<x>>, d.write, d.next)
  <2> DEFINE r == IF x < b.registerEnd THEN d.reads \cup {x} ELSE d.reads
  <2>1. AddLiteral(b, d, x) = [d EXCEPT !.lits = s, !.reads = r, !.write = d.write]
    BY <1>1 DEF AddLiteral, IsRegister, s, Decoding
  <2>2. d.write \in r \cup {NoReg}
    BY <1>4
  <2>3. QED
    BY <1>5, <2>1, <2>2
<1>7. ASSUME x >= b.registerEnd
      PROVE  After(b, d, [d EXCEPT !.lits = Append(@, x)], <<x>>, d.write, d.next)
  <2>1. ~ (x < b.registerEnd)
    BY <1>1, <1>7
  <2>2. [d EXCEPT !.lits = Append(@, x)] = [d EXCEPT !.lits = s, !.reads = d.reads, !.write = d.write]
    BY <1>1 DEF s, Decoding
  <2>3. QED
    BY <1>4, <1>5, <2>1, <2>2
<1>8. ASSUME x < b.registerEnd
      PROVE  /\ After(b, d, SetWriteReg(b, d, x), <<x>>, x, d.next)
             /\ After(b, d, AddReadReg(b, d, x), <<x>>, d.write, d.next)
  <2>1. SetWriteReg(b, d, x) = [d EXCEPT !.lits = s, !.reads = d.reads \cup {x}, !.write = x]
    BY <1>1, <1>8 DEF SetWriteReg, AddLiteral, IsRegister, s, Decoding
  <2>2. AddReadReg(b, d, x) = [d EXCEPT !.lits = s, !.reads = d.reads \cup {x}, !.write = d.write]
    BY <1>1, <1>8 DEF AddReadReg, AddLiteral, IsRegister, s, Decoding
  <2>3. x \in (d.reads \cup {x}) \cup {NoReg} /\ d.write \in (d.reads \cup {x}) \cup {NoReg}
    BY <1>4
  <2>4. QED
    BY <1>5, <1>8, <2>1, <2>2, <2>3
<1>9. QED
  BY <1>6, <1>7, <1>8

(* One after the other. *)
LEMMA AfterAfter ==
    ASSUME NEW b, NEW c, Sound(b, c), NEW d, NEW e, NEW s \in Seq(LiteralIndex),
           NEW t \in Seq(LiteralIndex), NEW v, NEW w, NEW m, NEW n,
           After(b, c, d, s, v, m), After(b, d, e, t, w, n)
    PROVE  After(b, c, e, s \o t, w, n)
<1>1. c.lits \in Seq(LiteralIndex)
  BY DEF Sound, Decoding
<1>2. \A a \in Seq(LiteralIndex) : (a \o s) \o t = a \o (s \o t)
  BY ConcatAssociative
<1>3. (c.lits \o s) \o t = c.lits \o (s \o t)
  BY <1>1, <1>2
<1>4. QED
  BY <1>3 DEF After

-----------------------------------------------------------------------------
(* The literal x is at the cursor of d; and where the next cell is. *)
Reads(b, d, x) == x \in 0..b.enc.reach /\ Found(b, d.next, CompileLiteral(b.enc, x))

Behind(b, d, x) == d.next + Len(CompileLiteral(b.enc, x))

WrittenIf(b, d, x) == IF x < b.registerEnd THEN x ELSE d.write

(* What each way to decode a literal makes of it. *)
LEMMA LiteralDecoded ==
    ASSUME NEW b, IsCode(b), NEW d, Sound(b, d), NEW x, Reads(b, d, x)
    PROVE  /\ After(b, d, ReadIndex(b, d), <<>>, d.write, Behind(b, d, x))
           /\ ReadIndex(b, d).index = x /\ x \in LiteralIndex
           /\ After(b, d, ReadLiteral(b, d), <<x>>, d.write, Behind(b, d, x))
           /\ x >= b.registerEnd =>
                 After(b, d, ReadStringLiteral(b, d), <<x>>, d.write, Behind(b, d, x))
           /\ After(b, d, DecodeWritten(b, d), <<x>>, WrittenIf(b, d, x), Behind(b, d, x))
           /\ x < b.registerEnd =>
                 After(b, d, SetWriteReg(b, ReadIndex(b, d), ReadIndex(b, d).index), <<x>>, x,
                       Behind(b, d, x))
           /\ After(b, d, DecodeReference(b, d), IF x < b.registerEnd THEN <<x>> ELSE <<>>,
                    d.write, Behind(b, d, x))
           /\ \A op : op.put = "ident" =>
                 After(b, d, ProcessPut(b, op, d), <<x>>, WrittenIf(b, d, x), Behind(b, d, x))
<1> DEFINE e == ReadIndex(b, d)
           n == Behind(b, d, x)
<1>1. After(b, d, e, <<>>, d.write, n) /\ e.index = x /\ x \in LiteralIndex
  BY IndexRead DEF Reads, Behind
<1>2. Sound(b, e) /\ e.write = d.write /\ e.next = n
  BY <1>1 DEF After
<1> HIDE DEF e, n
<1>3. ASSUME NEW f, NEW w, After(b, e, f, <<x>>, w, n) PROVE After(b, d, f, <<x>>, w, n)
  <2>1. <<>> \in Seq(LiteralIndex) /\ <<x>> \in Seq(LiteralIndex) /\ <<>> \o <<x>> = <<x>>
    BY <1>1
  <2> DEFINE s == <<>>
             t == <<x>>
  <2>2. s \in Seq(LiteralIndex) /\ t \in Seq(LiteralIndex) /\ s \o t = t
    BY <2>1
  <2>3. After(b, d, e, s, d.write, n) /\ After(b, e, f, t, w, n)
    BY <1>1, <1>3
  <2> HIDE DEF s, t
  <2>4. After(b, d, f, s \o t, w, n)
    BY <2>2, <2>3, AfterAfter
  <2>5. QED
    BY <2>2, <2>4 DEF t
<1>4. b.registerEnd \in Nat /\ x \in Nat
  BY <1>1, LiteralIndices DEF IsCode
<1>5. After(b, d, AddLiteral(b, e, x), <<x>>, d.write, n)
  BY <1>1, <1>2, <1>3, LiteralAdded
<1>6. x >= b.registerEnd => After(b, d, [e EXCEPT !.lits = Append(@, x)], <<x>>, d.write, n)
  <2>1. x >= b.registerEnd => After(b, e, [e EXCEPT !.lits = Append(@, x)], <<x>>, d.write, n)
    BY <1>1, <1>2, LiteralAdded
  <2>2. QED
    BY <1>3, <2>1
<1>7. x < b.registerEnd => /\ After(b, d, SetWriteReg(b, e, x), <<x>>, x, n)
                           /\ After(b, d, AddReadReg(b, e, x), <<x>>, d.write, n)
  <2>1. x < b.registerEnd => /\ After(b, e, SetWriteReg(b, e, x), <<x>>, x, n)
                             /\ After(b, e, AddReadReg(b, e, x), <<x>>, d.write, n)
    BY <1>1, <1>2, LiteralAdded
  <2>2. QED
    BY <1>3, <2>1
<1>8. After(b, d, ReadLiteral(b, d), <<x>>, d.write, n)
  BY <1>1, <1>5 DEF ReadLiteral, e
<1>9. x >= b.registerEnd => After(b, d, ReadStringLiteral(b, d), <<x>>, d.write, n)
  BY <1>1, <1>6 DEF ReadStringLiteral, e
<1>10. /\ IF x < b.registerEnd THEN DecodeWritten(b, d) = SetWriteReg(b, e, x)
          ELSE DecodeWritten(b, d) = [e EXCEPT !.lits = Append(@, x)]
       /\ IF x < b.registerEnd THEN DecodeReference(b, d) = AddReadReg(b, e, x)
          ELSE DecodeReference(b, d) = e
       /\ \A op : op.put = "ident" =>
             ProcessPut(b, op, d) =
                IF x < b.registerEnd THEN SetWriteReg(b, e, x) ELSE AddLiteral(b, e, x)
  <2>1. ReadIndex(b, d) = e /\ e.index = x
    BY <1>1 DEF e
  <2>2. DecodeWritten(b, d) = IF IsRegister(b, e.index) THEN SetWriteReg(b, e, e.index)
                              ELSE [e EXCEPT !.lits = Append(@, e.index)]
    BY <2>1 DEF DecodeWritten
  <2>3. DecodeReference(b, d) = IF IsRegister(b, e.index) THEN AddReadReg(b, e, e.index) ELSE e
    BY <2>1 DEF DecodeReference
  <2>4. \A op : op.put = "ident" =>
           ProcessPut(b, op, d) = IF IsRegister(b, e.index) THEN SetWriteReg(b, e, e.index)
                                  ELSE AddLiteral(b, e, e.index)
    BY <2>1 DEF ProcessPut
  <2>5. IsRegister(b, e.index) <=> x < b.registerEnd
    BY <2>1 DEF IsRegister
  <2>6. QED
    BY <2>1, <2>2, <2>3, <2>4, <2>5
<1>11. x < b.registerEnd \/ x >= b.registerEnd
  BY <1>4
<1>12. ~ (x < b.registerEnd) <=> x >= b.registerEnd
  BY <1>4
<1>13. After(b, d, DecodeWritten(b, d), <<x>>, WrittenIf(b, d, x), n)
  BY <1>6, <1>7, <1>10, <1>12 DEF WrittenIf
<1>14. After(b, d, DecodeReference(b, d), IF x < b.registerEnd THEN <<x>> ELSE <<>>, d.write, n)
  BY <1>1, <1>7, <1>10
<1>15. ASSUME NEW op, op.put = "ident"
       PROVE  After(b, d, ProcessPut(b, op, d), <<x>>, WrittenIf(b, d, x), n)
  BY <1>5, <1>7, <1>10, <1>15 DEF WrittenIf
<1>16. QED
  BY <1>1, <1>7, <1>8, <1>9, <1>13, <1>14, <1>15 DEF e, n

-----------------------------------------------------------------------------
(* The literals of an instruction at position i, and the decoder on its    *)
(* way through them: it is behind the k-th of them, and has recorded them  *)
(* all. *)
Codes(enc, lits) == [k \in 1..Len(lits) |-> CompileLiteral(enc, lits[k])]

Place(enc, lits, i, k) == i + 1 + Len(Joined(Codes(enc, lits), k))

Stands(b, i, ins) ==
    /\ IsCode(b) /\ i \in Nat \ {0} /\ IsCompiled(b.enc, b.registerEnd, ins)
    /\ \A k \in 0..Len(ins.lits) : Place(b.enc, ins.lits, i, k) \in Nat
    /\ Place(b.enc, ins.lits, i, 0) = i + 1
    /\ \A k \in 1..Len(ins.lits) :
          LET code == CompileLiteral(b.enc, ins.lits[k]) IN
          /\ Found(b, Place(b.enc, ins.lits, i, k - 1), code)
          /\ Place(b.enc, ins.lits, i, k) = Place(b.enc, ins.lits, i, k - 1) + Len(code)

Passed(b, i, ins, d, k) ==
    /\ Sound(b, d)
    /\ d.op = ins.op /\ d.offset = i - 1 /\ d.arg = 0
    /\ d.next = Place(b.enc, ins.lits, i, k)

Taken(b, i, ins, d, k, write) ==
    /\ Passed(b, i, ins, d, k)
    /\ d.lits = SubSeq(ins.lits, 1, k)
    /\ d.write = write

(* A sequence grows by one element at a time.                              *)
LEMMA Prefix ==
    ASSUME NEW S, NEW s \in Seq(S), NEW k \in 1..Len(s)
    PROVE  SubSeq(s, 1, k) = SubSeq(s, 1, k - 1) \o <<s[k]>>
<1>1. k \in Nat /\ k - 1 \in Nat /\ k - 1 <= Len(s) /\ Len(s) \in Nat /\ s[k] \in S
  OBVIOUS
<1> DEFINE p == SubSeq(s, 1, k)
           q == SubSeq(s, 1, k - 1) \o <<s[k]>>
<1>2. p \in Seq(S) /\ Len(p) = k /\ \A j \in 1..k : p[j] = s[j]
  BY <1>1
<1>3. SubSeq(s, 1, k - 1) \in Seq(S) /\ Len(SubSeq(s, 1, k - 1)) = k - 1
  BY <1>1
<1>4. q \in Seq(S) /\ Len(q) = k /\ \A j \in 1..k : q[j] = s[j]
  <2>1. \A j \in 1..(k - 1) : SubSeq(s, 1, k - 1)[j] = s[j]
    BY <1>1
  <2>2. q \in Seq(S) /\ Len(q) = k /\ q[k] = s[k]
    BY <1>1, <1>3
  <2>3. \A j \in 1..(k - 1) : q[j] = s[j]
    BY <1>1, <1>3, <2>1
  <2>4. QED
    BY <1>1, <2>2, <2>3
<1> HIDE DEF p, q
<1>5. p = q
  BY <1>2, <1>4, SeqEqual
<1>6. QED
  BY <1>5 DEF p, q

(* One literal further. *)
LEMMA Further ==
    ASSUME NEW b, NEW i, NEW ins, Stands(b, i, ins), NEW k \in 1..Len(ins.lits), NEW d, NEW e,
           NEW lits, NEW write,
           After(b, d, e, lits, write, Behind(b, d, ins.lits[k]))
    PROVE  /\ Passed(b, i, ins, d, k - 1) => Passed(b, i, ins, e, k)
           /\ \A w : Taken(b, i, ins, d, k - 1, w) /\ lits = <<ins.lits[k]>>
                        => Taken(b, i, ins, e, k, write)
<1>1. ins.lits \in Seq(0..b.enc.reach)
  BY DEF Stands, IsCompiled
<1>2. Passed(b, i, ins, d, k - 1) => e.next = Place(b.enc, ins.lits, i, k)
  BY DEF Passed, After, Behind, Stands
<1>3. Passed(b, i, ins, d, k - 1) => Passed(b, i, ins, e, k)
  BY <1>2 DEF Passed, After
<1>4. SubSeq(ins.lits, 1, k) = SubSeq(ins.lits, 1, k - 1) \o <<ins.lits[k]>>
  BY <1>1, Prefix
<1>5. ASSUME NEW w, Taken(b, i, ins, d, k - 1, w), lits = <<ins.lits[k]>>
      PROVE  Taken(b, i, ins, e, k, write)
  BY <1>3, <1>4, <1>5 DEF Taken, After
<1>6. QED
  BY <1>3, <1>5

(* The literal that comes next. *)
LEMMA AtLiteral ==
    ASSUME NEW b, NEW i, NEW ins, Stands(b, i, ins), NEW k \in 1..Len(ins.lits), NEW d,
           Passed(b, i, ins, d, k - 1)
    PROVE  IsCode(b) /\ Sound(b, d) /\ Reads(b, d, ins.lits[k])
<1>1. ins.lits \in Seq(0..b.enc.reach)
  BY DEF Stands, IsCompiled
<1>2. ins.lits[k] \in 0..b.enc.reach
  <2> DEFINE S == 0..b.enc.reach
  <2>1. ins.lits \in Seq(S)
    BY <1>1
  <2> HIDE DEF S
  <2>2. ins.lits[k] \in S
    BY <2>1
  <2>3. QED
    BY <2>2 DEF S
<1>3. Found(b, Place(b.enc, ins.lits, i, k - 1), CompileLiteral(b.enc, ins.lits[k]))
  BY DEF Stands
<1>4. d.next = Place(b.enc, ins.lits, i, k - 1) /\ Sound(b, d)
  BY DEF Passed
<1>5. IsCode(b)
  BY DEF Stands
<1>6. QED
  BY <1>2, <1>3, <1>4, <1>5 DEF Reads

-----------------------------------------------------------------------------
(* The decoder at the opcode of an instruction. *)
First(o, i) == [op |-> o, lits |-> <<>>, reads |-> {}, write |-> NoReg,
                arg |-> 0, offset |-> i - 1, index |-> 0, next |-> i + 1]

(* Before the first literal nothing has been taken.                        *)
LEMMA FirstTaken ==
    ASSUME NEW b, NEW i, NEW ins, Stands(b, i, ins)
    PROVE  Taken(b, i, ins, First(ins.op, i), 0, NoReg)
<1> DEFINE d == First(ins.op, i)
<1>1. /\ i \in Nat /\ i - 1 \in Nat /\ i + 1 \in Nat /\ i + 1 = Place(b.enc, ins.lits, i, 0)
      /\ ins.op \in 1..Len(Ops) /\ ins.lits \in Seq(0..b.enc.reach)
  BY DEF Stands, IsCompiled
<1>2. /\ d.op = ins.op /\ d.lits = <<>> /\ d.reads = {} /\ d.write = NoReg
      /\ d.arg = 0 /\ d.offset = i - 1 /\ d.next = i + 1
  BY DEF First
<1>3. d \in Decoding
  <2>1. 0 \in Nat /\ 0 \in Int /\ <<>> \in Seq(LiteralIndex) /\ {} \in SUBSET LiteralIndex
    OBVIOUS
  <2>2. NoReg \in LiteralIndex \cup {NoReg}
    OBVIOUS
  <2>3. QED
    BY <1>1, <2>1, <2>2 DEF First, Decoding
<1> HIDE DEF d
<1>4. Sound(b, d)
  BY <1>2, <1>3, NoRegisters DEF Sound
<1>5. SubSeq(ins.lits, 1, 0) = <<>>
  BY <1>1
<1>6. QED
  BY <1>1, <1>2, <1>4, <1>5 DEF Taken, Passed, d

(* The operands. *)
LEMMA ArgumentsTaken ==
    ASSUME NEW b, NEW i, NEW ins, Stands(b, i, ins), NEW op, OperandLiterals(op) <= Len(ins.lits),
           op.operands # "branch"
    PROVE  Taken(b, i, ins, DecodeArguments(b, op, First(ins.op, i)), OperandLiterals(op), NoReg)
<1> DEFINE d == First(ins.op, i)
<1>1. Taken(b, i, ins, d, 0, NoReg)
  BY FirstTaken
<1> HIDE DEF d
<1>2. ASSUME NEW k \in 1..Len(ins.lits), NEW e, Taken(b, i, ins, e, k - 1, NoReg)
      PROVE  Taken(b, i, ins, ReadLiteral(b, e), k, NoReg)
  <2>1. IsCode(b) /\ Sound(b, e) /\ Reads(b, e, ins.lits[k])
    BY <1>2, AtLiteral DEF Taken
  <2>2. e.write = NoReg
    BY <1>2 DEF Taken
  <2>3. After(b, e, ReadLiteral(b, e), <<ins.lits[k]>>, NoReg, Behind(b, e, ins.lits[k]))
    BY <2>1, <2>2, LiteralDecoded
  <2>4. QED
    BY <1>2, <2>3, Further
<1>3. Len(ins.lits) \in Nat
  BY DEF Stands, IsCompiled
<1>4. CASE op.operands = "literal"
  <2>1. OperandLiterals(op) = 1 /\ 1 \in 1..Len(ins.lits) /\ 1 - 1 = 0
    BY <1>3, <1>4 DEF OperandLiterals
  <2>2. DecodeArguments(b, op, d) = ReadLiteral(b, d)
    BY <1>4 DEF DecodeArguments
  <2>3. Taken(b, i, ins, ReadLiteral(b, d), 1, NoReg)
    BY <1>1, <1>2, <2>1
  <2>4. QED
    BY <2>1, <2>2, <2>3 DEF d
<1>5. CASE op.operands = "literal_literal"
  <2>1. OperandLiterals(op) = 2
    BY <1>5 DEF OperandLiterals
  <2>2. 1 \in 1..Len(ins.lits) /\ 1 - 1 = 0 /\ 2 \in 1..Len(ins.lits) /\ 2 - 1 = 1
    BY <1>3, <2>1
  <2>3. DecodeArguments(b, op, d) = ReadLiteral(b, ReadLiteral(b, d))
    BY <1>5 DEF DecodeArguments
  <2>4. Taken(b, i, ins, ReadLiteral(b, d), 1, NoReg)
    BY <1>1, <1>2, <2>2
  <2>5. Taken(b, i, ins, ReadLiteral(b, ReadLiteral(b, d)), 2, NoReg)
    BY <1>2, <2>2, <2>4
  <2>6. QED
    BY <2>1, <2>3, <2>5 DEF d
<1>6. CASE op.operands \notin {"literal", "literal_literal"}
  <2>1. OperandLiterals(op) = 0
    BY <1>6 DEF OperandLiterals
  <2>2. DecodeArguments(b, op, d) = d
    BY <1>6 DEF DecodeArguments
  <2>3. QED
    BY <1>1, <2>1, <2>2 DEF d
<1>7. QED
  BY <1>4, <1>5, <1>6

-----------------------------------------------------------------------------
(* The groups, and what the definitions say of each. *)
IsPut(op) == op.group \in PutGroups /\ op.put = "ident"
IsIncrement(op) == op.group \in IncrementGroups /\ op.put = "ident"
IsNaming(op) == op.group \in StringGroups \/ (op.group = "SET_FUNCTION_NAME" /\ op.special)
IsFinalizing(op) == op.group = "FINALIZE_CLASS" /\ op.special

Plain(op) ==
    /\ ~ HasByte(op) /\ ~ IsPut(op) /\ ~ IsNaming(op) /\ ~ IsFinalizing(op)
    /\ op.group \notin EvalGroups \cup ReferenceGroups \cup IncrementGroups
    /\ op.group \notin {"PUSH_THREE", "CREATE_ARGUMENTS", "INIT_ARG_OR_FUNC", "MOV_IDENT",
                        "DELETE", "LINE"}

(* What decodeGroupOpcode does for each group; the groups are apart.       *)
LEMMA GroupsDecode ==
    ASSUME NEW b, NEW op, NEW d
    PROVE  /\ op.group = "PUSH_THREE" => DecodeGroup(b, op, d) = ReadLiteral(b, d)
           /\ IsNaming(op) => DecodeGroup(b, op, d) = ReadStringLiteral(b, d)
           /\ op.group \in EvalGroups => DecodeGroup(b, op, d) = DecodeEval(b, op, d)
           /\ op.group = "CREATE_ARGUMENTS" => DecodeGroup(b, op, d) = DecodeWritten(b, d)
           /\ op.group = "INIT_ARG_OR_FUNC" => DecodeGroup(b, op, d) = DecodeInit(b, d)
           /\ IsFinalizing(op) => DecodeGroup(b, op, d) = ReadIndex(b, d)
           /\ op.group \in ReferenceGroups => DecodeGroup(b, op, d) = DecodeReference(b, d)
           /\ op.group \in PutGroups => DecodeGroup(b, op, d) = ProcessPut(b, op, d)
           /\ op.group \in IncrementGroups => DecodeGroup(b, op, d) = DecodeIncrement(b, op, d)
           /\ op.group = "MOV_IDENT" =>
                 DecodeGroup(b, op, d) = SetWriteReg(b, ReadIndex(b, d), ReadIndex(b, d).index)
           /\ op.group = "DELETE" => DecodeGroup(b, op, d) = ReadIndex(b, d)
           /\ Plain(op) => DecodeGroup(b, op, d) = d
<1> USE DEF DecodeGroup, HasByte, StringGroups, ByteGroups, CallGroups, EvalGroups,
            ReferenceGroups, PutGroups, IncrementGroups
<1>1. op.group = "PUSH_THREE" => DecodeGroup(b, op, d) = ReadLiteral(b, d)
  OBVIOUS
<1>3. IsNaming(op) => DecodeGroup(b, op, d) = ReadStringLiteral(b, d)
  BY DEF IsNaming
<1>4. op.group \in EvalGroups => DecodeGroup(b, op, d) = DecodeEval(b, op, d)
  OBVIOUS
<1>5. op.group = "CREATE_ARGUMENTS" => DecodeGroup(b, op, d) = DecodeWritten(b, d)
  OBVIOUS
<1>6. op.group = "INIT_ARG_OR_FUNC" => DecodeGroup(b, op, d) = DecodeInit(b, d)
  OBVIOUS
<1>7. IsFinalizing(op) => DecodeGroup(b, op, d) = ReadIndex(b, d)
  BY DEF IsFinalizing
<1>8. op.group \in ReferenceGroups => DecodeGroup(b, op, d) = DecodeReference(b, d)
  OBVIOUS
<1>9. op.group \in PutGroups => DecodeGroup(b, op, d) = ProcessPut(b, op, d)
  OBVIOUS
<1>10. op.group \in IncrementGroups => DecodeGroup(b, op, d) = DecodeIncrement(b, op, d)
  OBVIOUS
<1>11. op.group = "MOV_IDENT" =>
          DecodeGroup(b, op, d) = SetWriteReg(b, ReadIndex(b, d), ReadIndex(b, d).index)
  OBVIOUS
<1>12. op.group = "DELETE" => DecodeGroup(b, op, d) = ReadIndex(b, d)
  OBVIOUS
<1>14. Plain(op) => DecodeGroup(b, op, d) = d
  <2>1. op.group \in PutGroups /\ ~ IsPut(op) => ProcessPut(b, op, d) = d
    BY DEF IsPut, ProcessPut
  <2>2. QED
    BY <1>9, <2>1 DEF Plain, IsNaming, IsFinalizing
<1> HIDE DEF DecodeGroup, HasByte, StringGroups, ByteGroups, CallGroups, EvalGroups,
             ReferenceGroups, PutGroups, IncrementGroups
<1>15. QED
  BY <1>1, <1>3, <1>4, <1>5, <1>6, <1>7, <1>8, <1>9, <1>10, <1>11, <1>12, <1>14

(* The arguments that are no literals. *)
ByteRead(b, d) == [d EXCEPT !.arg = b.cells[d.next], !.next = @ + 1]

LineRead(b, d) == [d EXCEPT !.arg = DecodeLine(b, d.next), !.next = LineEnd(b, d.next) + 1]

(* The groups that read cells which are no literals.                       *)
LEMMA CellsDecode ==
    ASSUME NEW b, NEW op, NEW d
    PROVE  /\ HasByte(op) => DecodeGroup(b, op, d) = ByteRead(b, d)
           /\ op.group = "LINE" => DecodeGroup(b, op, d) = LineRead(b, d)
<1> USE DEF DecodeGroup, HasByte, StringGroups, ByteGroups, CallGroups, EvalGroups,
            ReferenceGroups, PutGroups, IncrementGroups
<1>1. HasByte(op) => DecodeGroup(b, op, d) = ByteRead(b, d)
  BY DEF ByteRead
<1>2. op.group = "LINE" => DecodeGroup(b, op, d) = LineRead(b, d)
  BY DEF LineRead
<1> HIDE DEF DecodeGroup, HasByte, StringGroups, ByteGroups, CallGroups, EvalGroups,
             ReferenceGroups, PutGroups, IncrementGroups
<1>3. QED
  BY <1>1, <1>2

(* How many literals, and how many names, each group takes.                *)
LEMMA GroupsTake ==
    ASSUME NEW op
    PROVE  /\ op.group = "PUSH_THREE" => GroupLiterals(op) = 1 /\ NameLiterals(op) = 0
           /\ HasByte(op) => GroupLiterals(op) = 0
           /\ IsNaming(op) => GroupLiterals(op) = 1 /\ NameLiterals(op) = 1
           /\ op.group \in EvalGroups =>
                 /\ op.special => GroupLiterals(op) = 2 /\ NameLiterals(op) = 2
                 /\ ~ op.special => GroupLiterals(op) = 1 /\ NameLiterals(op) = 1
           /\ op.group = "CREATE_ARGUMENTS" => GroupLiterals(op) = 1
           /\ op.group = "INIT_ARG_OR_FUNC" => GroupLiterals(op) = 2
           /\ IsFinalizing(op) => GroupLiterals(op) = 1
           /\ op.group \in ReferenceGroups => GroupLiterals(op) = 1
           /\ IsPut(op) => GroupLiterals(op) = 1
           /\ op.group \in IncrementGroups =>
                 /\ op.put = "ident" /\ op.operands # "literal" => GroupLiterals(op) = 1
                 /\ op.put # "ident" \/ op.operands = "literal" => GroupLiterals(op) = 0
           /\ op.group \in {"MOV_IDENT", "DELETE"} => GroupLiterals(op) = 1
           /\ op.group = "LINE" => GroupLiterals(op) = 0
           /\ Plain(op) => GroupLiterals(op) = 0
<1> USE DEF GroupLiterals, NameLiterals, HasByte, StringGroups, ByteGroups, CallGroups, EvalGroups,
            ReferenceGroups, PutGroups, IncrementGroups, IsPut, IsNaming, IsFinalizing
<1>1. op.group = "PUSH_THREE" => GroupLiterals(op) = 1 /\ NameLiterals(op) = 0
  OBVIOUS
<1>2. HasByte(op) => GroupLiterals(op) = 0
  OBVIOUS
<1>3. IsNaming(op) => GroupLiterals(op) = 1 /\ NameLiterals(op) = 1
  OBVIOUS
<1>4. op.group \in EvalGroups =>
         /\ op.special => GroupLiterals(op) = 2 /\ NameLiterals(op) = 2
         /\ ~ op.special => GroupLiterals(op) = 1 /\ NameLiterals(op) = 1
  OBVIOUS
<1>5. /\ op.group = "CREATE_ARGUMENTS" => GroupLiterals(op) = 1
      /\ op.group = "INIT_ARG_OR_FUNC" => GroupLiterals(op) = 2
      /\ IsFinalizing(op) => GroupLiterals(op) = 1
      /\ op.group \in {"MOV_IDENT", "DELETE"} => GroupLiterals(op) = 1
      /\ op.group = "LINE" => GroupLiterals(op) = 0
  OBVIOUS
<1>6. /\ op.group \in ReferenceGroups => GroupLiterals(op) = 1
      /\ IsPut(op) => GroupLiterals(op) = 1
  OBVIOUS
<1>7. op.group \in IncrementGroups =>
         /\ op.put = "ident" /\ op.operands # "literal" => GroupLiterals(op) = 1
         /\ op.put # "ident" \/ op.operands = "literal" => GroupLiterals(op) = 0
  OBVIOUS
<1>8. Plain(op) => GroupLiterals(op) = 0
  BY DEF Plain
<1> HIDE DEF GroupLiterals, NameLiterals, HasByte, StringGroups, ByteGroups, CallGroups,
             EvalGroups, ReferenceGroups, PutGroups, IncrementGroups, IsPut, IsNaming, IsFinalizing
<1>9. QED
  BY <1>1, <1>2, <1>3, <1>4, <1>5, <1>6, <1>7, <1>8

-----------------------------------------------------------------------------
(* The parts of a compiled instruction, found in a byte code. *)
Cells == Byte \cup OpCells

(* The codes of the literals of an instruction are sequences of bytes.     *)
LEMMA LiteralCodes ==
    ASSUME NEW enc \in Encodings, NEW lits \in Seq(0..enc.reach)
    PROVE  /\ Codes(enc, lits) \in Seq(Seq(Byte)) /\ Len(Codes(enc, lits)) = Len(lits)
           /\ \A k \in 1..Len(lits) : Codes(enc, lits)[k] = CompileLiteral(enc, lits[k])
<1> DEFINE n == Len(lits)
           S == 0..enc.reach
<1>1. n \in Nat /\ \A k \in 1..n : lits[k] \in 0..enc.reach
  <2>1. lits \in Seq(S)
    OBVIOUS
  <2> HIDE DEF S
  <2>2. n \in Nat /\ \A k \in 1..n : lits[k] \in S
    BY <2>1
  <2>3. QED
    BY <2>2 DEF S
<1> HIDE DEF n
<1>2. \A k \in 1..n : CompileLiteral(enc, lits[k]) \in Seq(Byte)
  BY <1>1, LiteralCells
<1>3. Codes(enc, lits) = [k \in 1..n |-> CompileLiteral(enc, lits[k])]
  BY DEF Codes, n
<1>4. QED
  BY <1>1, <1>2, <1>3 DEF n

(* Where the codes of its literals are found, the literals stand.          *)
LEMMA StandsThere ==
    ASSUME NEW b, IsCode(b), NEW i \in Nat \ {0}, NEW ins, IsCompiled(b.enc, b.registerEnd, ins),
           Found(b, i + 1, Joined(Codes(b.enc, ins.lits), Len(ins.lits)))
    PROVE  Stands(b, i, ins)
<1> DEFINE parts == Codes(b.enc, ins.lits)
           n == Len(ins.lits)
<1>1. /\ parts \in Seq(Seq(Byte)) /\ Len(parts) = n
      /\ \A k \in 1..n : parts[k] = CompileLiteral(b.enc, ins.lits[k])
  BY LiteralCodes DEF IsCode, IsCompiled
<1>2. n \in Nat
  BY <1>1
<1> HIDE DEF parts, n
<1>3. JoinedIsThat(Byte, parts)
  BY <1>1, JoinedUnfolds
<1>4. \A k \in 1..n : Found(b, i + 1 + Len(Joined(parts, k - 1)), parts[k])
  <2>1. Found(b, i + 1, Joined(parts, n)) /\ i + 1 \in Nat
    BY DEF parts, n
  <2>2. Found(b, i + 1, Joined(parts, Len(parts)))
    BY <1>1, <2>1
  <2>3. QED
    BY <1>1, <2>1, <2>2, FoundInJoined
<1>5. /\ \A k \in 0..n : Joined(parts, k) \in Seq(Byte) /\ Len(Joined(parts, k)) \in Nat
      /\ Joined(parts, 0) = <<>>
      /\ \A k \in 1..n : Joined(parts, k) = Joined(parts, k - 1) \o parts[k]
  BY <1>1, <1>3 DEF JoinedIsThat
<1>6. ASSUME NEW k \in 1..n
      PROVE  Len(Joined(parts, k)) = Len(Joined(parts, k - 1)) + Len(parts[k])
  <2>1. k - 1 \in 0..n /\ k \in 0..n
    BY <1>2
  <2>2. Joined(parts, k - 1) \in Seq(Byte) /\ parts[k] \in Seq(Byte)
    BY <1>1, <1>5, <2>1
  <2>3. Len(Joined(parts, k - 1) \o parts[k]) = Len(Joined(parts, k - 1)) + Len(parts[k])
    BY <2>2, ConcatProperties
  <2>4. QED
    BY <1>5, <2>3
<1>7. \A k \in 0..n : Place(b.enc, ins.lits, i, k) = i + 1 + Len(Joined(parts, k))
  BY DEF Place, parts
<1>8. \A k \in 0..n : Place(b.enc, ins.lits, i, k) \in Nat
  BY <1>5, <1>7
<1>9. Place(b.enc, ins.lits, i, 0) = i + 1
  BY <1>2, <1>5, <1>7
<1>10. ASSUME NEW k \in 1..n
       PROVE  /\ Found(b, Place(b.enc, ins.lits, i, k - 1), CompileLiteral(b.enc, ins.lits[k]))
              /\ Place(b.enc, ins.lits, i, k)
                    = Place(b.enc, ins.lits, i, k - 1) + Len(CompileLiteral(b.enc, ins.lits[k]))
  <2>1. k - 1 \in 0..n /\ k \in 0..n
    BY <1>2
  <2>2. /\ Place(b.enc, ins.lits, i, k - 1) = i + 1 + Len(Joined(parts, k - 1))
        /\ Place(b.enc, ins.lits, i, k) = i + 1 + Len(Joined(parts, k))
    BY <1>7, <2>1
  <2>3. Found(b, Place(b.enc, ins.lits, i, k - 1), CompileLiteral(b.enc, ins.lits[k]))
    BY <1>1, <1>4, <2>2
  <2>4. Len(Joined(parts, k - 1)) \in Nat /\ Len(parts[k]) \in Nat
    <3>1. parts[k] \in Seq(Byte)
      BY <1>1
    <3>2. Len(parts[k]) \in Nat
      BY <3>1, LenProperties
    <3>3. QED
      BY <1>5, <2>1, <3>2
  <2>5. Len(Joined(parts, k)) = Len(Joined(parts, k - 1)) + Len(parts[k])
    BY <1>6
  <2>6. \A y, z \in Nat : (i + 1) + (y + z) = (i + 1 + y) + z
    OBVIOUS
  <2>7. Place(b.enc, ins.lits, i, k) = Place(b.enc, ins.lits, i, k - 1) + Len(parts[k])
    BY <2>2, <2>4, <2>5, <2>6
  <2>8. QED
    BY <1>1, <2>3, <2>7
<1>11. QED
  BY <1>8, <1>9, <1>10 DEF Stands, n

(* All of an instruction without a branch or line. *)
Trail(ins) == IF HasByte(Ops[ins.op]) THEN <<ins.arg>> ELSE <<>>

IsPlainlyCompiled(ins) ==
    Ops[ins.op].operands # "branch" /\ Ops[ins.op].group # "LINE"

(* The argument of an instruction that is neither a branch nor a line.     *)
LEMMA ArgumentCell ==
    ASSUME NEW enc, NEW registerEnd, NEW ins, IsCompiled(enc, registerEnd, ins),
           IsPlainlyCompiled(ins)
    PROVE  IF HasByte(Ops[ins.op]) THEN ins.arg \in Byte ELSE ins.arg = 0
  BY DEF IsCompiled, Arguments, IsPlainlyCompiled

(* What such an instruction is compiled to: opcode, literals, argument.    *)
LEMMA CompiledParts ==
    ASSUME NEW enc \in Encodings, NEW registerEnd, NEW ins, IsCompiled(enc, registerEnd, ins),
           IsPlainlyCompiled(ins)
    PROVE  LET body == Joined(Codes(enc, ins.lits), Len(ins.lits)) IN
           /\ <<- ins.op>> \in Seq(Cells) /\ body \in Seq(Cells) /\ Trail(ins) \in Seq(Cells)
           /\ Compiled(enc, ins) = <<- ins.op>> \o (body \o Trail(ins))
<1> DEFINE body == Joined(Codes(enc, ins.lits), Len(ins.lits))
           op == Ops[ins.op]
<1>1. ins.lits \in Seq(0..enc.reach)
  BY DEF IsCompiled
<1>2. /\ Codes(enc, ins.lits) \in Seq(Seq(Byte)) /\ Len(Codes(enc, ins.lits)) = Len(ins.lits)
      /\ Len(ins.lits) \in Nat
  BY <1>1, LiteralCodes
<1>3. body \in Seq(Byte)
  <2>1. JoinedIsThat(Byte, Codes(enc, ins.lits))
    BY <1>2, JoinedUnfolds
  <2>2. Len(ins.lits) \in 0..Len(Codes(enc, ins.lits))
    BY <1>2
  <2>3. QED
    BY <2>1, <2>2 DEF JoinedIsThat
<1>4. - ins.op \in OpCells
  BY DEF IsCompiled, OpCells
<1>5. Trail(ins) \in Seq(Byte)
  BY ArgumentCell DEF Trail
<1>6. Compiled(enc, ins) = <<- ins.op>> \o (body \o Trail(ins))
  <2>1. Compiled(enc, ins) =
           <<- ins.op>> \o (Joined(Codes(enc, ins.lits), Len(Codes(enc, ins.lits))) \o Trail(ins))
    BY DEF Compiled, Codes, Trail, IsPlainlyCompiled
  <2>2. QED
    BY <1>2, <2>1
<1> HIDE DEF body
<1>7. \A s \in Seq(Byte) : s \in Seq(Cells)
  BY DEF Cells
<1>8. <<- ins.op>> \in Seq(Cells)
  BY <1>4 DEF Cells
<1>9. QED
  BY <1>3, <1>5, <1>6, <1>7, <1>8 DEF body

(* Where it is found, its opcode, its literals and its argument are.       *)
LEMMA PartsFound ==
    ASSUME NEW b, IsCode(b), NEW i \in Nat \ {0}, NEW ins, IsCompiled(b.enc, b.registerEnd, ins),
           IsPlainlyCompiled(ins), Found(b, i, Compiled(b.enc, ins))
    PROVE  /\ b.cells[i] = - ins.op
           /\ Stands(b, i, ins)
           /\ Found(b, Place(b.enc, ins.lits, i, Len(ins.lits)), Trail(ins))
           /\ i + Len(Compiled(b.enc, ins))
                 = Place(b.enc, ins.lits, i, Len(ins.lits)) + Len(Trail(ins))
<1> DEFINE body == Joined(Codes(b.enc, ins.lits), Len(ins.lits))
           all == Compiled(b.enc, ins)
           opcode == <<- ins.op>>
           trail == Trail(ins)
<1>1. /\ opcode \in Seq(Cells) /\ body \in Seq(Cells) /\ trail \in Seq(Cells)
      /\ all = opcode \o (body \o trail)
  BY CompiledParts DEF IsCode
<1>2. Len(opcode) = 1 /\ opcode[1] = - ins.op
  OBVIOUS
<1>3. Place(b.enc, ins.lits, i, Len(ins.lits)) = i + 1 + Len(body)
  BY DEF Place
<1> HIDE DEF body, all, opcode, trail
<1>4. body \o trail \in Seq(Cells) /\ Found(b, i, opcode \o (body \o trail))
  BY <1>1 DEF all
<1>5. Found(b, i, opcode) /\ Found(b, i + 1, body \o trail)
  BY <1>1, <1>2, <1>4, FoundApart
<1>6. i + 1 \in Nat
  OBVIOUS
<1>7. Found(b, i + 1, body) /\ Found(b, i + 1 + Len(body), trail)
  BY <1>1, <1>5, <1>6, FoundApart
<1>8. b.cells[i] = - ins.op
  <2>1. 1 \in 1..Len(opcode) /\ i + 1 - 1 = i
    BY <1>2
  <2>2. QED
    BY <1>2, <1>5, <2>1 DEF Found
<1>9. Stands(b, i, ins)
  BY <1>7, StandsThere DEF body
<1>10. Len(all) = 1 + (Len(body) + Len(trail)) /\ Len(body) \in Nat /\ Len(trail) \in Nat
  <2>1. Len(body \o trail) = Len(body) + Len(trail)
    BY <1>1, ConcatProperties
  <2>2. Len(opcode \o (body \o trail)) = Len(opcode) + Len(body \o trail)
    BY <1>1, <1>4, ConcatProperties
  <2>3. Len(body) \in Nat /\ Len(trail) \in Nat
    BY <1>1, LenProperties
  <2>4. QED
    BY <1>1, <1>2, <2>1, <2>2, <2>3
<1>11. QED
  BY <1>3, <1>7, <1>8, <1>9, <1>10 DEF all, trail

-----------------------------------------------------------------------------
(* What decoding leaves of an instruction: its literals, if it is of a     *)
(* kind that keeps them, and as written the last of them, if it is of a    *)
(* kind that writes one and this one is a register. *)
LastOf(ins) == ins.lits[Len(ins.lits)]

KeepsIn(registerEnd, ins) ==
    LET op == Ops[ins.op] IN
    /\ op.group \notin {"DELETE", "INIT_ARG_OR_FUNC"}
    /\ ~ IsFinalizing(op)
    /\ op.group \in ReferenceGroups => LastOf(ins) < registerEnd
    /\ op.group \in IncrementGroups => op.put # "ident" \/ op.operands # "literal"

WritesLast(op) ==
    op.group \in {"CREATE_ARGUMENTS", "MOV_IDENT"} \/ IsPut(op) \/ IsIncrement(op)

WriteOf(registerEnd, ins) ==
    IF WritesLast(Ops[ins.op]) /\ LastOf(ins) < registerEnd THEN LastOf(ins) ELSE NoReg

(* The groups that write nothing.                                          *)
LEMMA GroupsWrite ==
    ASSUME NEW op
    PROVE  /\ op.group = "PUSH_THREE" => ~ WritesLast(op)
           /\ HasByte(op) => ~ WritesLast(op)
           /\ IsNaming(op) => ~ WritesLast(op)
           /\ op.group \in EvalGroups => ~ WritesLast(op)
           /\ op.group \in ReferenceGroups => ~ WritesLast(op)
           /\ op.group \in IncrementGroups /\ op.put # "ident" => ~ WritesLast(op)
           /\ op.group = "LINE" => ~ WritesLast(op)
           /\ Plain(op) => ~ WritesLast(op)
           /\ op.group \in PutGroups => op.group \notin IncrementGroups
<1> USE DEF HasByte, StringGroups, ByteGroups, CallGroups, EvalGroups,
            ReferenceGroups, PutGroups, IncrementGroups, IsPut, IsNaming, IsIncrement, WritesLast
<1>1. /\ op.group = "PUSH_THREE" => ~ WritesLast(op)
      /\ op.group = "LINE" => ~ WritesLast(op)
      /\ op.group \in IncrementGroups /\ op.put # "ident" => ~ WritesLast(op)
  OBVIOUS
<1>2. HasByte(op) => ~ WritesLast(op)
  OBVIOUS
<1>3. IsNaming(op) => ~ WritesLast(op)
  OBVIOUS
<1>4. /\ op.group \in EvalGroups => ~ WritesLast(op)
      /\ op.group \in ReferenceGroups => ~ WritesLast(op)
  OBVIOUS
<1>5. Plain(op) => ~ WritesLast(op)
  BY DEF Plain
<1>6. op.group \in PutGroups => op.group \notin IncrementGroups
  OBVIOUS
<1> HIDE DEF HasByte, StringGroups, ByteGroups, CallGroups, EvalGroups,
            ReferenceGroups, PutGroups, IncrementGroups, IsPut, IsNaming, IsIncrement, WritesLast
<1>7. QED
  BY <1>1, <1>2, <1>3, <1>4, <1>5, <1>6

(* The last literal of an instruction, recorded in one way or another. *)
LEMMA LastTaken ==
    ASSUME NEW b, NEW i, NEW ins, Stands(b, i, ins), NEW k \in 1..Len(ins.lits), NEW e,
           Taken(b, i, ins, e, k - 1, NoReg),
           NEW f, NEW lits, NEW write, After(b, e, f, lits, write, Behind(b, e, ins.lits[k]))
    PROVE  /\ Passed(b, i, ins, f, k)
           /\ lits = <<ins.lits[k]>> => Taken(b, i, ins, f, k, write)
<1>1. Passed(b, i, ins, e, k - 1)
  BY DEF Taken
<1>2. Passed(b, i, ins, f, k)
  BY <1>1, Further
<1>3. lits = <<ins.lits[k]>> => Taken(b, i, ins, f, k, write)
  BY Further
<1>4. QED
  BY <1>2, <1>3

(* A group that takes one literal. *)
LEMMA OneTaken ==
    ASSUME NEW b, NEW i, NEW ins, Stands(b, i, ins), NEW n, n = Len(ins.lits), n # 0, NEW e,
           Taken(b, i, ins, e, n - 1, NoReg)
    PROVE  LET op == Ops[ins.op]
               x  == ins.lits[n]
           IN  /\ Passed(b, i, ins, ReadIndex(b, e), n)
               /\ Taken(b, i, ins, ReadLiteral(b, e), n, NoReg)
               /\ x >= b.registerEnd => Taken(b, i, ins, ReadStringLiteral(b, e), n, NoReg)
               /\ Taken(b, i, ins, DecodeWritten(b, e), n,
                        IF x < b.registerEnd THEN x ELSE NoReg)
               /\ x < b.registerEnd =>
                     Taken(b, i, ins, SetWriteReg(b, ReadIndex(b, e), ReadIndex(b, e).index), n, x)
               /\ Passed(b, i, ins, DecodeReference(b, e), n)
               /\ x < b.registerEnd => Taken(b, i, ins, DecodeReference(b, e), n, NoReg)
               /\ op.put = "ident" =>
                     Taken(b, i, ins, ProcessPut(b, op, e), n,
                           IF x < b.registerEnd THEN x ELSE NoReg)
<1> DEFINE op == Ops[ins.op]
           x  == ins.lits[n]
<1>1. n \in 1..Len(ins.lits) /\ n \in Nat
  <2>1. n \in Nat
    <3>1. ins.lits \in Seq(0..b.enc.reach)
      BY DEF Stands, IsCompiled
    <3>2. QED
      BY <3>1, LenProperties
  <2>2. QED
    BY <2>1
<1>2. IsCode(b) /\ Sound(b, e) /\ Reads(b, e, x) /\ e.write = NoReg
  <2>1. Passed(b, i, ins, e, n - 1) /\ e.write = NoReg
    BY DEF Taken
  <2>2. QED
    BY <1>1, <2>1, AtLiteral
<1> HIDE DEF op
<1>3. ASSUME NEW f, NEW lits, NEW write, After(b, e, f, lits, write, Behind(b, e, x))
      PROVE  /\ Passed(b, i, ins, f, n)
             /\ lits = <<x>> => Taken(b, i, ins, f, n, write)
  BY <1>1, <1>3, LastTaken
<1> HIDE DEF x
<1>4. WrittenIf(b, e, x) = IF x < b.registerEnd THEN x ELSE NoReg
  BY <1>2 DEF WrittenIf
<1>5. Passed(b, i, ins, ReadIndex(b, e), n)
  BY <1>2, <1>3, LiteralDecoded
<1>6. Taken(b, i, ins, ReadLiteral(b, e), n, NoReg)
  BY <1>2, <1>3, LiteralDecoded
<1>7. x >= b.registerEnd => Taken(b, i, ins, ReadStringLiteral(b, e), n, NoReg)
  BY <1>2, <1>3, LiteralDecoded
<1>8. Taken(b, i, ins, DecodeWritten(b, e), n, IF x < b.registerEnd THEN x ELSE NoReg)
  BY <1>2, <1>3, <1>4, LiteralDecoded
<1>9. x < b.registerEnd =>
        Taken(b, i, ins, SetWriteReg(b, ReadIndex(b, e), ReadIndex(b, e).index), n, x)
  BY <1>2, <1>3, LiteralDecoded
<1>10. After(b, e, DecodeReference(b, e), IF x < b.registerEnd THEN <<x>> ELSE <<>>, NoReg,
             Behind(b, e, x))
  BY <1>2, LiteralDecoded
<1>11. Passed(b, i, ins, DecodeReference(b, e), n)
  BY <1>3, <1>10
<1>12. x < b.registerEnd => Taken(b, i, ins, DecodeReference(b, e), n, NoReg)
  BY <1>3, <1>10
<1>13. op.put = "ident" =>
         Taken(b, i, ins, ProcessPut(b, op, e), n, IF x < b.registerEnd THEN x ELSE NoReg)
  BY <1>2, <1>3, <1>4, LiteralDecoded
<1>14. QED
  BY <1>5, <1>6, <1>7, <1>8, <1>9, <1>11, <1>12, <1>13 DEF op, x

-----------------------------------------------------------------------------
(* Groups that take two literals. *)
LEMMA EvalTaken ==
    ASSUME NEW b, NEW i, NEW ins, Stands(b, i, ins), NEW m \in Nat, Len(ins.lits) = m + 2,
           NEW e, Taken(b, i, ins, e, m, NoReg),
           ins.lits[m + 1] >= b.registerEnd, ins.lits[m + 2] >= b.registerEnd
    PROVE  Taken(b, i, ins, ReadStringLiteral(b, ReadStringLiteral(b, e)), m + 2, NoReg)
<1> DEFINE f == ReadStringLiteral(b, e)
<1>1. m + 1 \in 1..Len(ins.lits) /\ (m + 1) - 1 = m /\ (m + 2) - 1 = m + 1 /\ m + 2 # 0
  OBVIOUS
<1>2. Passed(b, i, ins, e, (m + 1) - 1) /\ e.write = NoReg
  BY <1>1 DEF Taken
<1>3. IsCode(b) /\ Sound(b, e) /\ Reads(b, e, ins.lits[m + 1])
  BY <1>1, <1>2, AtLiteral
<1>4. After(b, e, f, <<ins.lits[m + 1]>>, NoReg, Behind(b, e, ins.lits[m + 1]))
  BY <1>2, <1>3, LiteralDecoded
<1>5. Taken(b, i, ins, f, m + 1, NoReg)
  BY <1>1, <1>4, LastTaken
<1> HIDE DEF f
<1>6. Taken(b, i, ins, f, (m + 2) - 1, NoReg)
  BY <1>1, <1>5
<1>7. QED
  BY <1>1, <1>6, OneTaken DEF f

(* INIT_ARG_OR_FUNC takes both its literals, in whatever order it records  *)
(* them.                                                                   *)
LEMMA InitTaken ==
    ASSUME NEW b, NEW i, NEW ins, Stands(b, i, ins), NEW m \in Nat, Len(ins.lits) = m + 2,
           NEW e, Taken(b, i, ins, e, m, NoReg)
    PROVE  Passed(b, i, ins, DecodeInit(b, e), m + 2)
<1> DEFINE x == ins.lits[m + 1]
           y == ins.lits[m + 2]
           name == ReadIndex(b, e)
           value == DecodeReference(b, name)
           s == IF y < b.registerEnd THEN <<y>> ELSE <<>>
<1>1. /\ m + 1 \in 1..Len(ins.lits) /\ m + 2 \in 1..Len(ins.lits)
      /\ (m + 1) - 1 = m /\ (m + 2) - 1 = m + 1
  OBVIOUS
<1>2. Passed(b, i, ins, e, (m + 1) - 1) /\ e.write = NoReg
  BY <1>1 DEF Taken
<1>3. IsCode(b) /\ Sound(b, e) /\ Reads(b, e, x)
  BY <1>1, <1>2, AtLiteral
<1>4. After(b, e, name, <<>>, NoReg, Behind(b, e, x)) /\ name.index = x /\ x \in LiteralIndex
  BY <1>2, <1>3, LiteralDecoded
<1>5. Passed(b, i, ins, name, m + 1)
  BY <1>1, <1>2, <1>4, Further
<1> HIDE DEF x, name
<1>6. Sound(b, name) /\ Reads(b, name, y) /\ name.write = NoReg
  <2>1. Passed(b, i, ins, name, (m + 2) - 1)
    BY <1>1, <1>5
  <2>2. QED
    BY <1>1, <1>4, <2>1, AtLiteral DEF After
<1>7. After(b, name, value, s, NoReg, Behind(b, name, y)) /\ s \in Seq(LiteralIndex)
  <2>1. After(b, name, value, s, NoReg, Behind(b, name, y)) /\ y \in LiteralIndex
    BY <1>3, <1>6, LiteralDecoded
  <2>2. QED
    BY <2>1
<1>8. Sound(b, value) /\ value.next = Behind(b, name, y)
  BY <1>7 DEF After
<1> DEFINE z == DecodeInit(b, e)
<1>9. \E w : After(b, value, z, <<x>>, w, value.next)
  <2>1. z = IF x < b.registerEnd THEN SetWriteReg(b, value, x)
            ELSE [value EXCEPT !.lits = Append(@, x)]
    BY <1>4 DEF DecodeInit, IsRegister, name
  <2>2. x < b.registerEnd \/ x >= b.registerEnd
    BY <1>3, <1>4, LiteralIndices DEF IsCode
  <2>3. ~ (x < b.registerEnd) <=> x >= b.registerEnd
    BY <1>3, <1>4, LiteralIndices DEF IsCode
  <2> HIDE DEF value, z
  <2>4. x < b.registerEnd => After(b, value, SetWriteReg(b, value, x), <<x>>, x, value.next)
    BY <1>3, <1>4, <1>8, LiteralAdded
  <2>5. x >= b.registerEnd =>
          After(b, value, [value EXCEPT !.lits = Append(@, x)], <<x>>, value.write, value.next)
    BY <1>3, <1>4, <1>8, LiteralAdded
  <2>6. QED
    BY <2>1, <2>3, <2>4, <2>5
<1>10. PICK w : After(b, value, z, <<x>>, w, Behind(b, name, y))
  BY <1>8, <1>9
<1> HIDE DEF y, value, s, z
<1>11. After(b, name, z, s \o <<x>>, w, Behind(b, name, y))
  <2>1. <<x>> \in Seq(LiteralIndex)
    BY <1>4
  <2> DEFINE t == <<x>>
  <2>2. t \in Seq(LiteralIndex) /\ After(b, value, z, t, w, Behind(b, name, y))
    BY <1>10, <2>1
  <2> HIDE DEF t
  <2>3. After(b, name, z, s \o t, w, Behind(b, name, y))
    BY <1>6, <1>7, <2>2, AfterAfter
  <2>4. QED
    BY <2>3 DEF t
<1>12. Passed(b, i, ins, z, m + 2)
  <2>1. Passed(b, i, ins, name, (m + 2) - 1)
    BY <1>1, <1>5
  <2>2. QED
    BY <1>1, <1>11, <2>1, Further DEF y
<1>13. QED
  BY <1>12 DEF z

(* An increment sets the cursor back to behind the opcode. *)
LEMMA SetBack ==
    ASSUME NEW b, NEW i, NEW ins, Stands(b, i, ins), NEW n, NEW e, Taken(b, i, ins, e, n, NoReg)
    PROVE  LET back == [e EXCEPT !.next = e.offset + 2] IN
           /\ Passed(b, i, ins, back, 0) /\ back.write = NoReg
           /\ n = 0 => back = e
<1> DEFINE back == [e EXCEPT !.next = e.offset + 2]
<1>1. /\ e \in Decoding /\ Sound(b, e) /\ e.offset = i - 1 /\ e.op = ins.op /\ e.arg = 0
      /\ e.write = NoReg /\ e.next = Place(b.enc, ins.lits, i, n)
  BY DEF Taken, Passed, Sound
<1>2. i \in Nat /\ Place(b.enc, ins.lits, i, 0) = i + 1
  BY DEF Stands
<1>3. e.offset + 2 = i + 1 /\ i + 1 \in Nat
  BY <1>1, <1>2
<1>4. /\ back \in Decoding
      /\ back.op = e.op /\ back.lits = e.lits /\ back.reads = e.reads /\ back.write = e.write
      /\ back.arg = e.arg /\ back.offset = e.offset /\ back.next = i + 1
  BY <1>1, <1>3 DEF Decoding
<1>5. n = 0 => back = e
  BY <1>1, <1>2, <1>3 DEF Decoding
<1> HIDE DEF back
<1>6. Sound(b, back)
  BY <1>1, <1>4 DEF Sound
<1>7. QED
  BY <1>1, <1>2, <1>4, <1>5, <1>6 DEF Passed, back

-----------------------------------------------------------------------------
(* The group: it takes the literals that are left, and what it says of     *)
(* them is kept if it is of a kind that keeps them. *)
LEMMA GroupTaken ==
    ASSUME NEW b, NEW i, NEW ins, Stands(b, i, ins), NEW op, op = Ops[ins.op],
           IsPlainlyCompiled(ins), ~ HasByte(op), NEW e,
           Taken(b, i, ins, e, OperandLiterals(op), NoReg)
    PROVE  LET d == DecodeGroup(b, op, e)
               n == Len(ins.lits)
           IN  /\ Passed(b, i, ins, d, n)
               /\ KeepsIn(b.registerEnd, ins) =>
                     Taken(b, i, ins, d, n, WriteOf(b.registerEnd, ins))
<1> DEFINE n == Len(ins.lits)
           d == DecodeGroup(b, op, e)
           x == ins.lits[n]
           End == b.registerEnd
           Done == /\ Passed(b, i, ins, d, n)
                   /\ KeepsIn(End, ins) => Taken(b, i, ins, d, n, WriteOf(End, ins))
<1> SUFFICES Done
  OBVIOUS
<1>1. /\ n = OperandLiterals(op) + GroupLiterals(op)
      /\ \A k \in (n - NameLiterals(op) + 1)..n : ins.lits[k] >= End
      /\ op.group = "MOV_IDENT" => x < End
  BY DEF Stands, IsCompiled
<1>2. OperandLiterals(op) \in {0, 1, 2} /\ n \in Nat
  <2>1. ins.lits \in Seq(0..b.enc.reach)
    BY DEF Stands, IsCompiled
  <2>2. n \in Nat
    BY <2>1, LenProperties
  <2>3. QED
    BY <2>2 DEF OperandLiterals
<1> HIDE DEF n
<1>3. /\ ~ WritesLast(op) => WriteOf(End, ins) = NoReg
      /\ WritesLast(op) => WriteOf(End, ins) = IF x < End THEN x ELSE NoReg
  BY DEF WriteOf, LastOf, n
<1>4. /\ KeepsIn(End, ins) => op.group \notin {"DELETE", "INIT_ARG_OR_FUNC"} /\ ~ IsFinalizing(op)
      /\ KeepsIn(End, ins) /\ op.group \in ReferenceGroups => x < End
      /\ KeepsIn(End, ins) /\ op.group \in IncrementGroups =>
            op.put # "ident" \/ op.operands # "literal"
  BY DEF KeepsIn, LastOf, n
<1> DEFINE One(f, w) == Taken(b, i, ins, f, n, w)
           Gone(f) == Passed(b, i, ins, f, n)
<1>5. \A f, w : One(f, w) => Gone(f)
  BY DEF Taken
<1>6. ASSUME GroupLiterals(op) = 1
      PROVE  /\ Gone(ReadIndex(b, e)) /\ One(ReadLiteral(b, e), NoReg)
             /\ NameLiterals(op) = 1 => One(ReadStringLiteral(b, e), NoReg)
             /\ One(DecodeWritten(b, e), IF x < End THEN x ELSE NoReg)
             /\ x < End => One(SetWriteReg(b, ReadIndex(b, e), ReadIndex(b, e).index), x)
             /\ Gone(DecodeReference(b, e))
             /\ x < End => One(DecodeReference(b, e), NoReg)
             /\ op.put = "ident" => One(ProcessPut(b, op, e), IF x < End THEN x ELSE NoReg)
  <2>1. n # 0 /\ OperandLiterals(op) = n - 1
    BY <1>1, <1>2, <1>6
  <2>2. Taken(b, i, ins, e, n - 1, NoReg) /\ n = Len(ins.lits)
    BY <2>1 DEF n
  <2>3. NameLiterals(op) = 1 => x >= End
    <3>1. NameLiterals(op) = 1 => n \in (n - NameLiterals(op) + 1)..n
      BY <1>2
    <3>2. QED
      BY <1>1, <3>1
  <2> HIDE DEF x
  <2>4. QED
    BY <2>1, <2>2, <2>3, OneTaken DEF x
<1> HIDE DEF x, d, End, One, Gone
<1>7. CASE op.group = "PUSH_THREE"
  BY <1>3, <1>5, <1>6, <1>7, GroupsDecode, GroupsTake, GroupsWrite DEF One, Gone, d
<1>8. CASE IsNaming(op)
  BY <1>3, <1>5, <1>6, <1>8, GroupsDecode, GroupsTake, GroupsWrite DEF One, Gone, d
<1>9. CASE op.group = "CREATE_ARGUMENTS"
  <2>1. WritesLast(op)
    BY <1>9 DEF WritesLast
  <2>2. QED
    BY <1>3, <1>5, <1>6, <1>9, <2>1, GroupsDecode, GroupsTake DEF One, Gone, d
<1>10. CASE IsFinalizing(op)
  BY <1>4, <1>6, <1>10, GroupsDecode, GroupsTake DEF Gone, d
<1>11. CASE op.group \in ReferenceGroups
  BY <1>3, <1>4, <1>6, <1>11, GroupsDecode, GroupsTake, GroupsWrite DEF One, Gone, d
<1>12. CASE IsPut(op)
  <2>1. WritesLast(op) /\ op.put = "ident" /\ op.group \in PutGroups
    BY <1>12 DEF WritesLast, IsPut
  <2>2. QED
    BY <1>3, <1>5, <1>6, <1>12, <2>1, GroupsDecode, GroupsTake DEF One, Gone, d
<1>13. CASE op.group = "MOV_IDENT"
  <2>1. WritesLast(op)
    BY <1>13 DEF WritesLast
  <2>2. QED
    BY <1>1, <1>3, <1>5, <1>6, <1>13, <2>1, GroupsDecode, GroupsTake DEF One, Gone, d
<1>14. CASE op.group = "DELETE"
  BY <1>4, <1>6, <1>14, GroupsDecode, GroupsTake DEF Gone, d
<1>15. CASE Plain(op)
  <2>1. d = e /\ GroupLiterals(op) = 0 /\ ~ WritesLast(op)
    BY <1>15, GroupsDecode, GroupsTake, GroupsWrite DEF d
  <2>2. n = OperandLiterals(op)
    BY <1>1, <1>2, <2>1
  <2>3. One(d, NoReg)
    BY <2>1, <2>2 DEF One
  <2>4. QED
    BY <1>3, <1>5, <2>1, <2>3 DEF One, Gone
<1>16. CASE op.group \in EvalGroups /\ ~ op.special
  <2>1. d = ReadStringLiteral(b, e)
    BY <1>16, GroupsDecode DEF d, DecodeEval
  <2>2. QED
    BY <1>3, <1>5, <1>6, <1>16, <2>1, GroupsTake, GroupsWrite DEF One, Gone
<1>17. ASSUME GroupLiterals(op) = 2
       PROVE  LET m == OperandLiterals(op) IN
              m \in Nat /\ Len(ins.lits) = m + 2 /\ n = m + 2 /\ Taken(b, i, ins, e, m, NoReg)
  BY <1>1, <1>2, <1>17 DEF n
<1>18. CASE op.group \in EvalGroups /\ op.special
  <2> DEFINE m == OperandLiterals(op)
  <2>1. GroupLiterals(op) = 2 /\ NameLiterals(op) = 2
    BY <1>18, GroupsTake
  <2>2. m \in Nat /\ Len(ins.lits) = m + 2 /\ n = m + 2 /\ Taken(b, i, ins, e, m, NoReg)
    BY <1>17, <2>1
  <2> HIDE DEF m
  <2>3. m + 1 \in (n - NameLiterals(op) + 1)..n /\ m + 2 \in (n - NameLiterals(op) + 1)..n
    BY <2>1, <2>2
  <2>4. ins.lits[m + 1] >= b.registerEnd /\ ins.lits[m + 2] >= b.registerEnd
    BY <1>1, <2>3 DEF End
  <2>5. One(ReadStringLiteral(b, ReadStringLiteral(b, e)), NoReg)
    BY <2>2, <2>4, EvalTaken DEF One
  <2>6. d = ReadStringLiteral(b, ReadStringLiteral(b, e))
    BY <1>18, GroupsDecode DEF d, DecodeEval
  <2>7. QED
    BY <1>3, <1>5, <1>18, <2>5, <2>6, GroupsWrite DEF One, Gone
<1>19. CASE op.group = "INIT_ARG_OR_FUNC"
  <2> DEFINE m == OperandLiterals(op)
  <2>1. GroupLiterals(op) = 2
    BY <1>19, GroupsTake
  <2>2. m \in Nat /\ Len(ins.lits) = m + 2 /\ n = m + 2 /\ Taken(b, i, ins, e, m, NoReg)
    BY <1>17, <2>1
  <2> HIDE DEF m
  <2>3. Gone(DecodeInit(b, e))
    BY <2>2, InitTaken DEF Gone
  <2>4. d = DecodeInit(b, e)
    BY <1>19, GroupsDecode DEF d
  <2>5. QED
    BY <1>4, <1>19, <2>3, <2>4 DEF Gone
<1>20. CASE op.group \in IncrementGroups
  <2> DEFINE back == [e EXCEPT !.next = e.offset + 2]
             m == OperandLiterals(op)
  <2>1. d = ProcessPut(b, op, back)
    <3>1. d = DecodeIncrement(b, op, e)
      BY <1>20, GroupsDecode DEF d
    <3>2. QED
      BY <3>1 DEF DecodeIncrement
  <2>2. /\ Passed(b, i, ins, back, 0) /\ back.write = NoReg
        /\ m = 0 => back = e
    BY SetBack
  <2>3. m = 0 \/ (op.operands = "literal" /\ op.put = "ident")
    <3>1. ins.op \in 1..Len(Ops)
      BY DEF Stands, IsCompiled
    <3>2. QED
      BY <1>20, <3>1, OpsAssumption
  <2> HIDE DEF back
  <2>4. CASE op.put # "ident"
    <3>1. m = 0 /\ GroupLiterals(op) = 0 /\ ~ WritesLast(op)
      BY <1>20, <2>3, <2>4, GroupsTake, GroupsWrite
    <3>2. d = e /\ n = m
      BY <1>1, <1>2, <2>1, <2>2, <2>4, <3>1 DEF ProcessPut
    <3>3. One(d, NoReg)
      BY <3>2 DEF One
    <3>4. QED
      BY <1>3, <1>5, <3>1, <3>3 DEF One, Gone
  <2>5. CASE op.put = "ident" /\ op.operands # "literal"
    <3>1. m = 0 /\ GroupLiterals(op) = 1 /\ WritesLast(op) /\ back = e
      BY <1>20, <2>2, <2>3, <2>5, GroupsTake DEF WritesLast, IsIncrement
    <3>2. QED
      BY <1>3, <1>5, <1>6, <2>1, <2>5, <3>1 DEF One, Gone
  <2>6. CASE op.put = "ident" /\ op.operands = "literal"
    <3>1. n = 1 /\ ~ KeepsIn(End, ins)
      <4>1. GroupLiterals(op) = 0 /\ m = 1
        BY <1>20, <2>6, GroupsTake DEF OperandLiterals
      <4>2. QED
        BY <1>1, <1>4, <1>20, <2>6, <4>1
    <3>2. 1 \in 1..Len(ins.lits) /\ 1 - 1 = 0
      BY <3>1 DEF n
    <3>3. IsCode(b) /\ Sound(b, back) /\ Reads(b, back, ins.lits[1])
      BY <2>2, <3>2, AtLiteral
    <3>4. \E w : After(b, back, d, <<ins.lits[1]>>, w, Behind(b, back, ins.lits[1]))
      BY <2>1, <2>6, <3>3, LiteralDecoded
    <3>5. Passed(b, i, ins, d, 1)
      <4>1. PICK w : After(b, back, d, <<ins.lits[1]>>, w, Behind(b, back, ins.lits[1]))
        BY <3>4
      <4>2. Passed(b, i, ins, back, 1 - 1)
        BY <2>2, <3>2
      <4>3. QED
        BY <3>2, <4>1, <4>2, Further
    <3>6. QED
      BY <3>1, <3>5
  <2>7. QED
    BY <2>4, <2>5, <2>6
<1>21. op.group # "LINE"
  BY DEF IsPlainlyCompiled
<1>22. QED
  BY <1>7, <1>8, <1>9, <1>10, <1>11, <1>12, <1>13, <1>14, <1>15, <1>16, <1>18, <1>19, <1>20,
     <1>21 DEF Plain

-----------------------------------------------------------------------------
(* What decoding leaves of an instruction compiled at position i. *)
IsDecoded(b, i, ins, d) ==
    /\ Sound(b, d) /\ d.op = ins.op /\ d.offset = i - 1 /\ d.arg = ins.arg
    /\ d.next = i + Len(Compiled(b.enc, ins))
    /\ KeepsIn(b.registerEnd, ins) =>
          d.lits = ins.lits /\ d.write = WriteOf(b.registerEnd, ins)

(* Decoding begins with the opcode that is found.                          *)
LEMMA OpcodeRead ==
    ASSUME NEW b, NEW i, NEW o \in 1..Len(Ops), b.cells[i] = - o
    PROVE  DecodeAt(b, i) = DecodeGroup(b, Ops[o], DecodeArguments(b, Ops[o], First(o, i)))
<1>1. Len(Ops) \in Nat
  BY OpsAssumption, LenProperties
<1>2. - b.cells[i] = o
  BY <1>1
<1>3. QED
  BY <1>2 DEF DecodeAt, First

(* All literals taken are all literals.                                    *)
LEMMA WholeTaken ==
    ASSUME NEW b, NEW i, NEW ins, Stands(b, i, ins), NEW d, NEW w,
           Taken(b, i, ins, d, Len(ins.lits), w)
    PROVE  d.lits = ins.lits /\ d.write = w
<1>1. ins.lits \in Seq(0..b.enc.reach)
  BY DEF Stands, IsCompiled
<1> DEFINE S == 0..b.enc.reach
<1>2. ins.lits \in Seq(S)
  BY <1>1
<1> HIDE DEF S
<1>3. SubSeq(ins.lits, 1, Len(ins.lits)) = ins.lits
  BY <1>2
<1>4. QED
  BY <1>3 DEF Taken

(* An instruction that is neither a branch nor a line is decoded.          *)
LEMMA PlainlyDecoded ==
    ASSUME NEW b, IsCode(b), NEW i \in Nat \ {0}, NEW ins, IsCompiled(b.enc, b.registerEnd, ins),
           IsPlainlyCompiled(ins), Found(b, i, Compiled(b.enc, ins))
    PROVE  IsDecoded(b, i, ins, DecodeAt(b, i))
<1> DEFINE op == Ops[ins.op]
           n == Len(ins.lits)
           e == DecodeArguments(b, op, First(ins.op, i))
           d == DecodeGroup(b, op, e)
           p == Place(b.enc, ins.lits, i, n)
<1>1. /\ b.cells[i] = - ins.op /\ Stands(b, i, ins) /\ Found(b, p, Trail(ins))
      /\ i + Len(Compiled(b.enc, ins)) = p + Len(Trail(ins))
  BY PartsFound
<1>2. ins.op \in 1..Len(Ops) /\ n = OperandLiterals(op) + GroupLiterals(op)
  BY DEF IsCompiled
<1>3. OperandLiterals(op) \in {0, 1, 2} /\ GroupLiterals(op) \in {0, 1, 2}
  BY DEF OperandLiterals, GroupLiterals, NameLiterals
<1>4. n \in Nat /\ OperandLiterals(op) <= n
  BY <1>2, <1>3
<1>5. p \in Nat
  <2>1. n \in 0..Len(ins.lits)
    BY <1>4
  <2>2. QED
    BY <1>1, <2>1 DEF Stands
<1> HIDE DEF p
<1>6. Taken(b, i, ins, e, OperandLiterals(op), NoReg)
  <2>1. op.operands # "branch"
    BY DEF IsPlainlyCompiled
  <2> HIDE DEF op
  <2>2. QED
    BY <1>1, <1>4, <2>1, ArgumentsTaken
<1>7. DecodeAt(b, i) = d
  BY <1>1, <1>2, OpcodeRead
<1> HIDE DEF e
<1>8. IF HasByte(op) THEN ins.arg \in Byte ELSE ins.arg = 0
  BY ArgumentCell
<1>9. CASE HasByte(op)
  <2>1. d = ByteRead(b, e)
    <3> HIDE DEF op
    <3>1. QED
      BY <1>9, CellsDecode
  <2>2. GroupLiterals(op) = 0 /\ ~ WritesLast(op)
    BY <1>9, GroupsTake, GroupsWrite
  <2>3. Taken(b, i, ins, e, n, NoReg)
    BY <1>2, <1>3, <1>6, <2>2
  <2>4. e.lits = ins.lits /\ e.write = NoReg
    BY <1>1, <2>3, WholeTaken
  <2>5. Sound(b, e) /\ e \in Decoding /\ e.op = ins.op /\ e.offset = i - 1 /\ e.next = p
    BY <2>3 DEF Taken, Passed, Sound, p
  <2>6. Trail(ins) = <<ins.arg>>
    BY <1>9 DEF Trail
  <2>7. b.cells[p] = ins.arg
    <3>1. 1 \in 1..Len(Trail(ins)) /\ Trail(ins)[1] = ins.arg /\ p + 1 - 1 = p
      BY <1>5, <2>6
    <3>2. QED
      BY <1>1, <3>1 DEF Found
  <2>8. ins.arg \in Int
    BY <1>8, <1>9, Bytes
  <2> HIDE DEF d
  <2> DEFINE arg == ins.arg
             next == p + 1
  <2>8a. d = [e EXCEPT !.arg = arg, !.next = next] /\ next \in Nat /\ arg \in Int
    BY <1>5, <2>1, <2>5, <2>7, <2>8 DEF ByteRead
  <2> HIDE DEF arg, next
  <2>9. /\ d \in Decoding
        /\ d.op = e.op /\ d.lits = e.lits /\ d.reads = e.reads /\ d.write = e.write
        /\ d.offset = e.offset /\ d.arg = arg /\ d.next = next
    BY <2>5, <2>8a DEF Decoding
  <2>10. Sound(b, d)
    BY <2>5, <2>9 DEF Sound
  <2>11. i + Len(Compiled(b.enc, ins)) = p + 1
    BY <1>1, <2>6
  <2>12. WriteOf(b.registerEnd, ins) = NoReg
    BY <2>2 DEF WriteOf
  <2>13. QED
    BY <1>7, <2>4, <2>5, <2>9, <2>10, <2>11, <2>12 DEF IsDecoded, arg, next
<1>10. CASE ~ HasByte(op)
  <2>1. /\ Passed(b, i, ins, d, n)
        /\ KeepsIn(b.registerEnd, ins) => Taken(b, i, ins, d, n, WriteOf(b.registerEnd, ins))
    BY <1>1, <1>6, <1>10, GroupTaken
  <2> HIDE DEF d
  <2>2. /\ Sound(b, d) /\ d.op = ins.op /\ d.offset = i - 1 /\ d.arg = 0 /\ d.next = p
    BY <2>1 DEF Passed, p
  <2>3. KeepsIn(b.registerEnd, ins) => d.lits = ins.lits /\ d.write = WriteOf(b.registerEnd, ins)
    <3>1. Stands(b, i, ins)
      BY <1>1
    <3>2. \A w : Taken(b, i, ins, d, Len(ins.lits), w) => d.lits = ins.lits /\ d.write = w
      BY <3>1, WholeTaken
    <3>3. QED
      BY <2>1, <3>2
  <2>4. Len(Trail(ins)) = 0
    BY <1>10 DEF Trail
  <2>5. i + Len(Compiled(b.enc, ins)) = p
    BY <1>1, <1>5, <2>4
  <2>6. QED
    BY <1>7, <1>8, <1>10, <2>2, <2>3, <2>5 DEF IsDecoded
<1>11. QED
  BY <1>9, <1>10

-----------------------------------------------------------------------------
(* Branches: their offset has one to three bytes. *)
BranchCells(size, n) == [k \in 1..n |-> (size \div ByteWeight[n - k + 1]) % 256]

Spells(c, n, size) ==
    /\ c \in Seq(Byte) /\ Len(c) = n
    /\ n = 1 => c[1] = size
    /\ n = 2 => c[1] * 256 + c[2] = size
    /\ n = 3 => (c[1] * 256 + c[2]) * 256 + c[3] = size

(* The bytes of a branch offset, the highest first, spell it.              *)
LEMMA BranchBytes ==
    ASSUME NEW n \in 1..3, NEW size \in Nat, size < ByteWeight[n + 1]
    PROVE  Spells(BranchCells(size, n), n, size)
<1> DEFINE c == BranchCells(size, n)
<1>0. c = [k \in 1..n |-> (size \div ByteWeight[n - k + 1]) % 256]
  BY DEF BranchCells
<1> HIDE DEF c
<1>1. \A k \in Nat : k % 256 \in Byte
  <2>1. \A k \in Nat : k % 256 \in Nat /\ k % 256 <= 255
    BY SMT
  <2>2. QED
    BY <2>1, Bytes
<1>2. /\ ByteWeight[1] = 1 /\ ByteWeight[2] = 256 /\ ByteWeight[3] = 65536
      /\ ByteWeight[4] = 16777216
  BY SMT DEF ByteWeight
<1>3. \A k \in 1..n : (size \div ByteWeight[n - k + 1]) \in Nat
  <2>1. \A k \in 1..n : n - k + 1 \in {1, 2, 3}
    BY SMT
  <2>2. \A k \in {1, 2, 3} : (size \div ByteWeight[k]) \in Nat
    BY <1>2, SMT
  <2>3. QED
    BY <2>1, <2>2, SMT
<1>4. c \in Seq(Byte) /\ Len(c) = n
  <2>1. c \in [1..n -> Byte]
    BY <1>0, <1>1, <1>3, SMT
  <2>2. QED
    BY <2>1, SMT
<1>5. ASSUME n = 1 PROVE c[1] = size
  <2>1. c[1] = (size \div 1) % 256 /\ size < 256
    BY <1>0, <1>2, <1>5, SMT
  <2>2. QED
    BY <1>4, <1>5, <2>1, SMT
<1>6. ASSUME n = 2 PROVE c[1] * 256 + c[2] = size
  <2>1. c[1] = (size \div 256) % 256 /\ c[2] = (size \div 1) % 256 /\ size < 65536
    BY <1>0, <1>2, <1>6, SMT
  <2>2. QED
    BY <1>4, <1>6, <2>1, SMT
<1>7. ASSUME n = 3 PROVE (c[1] * 256 + c[2]) * 256 + c[3] = size
  <2>1. /\ c[1] = (size \div 65536) % 256 /\ c[2] = (size \div 256) % 256
        /\ c[3] = (size \div 1) % 256 /\ size < 16777216
    BY <1>0, <1>2, <1>7, SMT
  <2>2. (size \div 65536) % 256 = size \div 65536
    BY <2>1, SMT
  <2>3. (size \div 65536) * 256 + ((size \div 256) % 256) = size \div 256
    BY SMT
  <2>4. (size \div 256) * 256 + ((size \div 1) % 256) = size
    BY SMT
  <2>5. QED
    BY <1>4, <1>7, <2>1, <2>2, <2>3, <2>4, SMT
<1>8. QED
  BY <1>4, <1>5, <1>6, <1>7, SMT DEF Spells, c

-----------------------------------------------------------------------------
(* Numbers of up to four digits c[lo + 1], c[lo + 2], ... to the base m:   *)
(* the recursion that reads them has a solution. *)
Read(u, lo, m, c, k) == IF k = lo THEN 0 ELSE u[k - 1] * m + c[k]

IsRead(lo, n, m, c) == \E u : u = [k \in lo..(lo + n) |-> Read(u, lo, m, c, k)]

(* A number is read from its digits.                                       *)
LEMMA DigitsRead ==
    ASSUME NEW lo \in Int, NEW n \in 1..4, NEW m, NEW c
    PROVE  IsRead(lo, n, m, c)
<1> DEFINE T1 == 0 * m + c[lo + 1]
           T2 == T1 * m + c[lo + 2]
           T3 == T2 * m + c[lo + 3]
           T4 == T3 * m + c[lo + 4]
           V(k) == IF k = lo THEN 0 ELSE IF k = lo + 1 THEN T1 ELSE IF k = lo + 2 THEN T2
                   ELSE IF k = lo + 3 THEN T3 ELSE T4
           u == [k \in lo..(lo + n) |-> V(k)]
<1>1. ASSUME NEW k \in lo..(lo + n) PROVE u[k] = Read(u, lo, m, c, k)
  <2>1. u[k] = V(k)
    OBVIOUS
  <2>2. k # lo => u[k - 1] = V(k - 1)
    OBVIOUS
  <2>3. k \in {lo, lo + 1, lo + 2, lo + 3, lo + 4}
    OBVIOUS
  <2> HIDE DEF u
  <2>4. CASE k = lo
    BY <2>1, <2>4 DEF Read
  <2>5. CASE k = lo + 1
    <3>1. k # lo /\ k - 1 = lo
      BY <2>5
    <3>2. V(k) = T1 /\ V(k - 1) = 0
      BY <2>5, <3>1
    <3>3. QED
      BY <2>1, <2>2, <2>5, <3>1, <3>2 DEF Read
  <2>6. CASE k = lo + 2
    <3>1. k # lo /\ k # lo + 1 /\ k - 1 = lo + 1 /\ k - 1 # lo
      BY <2>6
    <3>2. V(k) = T2 /\ V(k - 1) = T1
      BY <2>6, <3>1
    <3> HIDE DEF T1, V
    <3>3. QED
      BY <2>1, <2>2, <2>6, <3>1, <3>2 DEF Read
  <2>7. CASE k = lo + 3
    <3>1. k \notin {lo, lo + 1, lo + 2} /\ k - 1 = lo + 2 /\ k - 1 \notin {lo, lo + 1}
      BY <2>7
    <3>2. V(k) = T3 /\ V(k - 1) = T2
      BY <2>7, <3>1
    <3> HIDE DEF T2, V
    <3>3. QED
      BY <2>1, <2>2, <2>7, <3>1, <3>2 DEF Read
  <2>8. CASE k = lo + 4
    <3>1. k \notin {lo, lo + 1, lo + 2, lo + 3} /\ k - 1 = lo + 3
          /\ k - 1 \notin {lo, lo + 1, lo + 2}
      BY <2>8
    <3>2. V(k) = T4 /\ V(k - 1) = T3
      BY <2>8, <3>1
    <3> HIDE DEF T3, V
    <3>3. QED
      BY <2>1, <2>2, <2>8, <3>1, <3>2 DEF Read
  <2>9. QED
    BY <2>3, <2>4, <2>5, <2>6, <2>7, <2>8
<1>2. u = [k \in lo..(lo + n) |-> u[k]]
  <2> HIDE DEF V
  <2>1. QED
    OBVIOUS
<1> HIDE DEF u
<1>3. u = [k \in lo..(lo + n) |-> Read(u, lo, m, c, k)]
  BY <1>1, <1>2
<1>4. QED
  BY <1>3 DEF IsRead

(* Branches. *)
LEMMA BranchDecodes ==
    ASSUME NEW b, NEW op, op.length \in 1..3, NEW i \in Nat, NEW c, NEW size,
           Spells(c, op.length, size), Found(b, i, c)
    PROVE  DecodeBranch(b, op, i) = IF op.backward THEN - size ELSE size
<1> DEFINE n == op.length
           Step(u, k) == IF k = 0 THEN 0 ELSE u[k - 1] * 256 + b.cells[i + k - 1]
           value == CHOOSE u : u = [k \in 0..n |-> Step(u, k)]
<1>0. /\ c \in Seq(Byte) /\ Len(c) = n
      /\ n = 1 => c[1] = size
      /\ n = 2 => c[1] * 256 + c[2] = size
      /\ n = 3 => (c[1] * 256 + c[2]) * 256 + c[3] = size
  BY DEF Spells
<1>1. n \in 1..3 /\ \A k \in 1..n : b.cells[i + k - 1] = c[k] /\ c[k] \in Nat
  <2>1. \A k \in 1..n : b.cells[i + k - 1] = c[k]
    BY <1>0 DEF Found
  <2>2. \A k \in 1..n : c[k] \in Byte
    BY <1>0
  <2>3. QED
    BY <2>1, <2>2, Bytes
<1>2. \E u : u = [k \in 0..n |-> Step(u, k)]
  <2> DEFINE cell == [k \in 0..3 |-> b.cells[i + k - 1]]
  <2> HIDE DEF n
  <2>1. \A u, k : k \in 0..n => Step(u, k) = Read(u, 0, 256, cell, k)
    BY <1>1 DEF Read
  <2> HIDE DEF cell, Step
  <2>2. \E u : u = [k \in 0..n |-> Read(u, 0, 256, cell, k)]
    <3> DEFINE lo == 0
               base == 256
    <3>1. n \in 1..4 /\ lo \in Int /\ lo + n = n /\ lo = 0
      BY <1>1
    <3> HIDE DEF lo, base
    <3>2. IsRead(lo, n, base, cell)
      BY <3>1, DigitsRead
    <3>3. lo..(lo + n) = 0..n
      BY <3>1
    <3>4. PICK u : u = [k \in lo..(lo + n) |-> Read(u, lo, base, cell, k)]
      BY <3>2 DEF IsRead
    <3>5. u = [k \in 0..n |-> Read(u, 0, 256, cell, k)]
      BY <3>1, <3>3, <3>4 DEF base
    <3>6. QED
      BY <3>5
  <2>3. PICK u : u = [k \in 0..n |-> Read(u, 0, 256, cell, k)]
    BY <2>2
  <2>4. \A k \in 0..n : Read(u, 0, 256, cell, k) = Step(u, k)
    BY <2>1
  <2>5. [k \in 0..n |-> Read(u, 0, 256, cell, k)] = [k \in 0..n |-> Step(u, k)]
    BY <2>4
  <2>6. u = [k \in 0..n |-> Step(u, k)]
    BY <2>3, <2>5, Zenon
  <2>7. QED
    BY <2>6
<1>3. value = [k \in 0..n |-> Step(value, k)]
  <2> HIDE DEF Step
  <2>1. QED
    BY <1>2
<1>4. DecodeBranch(b, op, i) = IF op.backward THEN - value[n] ELSE value[n]
  BY DEF DecodeBranch
<1> HIDE DEF value, n
<1>5. /\ value[0] = 0
      /\ \A k \in 1..n : value[k] = value[k - 1] * 256 + c[k]
  <2>1. 0 \in 0..n /\ \A k \in 1..n : k \in 0..n /\ k # 0
    BY <1>1
  <2>2. value[0] = Step(value, 0) /\ \A k \in 1..n : value[k] = Step(value, k)
    <3> HIDE DEF Step
    <3>1. QED
      BY <1>3, <2>1
  <2>3. QED
    BY <1>1, <2>1, <2>2
<1>6. value[n] = size
  <2>1. value[1] = c[1]
    <3>1. 1 \in 1..n /\ 1 - 1 = 0
      BY <1>1
    <3>2. QED
      BY <1>1, <1>5, <3>1
  <2>2. n >= 2 => value[2] = c[1] * 256 + c[2]
    <3>1. n >= 2 => 2 \in 1..n /\ 2 - 1 = 1
      BY <1>1
    <3>2. QED
      BY <1>5, <2>1, <3>1
  <2>3. n = 3 => value[3] = (c[1] * 256 + c[2]) * 256 + c[3]
    <3>1. n = 3 => 3 \in 1..n /\ 3 - 1 = 2 /\ n >= 2
      BY <1>1
    <3>2. QED
      BY <1>5, <2>2, <3>1
  <2>4. n \in {1, 2, 3}
    BY <1>1
  <2>5. QED
    BY <1>0, <2>1, <2>2, <2>3, <2>4
<1>7. QED
  BY <1>4, <1>6

-----------------------------------------------------------------------------
(* Lines: one to four groups of seven bits. *)
GroupsOf(line, n) == [k \in 1..n |-> (line \div GroupWeight[n - k + 1]) % 128]

Marked(g, n) == [k \in 1..n |-> g[k] + (IF k < n THEN 128 ELSE 0)]

(* What the groups g of a line are. *)
AreGroups(g, n, line) ==
    /\ \A k \in 1..n : g[k] \in Nat /\ g[k] <= 127
    /\ n = 1 => g[1] = line
    /\ n = 2 => g[1] * 128 + g[2] = line
    /\ n = 3 => (g[1] * 128 + g[2]) * 128 + g[3] = line
    /\ n = 4 => ((g[1] * 128 + g[2]) * 128 + g[3]) * 128 + g[4] = line

(* The groups of seven bits of a line number make it up again.             *)
LEMMA Groups ==
    ASSUME NEW line \in Nat, NEW n \in 1..4, line < GroupWeight[n + 1], NEW g,
           g = GroupsOf(line, n)
    PROVE  AreGroups(g, n, line)
<1>0. g = [k \in 1..n |-> (line \div GroupWeight[n - k + 1]) % 128]
  BY DEF GroupsOf
<1>1. \A k \in Nat : k % 128 \in Nat /\ k % 128 <= 127
  BY SMT
<1>2. /\ GroupWeight[1] = 1 /\ GroupWeight[2] = 128 /\ GroupWeight[3] = 16384
      /\ GroupWeight[4] = 2097152 /\ GroupWeight[5] = 268435456
  BY SMT DEF GroupWeight
<1> DEFINE d1 == line \div 1
           d2 == line \div 128
           d3 == line \div 16384
           d4 == line \div 2097152
<1>3. /\ d1 = line
      /\ d2 * 128 + (d1 % 128) = d1
      /\ d3 * 128 + (d2 % 128) = d2
      /\ d4 * 128 + (d3 % 128) = d3
  BY SMT
<1>4. d1 \in Nat /\ d2 \in Nat /\ d3 \in Nat /\ d4 \in Nat
  BY SMT
<1>5. /\ line < 128 => d1 % 128 = d1
      /\ line < 16384 => d2 % 128 = d2
      /\ line < 2097152 => d3 % 128 = d3
      /\ line < 268435456 => d4 % 128 = d4
  BY SMT
<1>6. ASSUME NEW k \in 1..n PROVE (line \div GroupWeight[n - k + 1]) \in Nat
  <2> DEFINE j == n - k + 1
  <2>1. j \in {1, 2, 3, 4}
    BY SMT
  <2> HIDE DEF j
  <2>2. (line \div GroupWeight[j]) \in Nat
    BY <1>2, <1>4, <2>1, SMT
  <2>3. QED
    BY <2>2, SMT DEF j
<1>7. \A k \in 1..n : g[k] \in Nat /\ g[k] <= 127
  BY <1>0, <1>1, <1>6, SMT
<1>8. CASE n = 1
  <2>1. g[1] = d1 % 128 /\ line < 128
    BY <1>0, <1>2, <1>8, SMT
  <2> HIDE DEF d1, d2, d3, d4
  <2>2. QED
    BY <1>3, <1>4, <1>5, <1>7, <1>8, <2>1, SMT DEF AreGroups
<1>9. CASE n = 2
  <2>1. g[1] = d2 % 128 /\ g[2] = d1 % 128 /\ line < 16384
    BY <1>0, <1>2, <1>9, SMT
  <2> HIDE DEF d1, d2, d3, d4
  <2>2. QED
    BY <1>3, <1>4, <1>5, <1>7, <1>9, <2>1, SMT DEF AreGroups
<1>10. CASE n = 3
  <2>1. g[1] = d3 % 128 /\ g[2] = d2 % 128 /\ g[3] = d1 % 128 /\ line < 2097152
    BY <1>0, <1>2, <1>10, SMT
  <2> HIDE DEF d1, d2, d3, d4
  <2>2. QED
    BY <1>3, <1>4, <1>5, <1>7, <1>10, <2>1, SMT DEF AreGroups
<1>11. CASE n = 4
  <2>1. /\ g[1] = d4 % 128 /\ g[2] = d3 % 128 /\ g[3] = d2 % 128 /\ g[4] = d1 % 128
        /\ line < 268435456
    BY <1>0, <1>2, <1>11, SMT
  <2> HIDE DEF d1, d2, d3, d4
  <2>2. QED
    BY <1>3, <1>4, <1>5, <1>7, <1>11, <2>1, SMT DEF AreGroups
<1>12. QED
  BY <1>7, <1>8, <1>9, <1>10, <1>11, SMT DEF AreGroups

(* A line number is compiled to as many groups as it needs, all marked but *)
(* the last.                                                               *)
LEMMA LineCells ==
    ASSUME NEW line \in Nat, line < GroupWeight[5]
    PROVE  \E n \in 1..4 : /\ line < GroupWeight[n + 1]
                           /\ CompileLine(line) = Marked(GroupsOf(line, n), n)
<1>1. /\ GroupWeight[1] = 1 /\ GroupWeight[2] = 128 /\ GroupWeight[3] = 16384
      /\ GroupWeight[4] = 2097152 /\ GroupWeight[5] = 268435456
  BY SMT DEF GroupWeight
<1>2. line \in Nat /\ line < GroupWeight[5]
  OBVIOUS
<1> DEFINE Fits(k) == line < GroupWeight[k + 1] /\ (k = 1 \/ line >= GroupWeight[k])
           n == CHOOSE k \in 1..4 : Fits(k)
<1>3. \E k \in 1..4 : Fits(k)
  <2>1. CASE line < 128
    BY <1>1, <2>1, SMT
  <2>2. CASE line >= 128 /\ line < 16384
    BY <1>1, <2>2, SMT
  <2>3. CASE line >= 16384 /\ line < 2097152
    BY <1>1, <2>3, SMT
  <2>4. CASE line >= 2097152
    <3>1. Fits(4)
      BY <1>1, <1>2, <2>4, SMT
    <3>2. QED
      BY <3>1, SMT
  <2>5. QED
    BY <1>2, <2>1, <2>2, <2>3, <2>4, SMT
<1>4. n \in 1..4 /\ Fits(n)
  <2> HIDE DEF Fits
  <2>1. QED
    BY <1>3, SMT
<1>5. CompileLine(line) = [k \in 1..n |-> ((line \div GroupWeight[n - k + 1]) % 128)
                                           + (IF k < n THEN 128 ELSE 0)]
  BY SMT DEF CompileLine
<1> HIDE DEF n
<1>6. line < GroupWeight[n + 1]
  BY <1>4, SMT
<1> HIDE DEF Fits
<1> DEFINE g == GroupsOf(line, n)
<1>7. \A k \in 1..n : g[k] = (line \div GroupWeight[n - k + 1]) % 128
  BY Zenon DEF GroupsOf
<1> HIDE DEF g
<1>8. CompileLine(line) = Marked(g, n)
  BY <1>5, <1>7, SMT DEF Marked
<1>9. QED
  BY <1>4, <1>6, <1>8 DEF g

(* A group of seven bits, marked or not, is a byte and keeps its value.    *)
LEMMA CellValues ==
    ASSUME NEW g \in Nat, g <= 127
    PROVE  /\ g % 128 = g /\ g < 128 /\ g \in Byte
           /\ (g + 128) % 128 = g /\ g + 128 >= 128 /\ g + 128 \in Byte
<1>1. /\ g % 128 = g /\ g < 128 /\ g <= 255 /\ g + 128 \in Nat
      /\ (g + 128) % 128 = g /\ g + 128 >= 128 /\ g + 128 <= 255
  BY SMT
<1>2. QED
  BY <1>1, Bytes

(* The cells of a line, of which its groups are found again. *)
IsLine(line, n, c) ==
    /\ AreGroups(GroupsOf(line, n), n, line)
    /\ c \in Seq(Byte) /\ Len(c) = n
    /\ \A k \in 1..n : /\ c[k] % 128 = GroupsOf(line, n)[k]
                       /\ c[k] < 128 <=> k = n
                       /\ c[k] >= 128 <=> k # n

(* What a line number is compiled to.                                      *)
LEMMA LineIs ==
    ASSUME NEW line \in Nat, line < GroupWeight[5]
    PROVE  \E n \in 1..4 : IsLine(line, n, CompileLine(line))
<1> DEFINE c == CompileLine(line)
<1>1. PICK n \in 1..4 : line < GroupWeight[n + 1] /\ c = Marked(GroupsOf(line, n), n)
  BY LineCells, Zenon
<1> DEFINE g == GroupsOf(line, n)
<1>2. c = Marked(g, n)
  BY <1>1
<1> HIDE DEF c
<1>3. AreGroups(g, n, line)
  <2>1. /\ line \in Nat /\ n \in 1..4 /\ line < GroupWeight[n + 1] /\ g = GroupsOf(line, n)
    BY <1>1, Zenon
  <2> HIDE DEF g
  <2>2. QED
    BY <2>1, Groups, Zenon
<1> HIDE DEF g
<1>4. ASSUME NEW k \in 1..n
      PROVE  c[k] \in Byte /\ c[k] % 128 = g[k] /\ (c[k] < 128 <=> k = n) /\ (c[k] >= 128 <=> k # n)
  <2>1. g[k] \in Nat /\ g[k] <= 127
    BY <1>3, Zenon DEF AreGroups
  <2>2. /\ g[k] % 128 = g[k] /\ g[k] < 128 /\ g[k] \in Byte
        /\ (g[k] + 128) % 128 = g[k] /\ g[k] + 128 >= 128 /\ g[k] + 128 \in Byte
    <3> DEFINE x == g[k]
    <3>1. x \in Nat /\ x <= 127
      BY <2>1
    <3> HIDE DEF x
    <3>2. /\ x % 128 = x /\ x < 128 /\ x \in Byte
          /\ (x + 128) % 128 = x /\ x + 128 >= 128 /\ x + 128 \in Byte
      BY <3>1, CellValues, Zenon
    <3>3. QED
      BY <3>2 DEF x
  <2>3. CASE k = n
    <3>1. c[k] = g[k]
      BY <1>2, <2>1, <2>3, SMT DEF Marked
    <3>2. ~ (c[k] >= 128)
      BY <2>1, <2>2, <3>1, SMT
    <3>3. QED
      BY <2>2, <2>3, <3>1, <3>2, Zenon
  <2>4. CASE k # n
    <3>1. c[k] = g[k] + 128
      BY <1>2, <2>4, SMT DEF Marked
    <3>2. ~ (c[k] < 128)
      BY <2>1, <2>2, <3>1, SMT
    <3>3. QED
      BY <2>2, <2>4, <3>1, <3>2, Zenon
  <2>5. QED
    BY <2>3, <2>4
<1>5. c \in Seq(Byte) /\ Len(c) = n
  <2>1. c \in [1..n -> Byte]
    <3>1. c = [k \in 1..n |-> c[k]]
      BY <1>2 DEF Marked
    <3>2. QED
      BY <1>4, <3>1
  <2>2. QED
    BY <2>1
<1>6. IsLine(line, n, c)
  BY <1>3, <1>4, <1>5 DEF IsLine, g
<1>7. QED
  BY <1>6 DEF c

(* A line number is decoded: its end is found, and it has its value.       *)
LEMMA LineDecodes ==
    ASSUME NEW b, NEW i \in Nat \ {0}, NEW line, NEW n \in 1..4, IsLine(line, n, CompileLine(line)),
           Found(b, i, CompileLine(line)), Len(b.cells) \in Nat
    PROVE  /\ LineEnd(b, i) = i + Len(CompileLine(line)) - 1
           /\ DecodeLine(b, i) = line
<1> DEFINE c == CompileLine(line)
           g == GroupsOf(line, n)
<1>3. AreGroups(g, n, line)
  BY DEF IsLine
<1>4. \A k \in 1..n : c[k] % 128 = g[k] /\ (c[k] < 128 <=> k = n) /\ (c[k] >= 128 <=> k # n)
  BY DEF IsLine
<1>5. c \in Seq(Byte) /\ Len(c) = n
  BY DEF IsLine
<1> HIDE DEF c, g
<1>6. \A k \in 1..n : i + k - 1 \in 1..Len(b.cells) /\ b.cells[i + k - 1] = c[k]
  BY <1>5 DEF Found, c
<1> DEFINE last == i + n - 1
           IsLast(j) == b.cells[j] < 128 /\ \A k \in i..(j - 1) : b.cells[k] >= 128
<1>7. \A k \in i..last : /\ b.cells[k] % 128 = g[k - i + 1]
                         /\ b.cells[k] < 128 <=> k = last
                         /\ b.cells[k] >= 128 <=> k # last
  <2> SUFFICES ASSUME NEW k \in i..last
               PROVE  /\ b.cells[k] % 128 = g[k - i + 1]
                      /\ b.cells[k] < 128 <=> k = last
                      /\ b.cells[k] >= 128 <=> k # last
    OBVIOUS
  <2> DEFINE j == k - i + 1
  <2>1. j \in 1..n /\ i + j - 1 = k /\ (j = n <=> k = last)
    BY SMT
  <2> HIDE DEF j
  <2>2. b.cells[k] = c[j]
    BY <1>6, <2>1
  <2>3. QED
    BY <1>4, <2>1, <2>2 DEF j
<1>8. last \in i..Len(b.cells) /\ IsLast(last)
  <2>1. n \in 1..n /\ last \in i..last
    BY SMT
  <2>2. last \in i..Len(b.cells)
    BY <1>6, <2>1, SMT
  <2>3. \A k \in i..(last - 1) : k \in i..last /\ k # last
    BY SMT
  <2> HIDE DEF last
  <2>4. QED
    BY <1>7, <2>1, <2>2, <2>3
<1>9. ASSUME NEW j \in i..Len(b.cells), IsLast(j) PROVE j = last
  <2>1. CASE j < last
    <3>1. j \in i..last /\ j # last
      BY <2>1, SMT
    <3>2. QED
      BY <1>7, <1>9, <3>1
  <2>2. CASE j > last
    <3>1. last \in i..(j - 1) /\ last \in i..last
      BY <2>2, SMT
    <3>2. b.cells[last] >= 128
      BY <1>9, <3>1
    <3>3. QED
      BY <1>7, <3>1, <3>2
  <2>3. QED
    BY <2>1, <2>2, SMT
<1> HIDE DEF last, IsLast
<1>10. LineEnd(b, i) = last
  <2>1. LineEnd(b, i) = CHOOSE j \in i..Len(b.cells) : IsLast(j)
    BY DEF LineEnd, IsLast
  <2>2. QED
    BY <1>8, <1>9, <2>1
<1> DEFINE lo == i - 1
           Step(u, k) == IF k = i - 1 THEN 0 ELSE u[k - 1] * 128 + (b.cells[k] % 128)
           value == CHOOSE u : u = [k \in lo..last |-> Step(u, k)]
<1>11. lo \in Nat /\ lo + n = last /\ lo..(lo + n) = lo..last
  BY SMT DEF last
<1>12. \E u : u = [k \in lo..last |-> Step(u, k)]
  <2> DEFINE digit == [k \in lo..last |-> b.cells[k] % 128]
             base == 128
  <2>1. \A u, k : k \in lo..last => Step(u, k) = Read(u, lo, base, digit, k)
    BY DEF Read
  <2> HIDE DEF digit, Step, lo, base
  <2>2. IsRead(lo, n, base, digit)
    BY <1>11, DigitsRead
  <2>3. PICK u : u = [k \in lo..(lo + n) |-> Read(u, lo, base, digit, k)]
    BY <2>2 DEF IsRead
  <2>4. u = [k \in lo..last |-> Read(u, lo, base, digit, k)]
    BY <1>11, <2>3
  <2>5. \A k \in lo..last : Read(u, lo, base, digit, k) = Step(u, k)
    BY <2>1
  <2>6. [k \in lo..last |-> Read(u, lo, base, digit, k)] = [k \in lo..last |-> Step(u, k)]
    BY <2>5
  <2>7. u = [k \in lo..last |-> Step(u, k)]
    BY <2>4, <2>6, Zenon
  <2>8. QED
    BY <2>7
<1>13. value = [k \in lo..last |-> Step(value, k)]
  <2> HIDE DEF Step, lo
  <2>1. QED
    BY <1>12
<1>14. DecodeLine(b, i) = value[last]
  BY <1>10 DEF DecodeLine
<1> HIDE DEF value
<1>15. value[lo] = 0 /\ \A k \in 1..n : value[lo + k] = value[lo + k - 1] * 128 + g[k]
  <2>1. value[lo] = 0
    <3>1. lo \in lo..last
      BY <1>11, SMT
    <3>2. value[lo] = Step(value, lo)
      <4> HIDE DEF Step, lo
      <4>1. QED
        BY <1>13, <3>1
    <3>3. QED
      BY <3>2
  <2>2. ASSUME NEW k \in 1..n PROVE value[lo + k] = value[lo + k - 1] * 128 + g[k]
    <3> DEFINE j == lo + k
    <3>1. j \in i..last /\ j \in lo..last /\ j # i - 1 /\ j - i + 1 = k
      BY SMT DEF last
    <3> HIDE DEF j
    <3>2. value[j] = Step(value, j)
      <4> HIDE DEF Step, lo
      <4>1. QED
        BY <1>13, <3>1
    <3>3. value[j] = value[j - 1] * 128 + (b.cells[j] % 128)
      BY <3>1, <3>2
    <3>4. b.cells[j] % 128 = g[k]
      BY <1>7, <3>1
    <3>5. QED
      BY <3>3, <3>4 DEF j
  <2>3. QED
    BY <2>1, <2>2
<1> HIDE DEF lo
<1>16. value[last] = line
  <2>1. value[lo + 1] = g[1]
    <3>1. 1 \in 1..n /\ lo + 1 - 1 = lo /\ 0 * 128 = 0
      BY <1>11, SMT
    <3>2. value[lo + 1] = 0 * 128 + g[1] /\ g[1] \in Nat
      BY <1>3, <1>15, <3>1 DEF AreGroups
    <3>3. QED
      BY <3>1, <3>2
  <2>2. n >= 2 => value[lo + 2] = g[1] * 128 + g[2]
    <3>1. n >= 2 => 2 \in 1..n /\ lo + 2 - 1 = lo + 1
      BY <1>11, SMT
    <3>2. QED
      BY <1>15, <2>1, <3>1
  <2>3. n >= 3 => value[lo + 3] = (g[1] * 128 + g[2]) * 128 + g[3]
    <3>1. n >= 3 => 3 \in 1..n /\ lo + 3 - 1 = lo + 2 /\ n >= 2
      BY <1>11, SMT
    <3>2. QED
      BY <1>15, <2>2, <3>1
  <2>4. n >= 4 => value[lo + 4] = ((g[1] * 128 + g[2]) * 128 + g[3]) * 128 + g[4]
    <3>1. n >= 4 => 4 \in 1..n /\ lo + 4 - 1 = lo + 3 /\ n >= 3
      BY <1>11, SMT
    <3>2. QED
      BY <1>15, <2>3, <3>1
  <2>5. n \in {1, 2, 3, 4}
    OBVIOUS
  <2>6. QED
    BY <1>3, <1>11, <2>1, <2>2, <2>3, <2>4, <2>5 DEF AreGroups
<1>17. Len(c) # 0 /\ last = i + Len(c) - 1
  BY <1>5, SMT DEF last
<1>18. QED
  BY <1>10, <1>14, <1>16, <1>17 DEF c

-----------------------------------------------------------------------------
(* An instruction without literals, which is its opcode and the cells c.   *)
Bare(ins, c) == <<- ins.op>> \o c

IsBare(b, i, ins, c) ==
    /\ b.cells[i] = - ins.op /\ Found(b, i + 1, c)
    /\ Taken(b, i, ins, First(ins.op, i), 0, NoReg)
    /\ i + Len(Compiled(b.enc, ins)) = i + 1 + Len(c)

(* Where an instruction without literals is found, what is behind its      *)
(* opcode is.                                                              *)
LEMMA BarelyFound ==
    ASSUME NEW b, IsCode(b), NEW i \in Nat \ {0}, NEW ins, IsCompiled(b.enc, b.registerEnd, ins),
           Len(ins.lits) = 0, NEW c \in Seq(Byte), Compiled(b.enc, ins) = Bare(ins, c),
           Found(b, i, Compiled(b.enc, ins))
    PROVE  IsBare(b, i, ins, c)
<1> DEFINE opcode == <<- ins.op>>
<1>1. ins.op \in 1..Len(Ops) /\ ins.lits \in Seq(0..b.enc.reach)
  BY DEF IsCompiled
<1>2. opcode \in Seq(Cells) /\ Len(opcode) = 1 /\ opcode[1] = - ins.op
  <2>1. - ins.op \in Cells
    BY <1>1 DEF Cells, OpCells
  <2>2. QED
    BY <2>1
<1>3. c \in Seq(Cells)
  <2>1. Byte \subseteq Cells
    BY DEF Cells
  <2> HIDE DEF Cells
  <2>2. QED
    BY <2>1
<1>4. Len(c) \in Nat
  BY LenProperties
<1>5. Found(b, i, opcode \o c)
  BY DEF Bare
<1> HIDE DEF opcode
<1>6. Found(b, i, opcode) /\ Found(b, i + Len(opcode), c)
  BY <1>2, <1>3, <1>5, FoundApart
<1>7. b.cells[i] = - ins.op
  <2>1. 1 \in 1..Len(opcode) /\ i + 1 - 1 = i
    BY <1>2
  <2>2. QED
    BY <1>2, <1>6, <2>1 DEF Found
<1>8. Len(opcode \o c) = 1 + Len(c)
  <2>1. Len(opcode \o c) = Len(opcode) + Len(c)
    BY <1>2, <1>3, ConcatProperties, Zenon
  <2>2. QED
    BY <1>2, <2>1
<1>9. Stands(b, i, ins)
  <2>1. Joined(Codes(b.enc, ins.lits), 0) = <<>>
    <3>1. Codes(b.enc, ins.lits) \in Seq(Seq(Byte))
      BY <1>1, LiteralCodes DEF IsCode
    <3>2. JoinedIsThat(Byte, Codes(b.enc, ins.lits))
      BY <3>1, JoinedUnfolds
    <3>3. QED
      BY <3>2 DEF JoinedIsThat
  <2>2. Found(b, i + 1, Joined(Codes(b.enc, ins.lits), Len(ins.lits)))
    BY <2>1 DEF Found
  <2>3. QED
    BY <2>2, StandsThere
<1>10. Taken(b, i, ins, First(ins.op, i), 0, NoReg)
  BY <1>9, FirstTaken
<1>11. i + Len(Compiled(b.enc, ins)) = i + 1 + Len(c)
  BY <1>4, <1>8 DEF opcode, Bare
<1>12. QED
  BY <1>2, <1>6, <1>7, <1>10, <1>11 DEF IsBare

(* Its argument is taken from them. *)
WithArgument(d, arg, next) == [d EXCEPT !.arg = arg, !.next = next]

(* An instruction without literals is decoded if its argument is.          *)
LEMMA ArgumentDecoded ==
    ASSUME NEW b, NEW i, NEW ins, Taken(b, i, ins, First(ins.op, i), 0, NoReg),
           ins.lits \in Seq(LiteralIndex), Len(ins.lits) = 0, ~ WritesLast(Ops[ins.op]),
           NEW next \in Nat, i + Len(Compiled(b.enc, ins)) = next,
           ins.arg \in Int, DecodeAt(b, i) = WithArgument(First(ins.op, i), ins.arg, next)
    PROVE  IsDecoded(b, i, ins, DecodeAt(b, i))
<1> DEFINE e == First(ins.op, i)
           d == DecodeAt(b, i)
           arg == ins.arg
<1>1. Sound(b, e) /\ e \in Decoding /\ e.op = ins.op /\ e.offset = i - 1
      /\ e.write = NoReg
  BY DEF Taken, Passed, Sound
<1>2. e.lits = ins.lits
  <2>1. e.lits = <<>> /\ ins.lits = <<>>
    BY DEF First
  <2>2. QED
    BY <2>1
<1>3. d = [e EXCEPT !.arg = arg, !.next = next] /\ arg \in Int
  BY DEF WithArgument
<1>4. WriteOf(b.registerEnd, ins) = NoReg
  BY DEF WriteOf
<1> HIDE DEF e, d, arg
<1>5. /\ d \in Decoding
      /\ d.op = e.op /\ d.lits = e.lits /\ d.reads = e.reads /\ d.write = e.write
      /\ d.offset = e.offset /\ d.arg = arg /\ d.next = next
  BY <1>1, <1>3 DEF Decoding
<1>6. Sound(b, d)
  BY <1>1, <1>5 DEF Sound
<1>7. QED
  BY <1>1, <1>2, <1>4, <1>5, <1>6 DEF IsDecoded, d, arg

(* Branches. *)
IsBranch(enc, ins) ==
    LET op == Ops[ins.op]
        c == CompileBranch(op, ins.arg)
    IN  /\ ins.op \in 1..Len(Ops) /\ op.length \in 1..3 /\ Plain(op) /\ ~ WritesLast(op)
        /\ Len(ins.lits) = 0 /\ ins.lits \in Seq(LiteralIndex) /\ ins.arg \in Int
        /\ Compiled(enc, ins) = Bare(ins, c)
        /\ \E size : /\ Spells(c, op.length, size)
                     /\ ins.arg = IF op.backward THEN - size ELSE size

(* What a branch is compiled to, ...                                       *)
LEMMA BranchCompiled ==
    ASSUME NEW enc, NEW registerEnd, NEW ins, IsCompiled(enc, registerEnd, ins),
           Ops[ins.op].operands = "branch"
    PROVE  IsBranch(enc, ins)
<1> DEFINE op == Ops[ins.op]
           size == IF op.backward THEN - ins.arg ELSE ins.arg
           c == CompileBranch(op, ins.arg)
<1>1. ins.op \in 1..Len(Ops) /\ op \in Op /\ op.length \in 0..3 /\ op.backward \in BOOLEAN
  <2>1. ins.op \in 1..Len(Ops)
    BY DEF IsCompiled
  <2>2. op \in Op
    BY <2>1, OpsAssumption
  <2>3. QED
    BY <2>1, <2>2 DEF Op
<1>2. op.length # 0 /\ GroupLiterals(op) = 0 /\ ~ HasByte(op)
      /\ op.group \notin IncrementGroups \cup {"LINE"}
  BY <1>1, OpsAssumption
<1>3. OperandLiterals(op) = 0
  BY DEF OperandLiterals
<1>4. Len(ins.lits) = 0 /\ ins.lits \in Seq(LiteralIndex) /\ ins.arg \in Arguments(op)
  <2>1. ins.lits \in Seq(0..enc.reach) /\ Len(ins.lits) = 0 /\ ins.arg \in Arguments(op)
    BY <1>2, <1>3 DEF IsCompiled
  <2>2. ins.lits = <<>>
    BY <2>1
  <2>3. QED
    BY <2>1, <2>2
<1>5. op.length \in 1..3
  BY <1>1, <1>2
<1>6. size \in Nat /\ size < ByteWeight[op.length + 1] /\ ins.arg \in Int
      /\ ins.arg = IF op.backward THEN - size ELSE size
  <2>1. ByteWeight[op.length + 1] \in Nat
    <3>1. op.length + 1 \in {2, 3, 4}
      BY <1>5
    <3>2. ByteWeight[2] \in Nat /\ ByteWeight[3] \in Nat /\ ByteWeight[4] \in Nat
      BY DEF ByteWeight
    <3>3. QED
      BY <3>1, <3>2
  <2> DEFINE w == ByteWeight[op.length + 1]
  <2>2. ins.arg \in IF op.backward THEN { - n : n \in 0..(w - 1) } ELSE 0..(w - 1)
    BY <1>4 DEF Arguments
  <2> HIDE DEF w, op
  <2>3. QED
    BY <1>1, <2>1, <2>2 DEF w
<1> HIDE DEF size
<1>7. Plain(op) /\ ~ WritesLast(op)
  <2> HIDE DEF op
  <2>1. Plain(op)
    BY <1>2, GroupsTake DEF Plain
  <2>2. QED
    BY <2>1, GroupsWrite
<1>8. Compiled(enc, ins) = Bare(ins, c)
  BY <1>2, Zenon DEF Compiled, Bare
<1>9. Spells(c, op.length, size)
  <2> DEFINE n == op.length
  <2>1. n \in 1..3 /\ size \in Nat /\ size < ByteWeight[n + 1]
    BY <1>5, <1>6
  <2>2. c = BranchCells(size, n)
    BY Zenon DEF CompileBranch, size, BranchCells
  <2> HIDE DEF n
  <2>3. Spells(BranchCells(size, n), n, size)
    BY <2>1, BranchBytes
  <2>4. QED
    BY <2>2, <2>3 DEF n
<1> HIDE DEF c
<1>10. c \in Seq(Byte) /\ Len(c) = op.length
  BY <1>9 DEF Spells
<1>11. QED
  BY <1>1, <1>4, <1>5, <1>6, <1>7, <1>8, <1>9 DEF IsBranch, c

(* ... and that it is decoded.                                             *)
LEMMA BranchDecoded ==
    ASSUME NEW b, IsCode(b), NEW i \in Nat \ {0}, NEW ins, IsCompiled(b.enc, b.registerEnd, ins),
           Ops[ins.op].operands = "branch", IsBranch(b.enc, ins), Found(b, i, Compiled(b.enc, ins))
    PROVE  IsDecoded(b, i, ins, DecodeAt(b, i))
<1> DEFINE op == Ops[ins.op]
           c == CompileBranch(op, ins.arg)
<1>1. /\ ins.op \in 1..Len(Ops) /\ op.length \in 1..3 /\ Plain(op) /\ ~ WritesLast(op)
      /\ Len(ins.lits) = 0 /\ ins.lits \in Seq(LiteralIndex) /\ ins.arg \in Int
      /\ Compiled(b.enc, ins) = Bare(ins, c)
  BY DEF IsBranch
<1>2. PICK size : Spells(c, op.length, size) /\ ins.arg = IF op.backward THEN - size ELSE size
  BY DEF IsBranch
<1> HIDE DEF c
<1>3. c \in Seq(Byte) /\ Len(c) = op.length
  BY <1>2 DEF Spells
<1>4. /\ b.cells[i] = - ins.op /\ Found(b, i + 1, c)
       /\ Taken(b, i, ins, First(ins.op, i), 0, NoReg)
       /\ i + Len(Compiled(b.enc, ins)) = i + 1 + Len(c)
  <2>1. IsBare(b, i, ins, c)
    BY <1>1, <1>3, BarelyFound, Zenon
  <2>2. QED
    BY <2>1 DEF IsBare
<1>5. DecodeBranch(b, op, i + 1) = ins.arg
  <2>1. i + 1 \in Nat
    OBVIOUS
  <2> HIDE DEF op
  <2>2. DecodeBranch(b, op, i + 1) = IF op.backward THEN - size ELSE size
    BY <1>1, <1>2, <1>4, <2>1, BranchDecodes, Zenon
  <2>3. QED
    BY <1>2, <2>2
<1> DEFINE e == First(ins.op, i)
           next == i + 1 + op.length
<1>6. DecodeArguments(b, op, e) = WithArgument(e, ins.arg, next)
  <2>1. DecodeArguments(b, op, e)
           = [e EXCEPT !.arg = DecodeBranch(b, op, e.next), !.next = @ + op.length]
    BY DEF DecodeArguments
  <2>2. e.next = i + 1
    BY DEF First
  <2> HIDE DEF e, op
  <2>3. QED
    BY <1>5, <2>1, <2>2 DEF WithArgument
<1>7. DecodeAt(b, i) = WithArgument(e, ins.arg, next)
  <2>1. DecodeAt(b, i) = DecodeGroup(b, op, DecodeArguments(b, op, e))
    BY <1>1, <1>4, OpcodeRead
  <2> HIDE DEF e, next, op
  <2>2. QED
    BY <1>1, <1>6, <2>1, GroupsDecode
<1>8. next \in Nat /\ i + Len(Compiled(b.enc, ins)) = next
  BY <1>1, <1>3, <1>4
<1> HIDE DEF next
<1>9. QED
  BY <1>1, <1>4, <1>7, <1>8, ArgumentDecoded

(* Lines. *)
IsLineIns(enc, ins) ==
    LET op == Ops[ins.op]
        c == CompileLine(ins.arg)
    IN  /\ ins.op \in 1..Len(Ops) /\ OperandLiterals(op) = 0 /\ ~ WritesLast(op)
        /\ Len(ins.lits) = 0 /\ ins.lits \in Seq(LiteralIndex) /\ ins.arg \in Int
        /\ Compiled(enc, ins) = Bare(ins, c)
        /\ \E n \in 1..4 : IsLine(ins.arg, n, c)

(* What a line is compiled to, ...                                         *)
LEMMA LineCompiled ==
    ASSUME NEW enc, NEW registerEnd, NEW ins, IsCompiled(enc, registerEnd, ins),
           Ops[ins.op].operands # "branch", Ops[ins.op].group = "LINE"
    PROVE  IsLineIns(enc, ins)
<1> DEFINE op == Ops[ins.op]
           line == ins.arg
           c == CompileLine(line)
<1>1. ins.op \in 1..Len(Ops)
  BY DEF IsCompiled
<1>2. OperandLiterals(op) = 0 /\ GroupLiterals(op) = 0 /\ ~ WritesLast(op)
  BY <1>1, OpsAssumption, GroupsTake, GroupsWrite
<1>3. Len(ins.lits) = 0 /\ ins.lits \in Seq(LiteralIndex) /\ ins.arg \in Arguments(op)
  <2>1. ins.lits \in Seq(0..enc.reach) /\ Len(ins.lits) = 0 /\ ins.arg \in Arguments(op)
    BY <1>2 DEF IsCompiled
  <2>2. ins.lits = <<>>
    BY <2>1
  <2>3. QED
    BY <2>1, <2>2
<1>4. line \in Nat /\ line < GroupWeight[5]
  <2> DEFINE w == GroupWeight[5]
  <2>1. w \in Nat
    BY SMT DEF GroupWeight
  <2>2. line \in 0..(w - 1)
    BY <1>3 DEF Arguments
  <2> HIDE DEF w, line
  <2>3. line \in Nat /\ line < w
    BY <2>1, <2>2, SMT
  <2>4. QED
    BY <2>3, Zenon DEF w
<1>5. Compiled(enc, ins) = Bare(ins, c)
  BY Zenon DEF Compiled, Bare
<1> HIDE DEF c, line
<1>6. \E n \in 1..4 : IsLine(line, n, c)
  BY <1>4, LineIs, Zenon DEF c
<1>7. ins.arg \in Int
  BY <1>4, SMT DEF line
<1>8. QED
  BY <1>1, <1>2, <1>3, <1>5, <1>6, <1>7, Zenon DEF IsLineIns, c, line

(* ... and that it is decoded.                                             *)
LEMMA LineDecoded ==
    ASSUME NEW b, IsCode(b), NEW i \in Nat \ {0}, NEW ins, IsCompiled(b.enc, b.registerEnd, ins),
           Ops[ins.op].operands # "branch", Ops[ins.op].group = "LINE", IsLineIns(b.enc, ins),
           Found(b, i, Compiled(b.enc, ins)), Len(b.cells) \in Nat
    PROVE  IsDecoded(b, i, ins, DecodeAt(b, i))
<1> DEFINE op == Ops[ins.op]
           line == ins.arg
           c == CompileLine(line)
<1>1. ins.op \in 1..Len(Ops)
  BY Zenon DEF IsLineIns
<1>2. OperandLiterals(op) = 0 /\ ~ WritesLast(op)
  BY Zenon DEF IsLineIns
<1>3. Len(ins.lits) = 0 /\ ins.lits \in Seq(LiteralIndex)
  BY Zenon DEF IsLineIns
<1>4. line \in Int
  BY Zenon DEF IsLineIns
<1>5. Compiled(b.enc, ins) = Bare(ins, c)
  BY Zenon DEF IsLineIns
<1>6. PICK n \in 1..4 : IsLine(line, n, c)
  BY Zenon DEF IsLineIns
<1> HIDE DEF c, line
<1>7. c \in Seq(Byte) /\ Len(c) \in 1..4
  BY <1>6 DEF IsLine
<1>8. /\ b.cells[i] = - ins.op /\ Found(b, i + 1, c)
      /\ Taken(b, i, ins, First(ins.op, i), 0, NoReg)
      /\ i + Len(Compiled(b.enc, ins)) = i + 1 + Len(c)
  <2>1. IsBare(b, i, ins, c)
    BY <1>3, <1>5, <1>7, BarelyFound, Zenon
  <2>2. QED
    BY <2>1 DEF IsBare
<1> DEFINE j == i + 1
<1>9. j \in Nat \ {0}
  OBVIOUS
<1> HIDE DEF j
<1>10. LineEnd(b, j) = j + Len(c) - 1 /\ DecodeLine(b, j) = line
  BY <1>6, <1>8, <1>9, LineDecodes, Zenon DEF c, j
<1> DEFINE e == First(ins.op, i)
           next == i + 1 + Len(c)
<1>11. DecodeArguments(b, op, e) = e
  <2>1. op.operands \notin {"literal", "literal_literal", "branch"}
    BY <1>2 DEF OperandLiterals
  <2> HIDE DEF e, op
  <2>2. QED
    BY <2>1, Zenon DEF DecodeArguments
<1>12. DecodeAt(b, i) = LineRead(b, e)
  <2>1. DecodeAt(b, i) = DecodeGroup(b, op, DecodeArguments(b, op, e))
    BY <1>1, <1>8, OpcodeRead
  <2>2. DecodeGroup(b, op, e) = LineRead(b, e)
    BY CellsDecode, Zenon
  <2>3. QED
    BY <1>11, <2>1, <2>2, Zenon
<1>13. LineRead(b, e) = WithArgument(e, line, next)
  <2>1. e.next = j
    BY DEF First, j
  <2>2. LineEnd(b, j) + 1 = next
    BY <1>7, <1>10 DEF j
  <2> HIDE DEF e, next
  <2>3. QED
    BY <1>10, <2>1, <2>2, Zenon DEF LineRead, WithArgument
<1>14. next \in Nat /\ i + Len(Compiled(b.enc, ins)) = next
  BY <1>7, <1>8
<1>15. ins.arg \in Int /\ DecodeAt(b, i) = WithArgument(First(ins.op, i), ins.arg, next)
  BY <1>4, <1>12, <1>13 DEF line
<1> HIDE DEF next
<1>16. QED
  BY <1>2, <1>3, <1>8, <1>14, <1>15, ArgumentDecoded, Zenon

(* Every instruction is found again.                                       *)
LEMMA InsDecoded ==
    ASSUME NEW b, IsCode(b), Len(b.cells) \in Nat, NEW i \in Nat \ {0}, NEW ins,
           IsCompiled(b.enc, b.registerEnd, ins), Found(b, i, Compiled(b.enc, ins))
    PROVE  IsDecoded(b, i, ins, DecodeAt(b, i))
<1>1. CASE Ops[ins.op].operands = "branch"
  BY <1>1, BranchCompiled, BranchDecoded, Zenon
<1>2. CASE Ops[ins.op].operands # "branch" /\ Ops[ins.op].group = "LINE"
  BY <1>2, LineCompiled, LineDecoded, Zenon
<1>3. CASE IsPlainlyCompiled(ins)
  BY <1>3, PlainlyDecoded, Zenon
<1>4. QED
  BY <1>1, <1>2, <1>3 DEF IsPlainlyCompiled

-----------------------------------------------------------------------------
(* The layout of a block: multiples of the alignment, ... *)
LEMMA Divided ==
    ASSUME NEW a \in Nat \ {0}, NEW m \in Int
    PROVE  /\ m \div a \in Int /\ m % a \in 0..(a - 1)
           /\ m = a * (m \div a) + (m % a)
  BY SMT

Padding(a, m) == (- m) % a

(* ... what pads a size, ...                                               *)
LEMMA Padded ==
    ASSUME NEW a \in Nat \ {0}, NEW m \in Nat
    PROVE  Padding(a, m) \in Nat /\ \E q \in Int : m + Padding(a, m) = a * q
<1> DEFINE p == (- m) % a
           r == (- m) \div a
           q == 0 - r
<1>1. - m = a * r + p /\ r \in Int /\ p \in Nat
  BY Divided
<1> HIDE DEF r, p
<1>2. q \in Int /\ a * q = 0 - (a * r)
  BY <1>1
<1> HIDE DEF q
<1>3. m + p = a * q
  BY <1>1, <1>2
<1>4. QED
  BY <1>1, <1>2, <1>3 DEF p, Padding

(* ... and that their number is not cut off. *)
LEMMA Multiple ==
    ASSUME NEW a \in Nat \ {0}, NEW m \in Nat, NEW q \in Int, m = a * q,
           NEW limit \in Nat, m < limit * a
    PROVE  ((m \div a) % limit) * a = m
<1>1. m \div a = q
  BY SMT
<1>2. q >= 0
  BY SMT
<1>3. q < limit
  <2>1. ASSUME q >= limit PROVE FALSE
    <3> DEFINE r == q - limit
    <3>1. r \in Nat /\ q = limit + r
      BY <2>1, SMT
    <3> HIDE DEF r
    <3>2. a * q = limit * a + a * r /\ a * r >= 0
      <4>1. a * (limit + r) = limit * a + a * r
        BY <3>1, SMT
      <4>2. a * r >= 0
        BY <3>1, SMT
      <4>3. QED
        BY <3>1, <4>1, <4>2
    <3>3. QED
      <4>1. a * r \in Int /\ limit * a \in Int
        BY <3>1, SMT
      <4>2. a * q >= limit * a
        BY <3>2, <4>1, SMT
      <4>3. QED
        BY <4>2, SMT
  <2>2. QED
    BY <2>1, SMT
<1>4. q % limit = q
  BY <1>2, <1>3, SMT
<1>5. q * a = m
  BY SMT
<1>6. QED
  BY <1>1, <1>4, <1>5

(* The arguments fit into what they are stored in. *)
Fitting(f, arguments) ==
    /\ arguments \in Args
    /\ f.wide \in BOOLEAN /\ f.mapped \in BOOLEAN /\ f.extras \in Nat
    /\ LET limit == IF f.wide THEN 65536 ELSE 256 IN
       arguments.argumentEnd < limit /\ arguments.literalEnd < limit

(* Arguments that fit are stored as they are.                              *)
LEMMA StoredWhole ==
    ASSUME NEW f, NEW arguments, Fitting(f, arguments)
    PROVE  Stored(f, arguments) = arguments
<1> DEFINE limit == IF f.wide THEN 65536 ELSE 256
<1>1. limit \in Nat \ {0}
  OBVIOUS
<1>2. /\ arguments \in [argumentEnd : Nat, registerEnd : Nat, literalEnd : Nat]
      /\ arguments.registerEnd <= arguments.literalEnd
  BY DEF Fitting, Args
<1>3. arguments.argumentEnd < limit /\ arguments.literalEnd < limit
  BY DEF Fitting
<1> HIDE DEF limit
<1>4. DOMAIN arguments = {"argumentEnd", "registerEnd", "literalEnd"}
  BY <1>2
<1>5. \A a \in DOMAIN arguments : arguments[a] \in Nat /\ arguments[a] < limit
  <2>1. arguments["argumentEnd"] \in Nat /\ arguments["registerEnd"] \in Nat
        /\ arguments["literalEnd"] \in Nat
    BY <1>2
  <2>2. arguments["registerEnd"] < limit
    BY <1>1, <1>2, <1>3, <2>1
  <2>3. QED
    BY <1>3, <1>4, <2>1, <2>2
<1>6. \A a \in DOMAIN arguments : arguments[a] % limit = arguments[a]
  <2>1. \A x \in Nat : x < limit => x % limit = x
    BY <1>1, SMT
  <2>2. QED
    BY <1>5, <2>1
<1>7. Stored(f, arguments) = [a \in DOMAIN arguments |-> arguments[a] % limit]
  BY DEF Stored, limit
<1>8. [a \in DOMAIN arguments |-> arguments[a] % limit] = [a \in DOMAIN arguments |-> arguments[a]]
  BY <1>6
<1>9. arguments = [a \in DOMAIN arguments |-> arguments[a]]
  BY <1>2
<1>10. QED
  BY <1>7, <1>8, <1>9

(* What is found in a block: the code, zeros, and the values behind. *)
Zeros(n) == [k \in 1..n |-> 0]

(* Padding is a sequence of zeros.                                         *)
LEMMA ZerosAre ==
    ASSUME NEW n \in Nat
    PROVE  Zeros(n) \in Seq(Cells) /\ Len(Zeros(n)) = n /\ \A k \in 1..n : Zeros(n)[k] = 0
<1>1. 0 \in Cells
  BY Bytes DEF Cells
<1> HIDE DEF Cells
<1>2. QED
  BY <1>1 DEF Zeros

HoldsCode(cells, code) ==
    /\ cells \in Seq(Cells)
    /\ Len(code) \in 0..Len(cells)
    /\ \A k \in 1..Len(code) : cells[k] = code[k]
    /\ \A k \in (Len(code) + 1)..Len(cells) : cells[k] = 0

(* Code, padding and the values behind can be told apart by their lengths. *)
LEMMA Apart ==
    ASSUME NEW code \in Seq(Cells), NEW n \in Nat, NEW info \in Seq(Cells)
    PROVE  LET cells == code \o Zeros(n) \o info
               m == Len(code) + n
           IN  /\ cells \in Seq(Cells) /\ Len(cells) = m + Len(info)
               /\ HoldsCode(SubSeq(cells, 1, m), code)
               /\ SubSeq(cells, m + 1, Len(cells)) = info
<1> DEFINE zeros == Zeros(n)
           first == code \o zeros
           cells == first \o info
           m == Len(code) + n
<1>1. zeros \in Seq(Cells) /\ Len(zeros) = n /\ \A k \in 1..n : zeros[k] = 0
  BY ZerosAre
<1> HIDE DEF zeros, Cells
<1>2. Len(code) \in Nat /\ Len(info) \in Nat /\ m \in Nat
  BY LenProperties
<1>3. /\ first \in Seq(Cells) /\ Len(first) = m
      /\ \A k \in 1..Len(code) : first[k] = code[k]
      /\ \A k \in (Len(code) + 1)..m : first[k] = 0
  <2>1. first \in Seq(Cells) /\ Len(first) = m
    BY <1>1
  <2>2. \A k \in 1..Len(code) : first[k] = code[k]
    BY <1>1
  <2>3. ASSUME NEW k \in (Len(code) + 1)..m PROVE first[k] = 0
    <3>1. k - Len(code) \in 1..n
      BY <1>2
    <3>2. first[k] = zeros[k - Len(code)]
      BY <1>1, <1>2, <3>1
    <3>3. QED
      BY <1>1, <3>1, <3>2
  <2>4. QED
    BY <2>1, <2>2, <2>3
<1> HIDE DEF first, m
<1>4. /\ cells \in Seq(Cells) /\ Len(cells) = m + Len(info)
      /\ \A k \in 1..m : cells[k] = first[k]
      /\ \A k \in 1..Len(info) : cells[m + k] = info[k]
  BY <1>2, <1>3
<1> HIDE DEF cells
<1>5. SubSeq(cells, 1, m) = first
  <2> DEFINE t == SubSeq(cells, 1, m)
  <2>1. t \in Seq(Cells) /\ Len(t) = m /\ \A k \in 1..m : t[k] = cells[k]
    BY <1>2, <1>4
  <2> HIDE DEF t
  <2>2. QED
    BY <1>3, <1>4, <2>1 DEF t
<1>6. SubSeq(cells, m + 1, Len(cells)) = info
  <2> DEFINE t == SubSeq(cells, m + 1, Len(cells))
  <2>1. t \in Seq(Cells) /\ Len(t) = Len(info) /\ \A k \in 1..Len(info) : t[k] = cells[m + k]
    BY <1>2, <1>4
  <2> HIDE DEF t
  <2>2. QED
    BY <1>2, <1>4, <2>1 DEF t
<1>7. HoldsCode(first, code)
  BY <1>2, <1>3 DEF HoldsCode, m
<1>8. QED
  BY <1>4, <1>5, <1>6, <1>7 DEF cells, first, zeros, m

IsLaidOut(f, arguments, code, info, block) ==
    /\ block.args = arguments
    /\ block.cells \in Seq(Cells)
    /\ HoldsCode(DecodeHeader(f, block).cells, code)
    /\ DecodeHeader(f, block).enc = f.enc
    /\ DecodeHeader(f, block).registerEnd = arguments.registerEnd
    /\ EndInfoOf(f, block) = info

(* The code and the values of a block are found by the counts of its       *)
(* header, if its size fits.                                               *)
LEMMA Layout ==
    ASSUME NEW f, NEW arguments, Fitting(f, arguments), NEW code \in Seq(Cells),
           NEW info \in Seq(Cells), Len(info) = EndInfo(f, arguments),
           NEW pool, pool = PoolSize(arguments),
           SizeFits(f, Block(f, arguments, pool, code, info))
    PROVE  IsLaidOut(f, arguments, code, info, Block(f, arguments, pool, code, info))
<1> DEFINE block == Block(f, arguments, pool, code, info)
           before == ArgumentsSize(f) + 4 * pool
           cells == Filled(before, code, info)
           m == before + Len(code) + Len(info)
           p == Padding(Alignment, m)
           b == DecodeHeader(f, block)
<1>1. /\ arguments \in [argumentEnd : Nat, registerEnd : Nat, literalEnd : Nat]
      /\ arguments.registerEnd <= arguments.literalEnd
  BY DEF Fitting, Args
<1>2. pool \in Nat /\ ArgumentsSize(f) \in Nat
  BY <1>1 DEF PoolSize, ArgumentsSize
<1>3. before \in Nat /\ Len(code) \in Nat /\ Len(info) \in Nat /\ m \in Nat
  BY <1>2, LenProperties
<1>4. /\ block.args = arguments /\ block.pool = pool /\ block.cells = cells
      /\ block.size = ((before + Len(cells)) \div Alignment) % 65536
  BY StoredWhole DEF Block
<1>5. p \in Nat /\ \E q \in Int : m + p = Alignment * q
  BY <1>3, AlignmentAssumption, Padded
<1>6. cells = code \o Zeros(p) \o info
  BY DEF Filled, Zeros, Padding
<1> DEFINE n == Len(code) + p
<1>7. /\ cells \in Seq(Cells) /\ Len(cells) = n + Len(info)
      /\ HoldsCode(SubSeq(cells, 1, n), code)
      /\ SubSeq(cells, n + 1, Len(cells)) = info
  <2> HIDE DEF p, cells
  <2>1. QED
    BY <1>5, <1>6, Apart
<1>8. before + Len(cells) < 65536 * Alignment
  BY <1>4 DEF SizeFits
<1> HIDE DEF block, b
<1>9. block.size * Alignment = before + Len(cells)
  <2> DEFINE whole == before + Len(cells)
  <2>1. whole = m + p /\ whole \in Nat
    BY <1>3, <1>5, <1>7
  <2>2. PICK q \in Int : whole = Alignment * q
    BY <1>5, <2>1
  <2> DEFINE limit == 65536
  <2>3. whole < limit * Alignment /\ limit \in Nat
    BY <1>8
  <2> HIDE DEF whole, limit
  <2>4. ((whole \div Alignment) % limit) * Alignment = whole
    BY <2>1, <2>2, <2>3, AlignmentAssumption, Multiple, Zenon
  <2>5. QED
    BY <1>4, <2>4 DEF whole, limit
<1>10. CodeEnd(f, block) = n
  <2>1. CodeEnd(f, block) = block.size * Alignment - Len(info) - before
    <3>1. block.args = arguments /\ block.pool = pool
      BY <1>4
    <3> HIDE DEF cells
    <3>2. QED
      BY <3>1, Zenon DEF CodeEnd
  <2> HIDE DEF before, cells, p
  <2>2. QED
    BY <1>3, <1>5, <1>7, <1>9, <2>1
<1>11. CodeStart(block) = 1
  BY <1>2, <1>4 DEF CodeStart
<1>12. b.cells = SubSeq(cells, 1, n) /\ b.enc = f.enc /\ b.registerEnd = arguments.registerEnd
  <2>1. block.args = arguments /\ block.cells = cells
    BY <1>4
  <2> HIDE DEF cells, n
  <2>2. QED
    BY <1>10, <1>11, <2>1 DEF b, DecodeHeader
<1>13. EndInfoOf(f, block) = info
  <2>1. block.cells = cells
    BY <1>4
  <2> HIDE DEF cells, n
  <2>2. QED
    BY <1>7, <1>10, <2>1 DEF EndInfoOf
<1>14. block.args = arguments /\ block.cells \in Seq(Cells) /\ HoldsCode(b.cells, code)
  BY <1>4, <1>7, <1>12
<1> HIDE DEF cells
<1>15. IsLaidOut(f, arguments, code, info, block)
  BY <1>12, <1>13, <1>14, Zenon DEF IsLaidOut, b
<1>16. QED
  BY <1>15, Zenon DEF block

-----------------------------------------------------------------------------
(* What is compiled begins with its opcode. *)
StartsWith(s, cell) == s \in Seq(Cells) /\ Len(s) \in Nat \ {0} /\ s[1] = cell

(* A sequence with an opcode put before it starts with that.               *)
LEMMA OpcodeFirst ==
    ASSUME NEW cell \in Cells, NEW s \in Seq(Cells)
    PROVE  StartsWith(<<cell>> \o s, cell)
<1> DEFINE t == <<cell>>
<1>1. t \in Seq(Cells) /\ Len(t) = 1 /\ t[1] = cell
  OBVIOUS
<1> HIDE DEF t, Cells
<1>2. t \o s \in Seq(Cells) /\ Len(t \o s) = 1 + Len(s) /\ (t \o s)[1] = cell
  <2>1. t \o s \in Seq(Cells) /\ Len(t \o s) = Len(t) + Len(s)
    BY <1>1, ConcatProperties, Zenon
  <2>2. (t \o s)[1] = t[1]
    <3>1. \A i \in 1..(Len(t) + Len(s)) : (t \o s)[i] = IF i <= Len(t) THEN t[i] ELSE s[i - Len(t)]
      BY <1>1, ConcatProperties, Zenon
    <3>2. 1 \in 1..(Len(t) + Len(s)) /\ 1 <= Len(t)
      BY <1>1, LenProperties
    <3>3. QED
      BY <3>1, <3>2, Zenon
  <2>3. QED
    BY <1>1, <2>1, <2>2
<1>3. Len(t \o s) \in Nat \ {0}
  BY <1>2, LenProperties
<1>4. QED
  BY <1>2, <1>3 DEF StartsWith, t

(* Bytes are cells.                                                        *)
LEMMA BytesAreCells == ASSUME NEW s \in Seq(Byte) PROVE s \in Seq(Cells)
<1>1. Byte \subseteq Cells
  BY DEF Cells
<1> HIDE DEF Cells
<1>2. QED
  BY <1>1

(* What is compiled is a sequence of cells that starts with the opcode.    *)
LEMMA CompiledCells ==
    ASSUME NEW enc \in Encodings, NEW registerEnd, NEW ins, IsCompiled(enc, registerEnd, ins)
    PROVE  StartsWith(Compiled(enc, ins), - ins.op)
<1> DEFINE opcode == - ins.op
<1>1. opcode \in Cells /\ ins.op \in 1..Len(Ops)
  BY DEF IsCompiled, Cells, OpCells
<1> HIDE DEF Cells, opcode
<1>2. \A s \in Seq(Byte) : StartsWith(<<opcode>> \o s, opcode)
  BY <1>1, BytesAreCells, OpcodeFirst
<1>3. CASE Ops[ins.op].operands = "branch"
  <2>1. IsBranch(enc, ins)
    BY <1>3, BranchCompiled, Zenon
  <2> DEFINE c == CompileBranch(Ops[ins.op], ins.arg)
  <2>2. Compiled(enc, ins) = <<opcode>> \o c /\ c \in Seq(Byte)
    BY <2>1, Zenon DEF IsBranch, Spells, Bare, opcode
  <2> HIDE DEF c
  <2>3. StartsWith(<<opcode>> \o c, opcode)
    BY <1>2, <2>2
  <2>4. QED
    BY <2>2, <2>3 DEF opcode
<1>4. CASE Ops[ins.op].operands # "branch" /\ Ops[ins.op].group = "LINE"
  <2>1. IsLineIns(enc, ins)
    BY <1>4, LineCompiled, Zenon
  <2> DEFINE c == CompileLine(ins.arg)
  <2>2. Compiled(enc, ins) = <<opcode>> \o c /\ c \in Seq(Byte)
    BY <2>1, Zenon DEF IsLineIns, IsLine, Bare, opcode
  <2> HIDE DEF c
  <2>3. StartsWith(<<opcode>> \o c, opcode)
    BY <1>2, <2>2
  <2>4. QED
    BY <2>2, <2>3 DEF opcode
<1>5. CASE IsPlainlyCompiled(ins)
  <2> DEFINE body == Joined(Codes(enc, ins.lits), Len(ins.lits))
             rest == body \o Trail(ins)
  <2>1. body \in Seq(Cells) /\ Trail(ins) \in Seq(Cells)
        /\ Compiled(enc, ins) = <<opcode>> \o rest
    BY <1>5, CompiledParts, Zenon DEF opcode
  <2> HIDE DEF body
  <2>2. rest \in Seq(Cells)
    BY <2>1
  <2> HIDE DEF rest
  <2>3. StartsWith(<<opcode>> \o rest, opcode)
    BY <1>1, <2>2, OpcodeFirst
  <2>4. QED
    BY <2>1, <2>3 DEF opcode
<1>6. QED
  BY <1>3, <1>4, <1>5 DEF IsPlainlyCompiled

(* The stream of a sequence of instructions, and where each begins in it.  *)
Parts(enc, code) == [k \in 1..Len(code) |-> Compiled(enc, code[k])]

Begin(enc, code, k) == Len(Joined(Parts(enc, code), k)) + 1

AllCompiled(enc, registerEnd, code) ==
    /\ Len(code) \in Nat
    /\ \A k \in 1..Len(code) : IsCompiled(enc, registerEnd, code[k])

(* The parts of a stream are what its instructions are compiled to.        *)
LEMMA PartsAre ==
    ASSUME NEW enc \in Encodings, NEW registerEnd, NEW code, AllCompiled(enc, registerEnd, code)
    PROVE  /\ Parts(enc, code) \in Seq(Seq(Cells)) /\ Len(Parts(enc, code)) = Len(code)
           /\ \A k \in 1..Len(code) : Parts(enc, code)[k] = Compiled(enc, code[k])
           /\ JoinedIsThat(Cells, Parts(enc, code))
<1> DEFINE n == Len(code)
           parts == Parts(enc, code)
<1>1. n \in Nat /\ \A k \in 1..n : Compiled(enc, code[k]) \in Seq(Cells)
  BY CompiledCells DEF AllCompiled, StartsWith
<1>2. parts = [k \in 1..n |-> Compiled(enc, code[k])]
  BY DEF Parts
<1> HIDE DEF Cells, n, parts
<1> DEFINE T == Seq(Cells)
<1>3. \A k \in 1..n : Compiled(enc, code[k]) \in T
  BY <1>1
<1> HIDE DEF T
<1>4. parts \in Seq(T) /\ Len(parts) = n /\ \A k \in 1..n : parts[k] = Compiled(enc, code[k])
  BY <1>1, <1>2, <1>3
<1>5. parts \in Seq(Seq(Cells))
  BY <1>4 DEF T
<1>6. JoinedIsThat(Cells, parts)
  BY <1>5, JoinedUnfolds
<1>7. QED
  BY <1>4, <1>5, <1>6 DEF n, parts

(* Every instruction begins at the end of the one before it.               *)
LEMMA Begins ==
    ASSUME NEW enc \in Encodings, NEW registerEnd, NEW code, AllCompiled(enc, registerEnd, code)
    PROVE  /\ Begin(enc, code, 0) = 1
           /\ \A k \in 0..Len(code) : /\ Begin(enc, code, k) \in Nat \ {0}
                                      /\ Joined(Parts(enc, code), k) \in Seq(Cells)
           /\ \A k \in 1..Len(code) :
                 /\ Begin(enc, code, k) = Begin(enc, code, k - 1) + Len(Compiled(enc, code[k]))
                 /\ Joined(Parts(enc, code), k)
                       = Joined(Parts(enc, code), k - 1) \o Compiled(enc, code[k])
<1> DEFINE n == Len(code)
           parts == Parts(enc, code)
           J(k) == Joined(parts, k)
<1>1. /\ n \in Nat /\ Len(parts) = n
      /\ \A k \in 1..n : parts[k] = Compiled(enc, code[k])
      /\ parts \in Seq(Seq(Cells))
      /\ J(0) = <<>>
      /\ \A k \in 1..n : J(k) = J(k - 1) \o parts[k]
      /\ \A k \in 0..n : J(k) \in Seq(Cells)
  BY PartsAre DEF AllCompiled, JoinedIsThat
<1> HIDE DEF n, parts, Cells
<1>2. \A k \in 0..n : Begin(enc, code, k) = Len(J(k)) + 1
  BY DEF Begin, parts
<1> HIDE DEF J
<1>3. Begin(enc, code, 0) = 1
  <2>1. 0 \in 0..n /\ Len(<<>>) + 1 = 1
    BY <1>1
  <2>2. QED
    BY <1>1, <1>2, <2>1
<1>4. \A k \in 0..n : Begin(enc, code, k) \in Nat \ {0}
  <2> TAKE k \in 0..n
  <2>1. Len(J(k)) \in Nat
    BY <1>1, LenProperties
  <2>2. QED
    BY <1>2, <2>1
<1>5. ASSUME NEW k \in 1..n
      PROVE  /\ Begin(enc, code, k) = Begin(enc, code, k - 1) + Len(Compiled(enc, code[k]))
             /\ J(k) = J(k - 1) \o Compiled(enc, code[k])
  <2>1. k \in 0..n /\ k - 1 \in 0..n
    BY <1>1
  <2>2. parts[k] \in Seq(Cells) /\ J(k - 1) \in Seq(Cells) /\ J(k) = J(k - 1) \o parts[k]
    <3> DEFINE T == Seq(Cells)
    <3>1. parts \in Seq(T)
      BY <1>1
    <3> HIDE DEF T
    <3>2. parts[k] \in T
      BY <1>1, <3>1
    <3>3. QED
      BY <1>1, <2>1, <3>2 DEF T
  <2>3. Len(J(k)) = Len(J(k - 1)) + Len(parts[k])
    BY <2>2, ConcatProperties, Zenon
  <2>4. Len(J(k - 1)) \in Nat /\ Len(parts[k]) \in Nat
    BY <2>2, LenProperties
  <2>5. QED
    <3>1. J(k) = J(k - 1) \o Compiled(enc, code[k])
      BY <1>1, <2>2
    <3>2. Begin(enc, code, k) = Len(J(k)) + 1 /\ Begin(enc, code, k - 1) = Len(J(k - 1)) + 1
      BY <1>2, <2>1
    <3>3. Len(parts[k]) = Len(Compiled(enc, code[k]))
      BY <1>1
    <3>4. Begin(enc, code, k) = Begin(enc, code, k - 1) + Len(Compiled(enc, code[k]))
      BY <2>3, <2>4, <3>2, <3>3
    <3>5. QED
      BY <3>1, <3>4
<1>6. QED
  BY <1>1, <1>3, <1>4, <1>5 DEF n, J, parts

(* Each is found where it begins, and the end is found behind them all.    *)
Standing(b, code) ==
    /\ \A k \in 1..Len(code) :
          LET i == Begin(b.enc, code, k - 1) IN
          /\ i \in Nat \ {0} /\ i <= Len(b.cells) /\ b.cells[i] \in OpCells /\ ~ AtEnd(b, i)
          /\ IsDecoded(b, i, code[k], DecodeAt(b, i))
          /\ DecodeAt(b, i).next = Begin(b.enc, code, k)
    /\ AtEnd(b, Begin(b.enc, code, Len(code)))

(* In cells that hold a code, every instruction of it is decoded where it  *)
(* begins, and the end comes behind the last.                              *)
LEMMA CodeStands ==
    ASSUME NEW b, IsCode(b), NEW code, AllCompiled(b.enc, b.registerEnd, code),
           HoldsCode(b.cells, Joined(Parts(b.enc, code), Len(code)))
    PROVE  Standing(b, code)
<1> DEFINE n == Len(code)
           parts == Parts(b.enc, code)
           stream == Joined(parts, n)
<1>1. /\ n \in Nat /\ b.enc \in Encodings
      /\ \A k \in 1..n : IsCompiled(b.enc, b.registerEnd, code[k])
  BY DEF AllCompiled, IsCode
<1>2. /\ Len(b.cells) \in Nat /\ Len(stream) \in 0..Len(b.cells)
      /\ \A k \in 1..Len(stream) : b.cells[k] = stream[k]
      /\ \A k \in (Len(stream) + 1)..Len(b.cells) : b.cells[k] = 0
  BY LenProperties DEF HoldsCode
<1>3. /\ Len(parts) = n /\ parts \in Seq(Seq(Cells))
      /\ \A k \in 1..n : parts[k] = Compiled(b.enc, code[k])
  BY <1>1, PartsAre
<1> HIDE DEF parts, Cells, n
<1>4. Found(b, 1, stream)
  <2> HIDE DEF stream
  <2>1. \A k \in 1..Len(stream) : 1 + k - 1 = k /\ k \in 1..Len(b.cells)
    BY <1>2
  <2>2. QED
    BY <1>2, <2>1 DEF Found
<1>5. \A k \in 1..n : Found(b, 1 + Len(Joined(parts, k - 1)), parts[k])
  <2>1. Found(b, 1, Joined(parts, Len(parts)))
    BY <1>3, <1>4
  <2> DEFINE one == 1
  <2>2. one \in Nat /\ Found(b, one, Joined(parts, Len(parts)))
    BY <2>1
  <2> HIDE DEF one
  <2>3. \A k \in 1..Len(parts) : Found(b, one + Len(Joined(parts, k - 1)), parts[k])
    BY <1>3, <2>2, FoundInJoined
  <2>4. QED
    BY <1>3, <2>3 DEF one
<1>6. ASSUME NEW k \in 1..n
      PROVE  LET i == Begin(b.enc, code, k - 1) IN
             /\ i \in Nat \ {0} /\ i <= Len(b.cells) /\ b.cells[i] \in OpCells /\ ~ AtEnd(b, i)
             /\ IsDecoded(b, i, code[k], DecodeAt(b, i))
             /\ DecodeAt(b, i).next = Begin(b.enc, code, k)
  <2> DEFINE i == Begin(b.enc, code, k - 1)
             c == Compiled(b.enc, code[k])
             d == DecodeAt(b, i)
  <2>1. k - 1 \in 0..n
    BY <1>1
  <2>2. i \in Nat \ {0} /\ Begin(b.enc, code, k) = i + Len(c)
    BY <1>1, <2>1, Begins DEF n
  <2>3. i = 1 + Len(Joined(parts, k - 1))
    <3>1. Len(Joined(parts, k - 1)) \in Nat
      BY <1>1, <2>1, Begins, LenProperties DEF n, parts
    <3>2. QED
      BY <3>1 DEF Begin, parts
  <2> HIDE DEF i
  <2>4. Found(b, i, c)
    BY <1>3, <1>5, <2>3
  <2>5. IsCompiled(b.enc, b.registerEnd, code[k])
    BY <1>1
  <2>6. StartsWith(c, - code[k].op)
    BY <1>1, <2>5, CompiledCells
  <2> HIDE DEF c
  <2>7. i \in 1..Len(b.cells) /\ b.cells[i] = - code[k].op
    <3>1. 1 \in 1..Len(c) /\ i + 1 - 1 = i
      BY <2>2, <2>6 DEF StartsWith
    <3>2. QED
      BY <2>4, <2>6, <3>1 DEF Found, StartsWith
  <2>8. code[k].op \in 1..Len(Ops)
    BY <2>5 DEF IsCompiled
  <2>9. b.cells[i] \in OpCells /\ b.cells[i] # 0
    <3>1. - code[k].op \in OpCells
      BY <2>8 DEF OpCells
    <3>2. - code[k].op # 0
      BY <2>8, OpsAssumption
    <3>3. QED
      BY <2>7, <3>1, <3>2
  <2>10. i <= Len(b.cells) /\ ~ AtEnd(b, i)
    BY <1>2, <2>7, <2>9 DEF AtEnd
  <2>11. IsDecoded(b, i, code[k], d)
    BY <1>2, <2>2, <2>4, <2>5, InsDecoded DEF c
  <2>12. d.next = Begin(b.enc, code, k)
    BY <2>2, <2>11 DEF IsDecoded, c
  <2>13. QED
    BY <2>2, <2>9, <2>10, <2>11, <2>12 DEF i
<1>7. AtEnd(b, Begin(b.enc, code, n))
  <2>1. Begin(b.enc, code, n) = Len(stream) + 1
    BY DEF Begin, parts
  <2> HIDE DEF stream
  <2>2. Len(stream) + 1 <= Len(b.cells) => Len(stream) + 1 \in (Len(stream) + 1)..Len(b.cells)
    BY <1>2
  <2>3. QED
    BY <1>2, <2>1, <2>2 DEF AtEnd
<1>8. QED
  BY <1>6, <1>7 DEF Standing, n

-----------------------------------------------------------------------------
(* The values behind the code of a compiled function. *)
Values(f) == [k \in 1..EndInfo(f, f.args) |-> - ((k % Len(Ops)) + 1)]

(* A function as compiled. *)
IsLoaded(f) ==
    LET block == CompiledBlock(f)
        b == DecodeHeader(f, block)
    IN  /\ IsCode(b) /\ b.enc = f.enc /\ b.registerEnd = f.args.registerEnd
        /\ Standing(b, f.code)
        /\ block.args = f.args /\ block.cells \in Seq(Cells)
        /\ block.pool = PoolSize(f.args)
        /\ EndInfoOf(f, block) = Values(f)
        /\ Values(f) \in Seq(Cells) /\ Len(Values(f)) = EndInfo(f, f.args)

(* What IsFunction says of a function, in the terms of these proofs.       *)
LEMMA FunctionCompiled ==
    ASSUME NEW f, IsFunction(f)
    PROVE  /\ f.enc \in Encodings /\ Fitting(f, f.args)
           /\ AllCompiled(f.enc, f.args.registerEnd, f.code)
           /\ \A k : StreamUpTo(f, k) = Joined(Parts(f.enc, f.code), k)
<1>1. f.enc \in Encodings
  BY DEF IsFunction, Encodings
<1>2. Fitting(f, f.args)
  <2> DEFINE a == f.args
  <2>1. /\ a \in Args /\ f.wide \in BOOLEAN /\ f.mapped \in BOOLEAN /\ f.extras \in Nat
        /\ a.argumentEnd <= a.registerEnd /\ a.literalEnd <= f.enc.reach + 1
        /\ ~ f.wide => a.literalEnd <= 255
    BY DEF IsFunction
  <2>2. /\ a.argumentEnd \in Nat /\ a.registerEnd \in Nat /\ a.literalEnd \in Nat
        /\ a.registerEnd <= a.literalEnd
    BY <2>1 DEF Args
  <2>3. f.enc.reach \in Nat /\ f.enc.reach <= 32767
    BY <1>1, Limits
  <2> HIDE DEF a
  <2>4. a.argumentEnd < IF f.wide THEN 65536 ELSE 256
    BY <2>1, <2>2, <2>3
  <2>5. a.literalEnd < IF f.wide THEN 65536 ELSE 256
    BY <2>1, <2>2, <2>3
  <2>6. QED
    BY <2>1, <2>4, <2>5 DEF Fitting, a
<1>3. AllCompiled(f.enc, f.args.registerEnd, f.code)
  <2> DEFINE T == [op : 1..Len(Ops), lits : Seq(LiteralIndex), arg : Int]
  <2>1. f.code \in Seq(T) /\ \A i \in 1..Len(f.code) : IsCompiled(f.enc, f.args.registerEnd, f.code[i])
    BY DEF IsFunction
  <2> HIDE DEF T
  <2>2. Len(f.code) \in Nat
    BY <2>1, LenProperties
  <2>3. QED
    BY <2>1, <2>2 DEF AllCompiled
<1>4. \A k : StreamUpTo(f, k) = Joined(Parts(f.enc, f.code), k)
  BY DEF StreamUpTo, Parts
<1>5. QED
  BY <1>1, <1>2, <1>3, <1>4

(* The values behind the code take as many cells as EndInfo says.          *)
LEMMA ValuesAre ==
    ASSUME NEW f, Fitting(f, f.args)
    PROVE  Values(f) \in Seq(Cells) /\ Len(Values(f)) = EndInfo(f, f.args)
<1> DEFINE n == EndInfo(f, f.args)
<1>1. n \in Nat
  BY DEF EndInfo, Fitting, Args
<1> HIDE DEF n
<1>2. Len(Ops) \in Nat \ {0}
  <2> DEFINE T == Op
  <2>1. Ops \in Seq(T) /\ Ops # <<>>
    BY OpsAssumption
  <2> HIDE DEF T
  <2>2. QED
    BY <2>1
<1>3. \A k \in 1..n : - ((k % Len(Ops)) + 1) \in Cells
  <2> TAKE k \in 1..n
  <2> DEFINE m == Len(Ops)
             o == (k % m) + 1
  <2>1. k % m \in 0..(m - 1)
    <3>1. m \in Nat \ {0} /\ k \in Int
      BY <1>1, <1>2
    <3> HIDE DEF m
    <3>2. QED
      BY <3>1, Divided
  <2>2. o \in 1..m
    BY <1>2, <2>1
  <2> HIDE DEF o
  <2>3. - o \in OpCells
    BY <2>2 DEF OpCells
  <2>4. QED
    BY <2>3 DEF Cells, o
<1> HIDE DEF Cells
<1>4. [k \in 1..n |-> - ((k % Len(Ops)) + 1)] \in Seq(Cells)
      /\ Len([k \in 1..n |-> - ((k % Len(Ops)) + 1)]) = n
  BY <1>1, <1>3
<1>5. QED
  BY <1>4 DEF Values, n

(* The code of every function can be read from its block.                  *)
LEMMA FunctionLoaded ==
    ASSUME NEW f, IsFunction(f), SizeFits(f, CompiledBlock(f))
    PROVE  IsLoaded(f)
<1> DEFINE block == CompiledBlock(f)
           b == DecodeHeader(f, block)
           code == StreamUpTo(f, Len(f.code))
           pool == PoolSize(f.args)
<1>1. /\ f.enc \in Encodings /\ Fitting(f, f.args)
      /\ AllCompiled(f.enc, f.args.registerEnd, f.code)
      /\ code = Joined(Parts(f.enc, f.code), Len(f.code))
  BY FunctionCompiled, Zenon
<1>2. block = Block(f, f.args, pool, code, Values(f))
  BY Zenon DEF CompiledBlock, Values
<1> HIDE DEF code
<1>3. code \in Seq(Cells)
  <2>1. Len(f.code) \in 0..Len(f.code)
    BY <1>1 DEF AllCompiled
  <2>2. QED
    BY <1>1, <2>1, Begins
<1>4. Values(f) \in Seq(Cells) /\ Len(Values(f)) = EndInfo(f, f.args)
  BY <1>1, ValuesAre
<1>5. IsLaidOut(f, f.args, code, Values(f), block)
  <2> DEFINE a == f.args
             info == Values(f)
  <2>1. Fitting(f, a) /\ info \in Seq(Cells) /\ Len(info) = EndInfo(f, a) /\ pool = PoolSize(a)
    BY <1>1, <1>4, Zenon
  <2>2. SizeFits(f, Block(f, a, pool, code, info))
    BY <1>2, Zenon
  <2> HIDE DEF a, info, pool, block
  <2>3. IsLaidOut(f, a, code, info, Block(f, a, pool, code, info))
    BY <1>3, <2>1, <2>2, Layout, Zenon
  <2>4. QED
    BY <1>2, <2>3, Zenon DEF a, info
<1> HIDE DEF block
<1>6. block.pool = pool
  <2> HIDE DEF pool
  <2>1. QED
    BY <1>2 DEF Block
<1>7. /\ b.enc = f.enc /\ b.registerEnd = f.args.registerEnd
      /\ HoldsCode(b.cells, code) /\ block.args = f.args /\ block.cells \in Seq(Cells)
      /\ EndInfoOf(f, block) = Values(f)
  BY <1>5, Zenon DEF IsLaidOut
<1> HIDE DEF b
<1>8. IsCode(b)
  <2>1. f.args \in Args
    BY <1>1 DEF Fitting
  <2>2. f.args.registerEnd \in Nat
    BY <2>1 DEF Args
  <2>3. QED
    BY <1>1, <1>7, <2>2, Zenon DEF IsCode
<1>9. Standing(b, f.code)
  BY <1>1, <1>7, <1>8, CodeStands
<1>10. QED
  BY <1>4, <1>6, <1>7, <1>8, <1>9, Zenon DEF IsLoaded, b, block

-----------------------------------------------------------------------------
(* What is recorded of the instruction of the code at k. *)
Ins == [op : 1..Len(Ops), lits : Seq(LiteralIndex), reads : SUBSET LiteralIndex,
        write : LiteralIndex \cup {NoReg}, arg : Int, offset : Nat]

IsRecorded(f, k, ins) ==
    /\ ins \in Ins
    /\ ins.op = f.code[k].op /\ ins.arg = f.code[k].arg
    /\ ins.offset = Begin(f.enc, f.code, k - 1) - 1
    /\ ins.reads = RegistersIn(f.args.registerEnd, ins.lits)
    /\ ins.write \in ins.reads \cup {NoReg}
    /\ KeepsIn(f.args.registerEnd, f.code[k]) =>
          /\ ins.lits = f.code[k].lits
          /\ ins.write = WriteOf(f.args.registerEnd, f.code[k])

(* The decoder records each instruction of the code and goes on to the     *)
(* next.                                                                   *)
LEMMA InsRecorded ==
    ASSUME NEW f, IsLoaded(f), NEW k \in 1..Len(f.code), NEW b,
           b = DecodeHeader(f, CompiledBlock(f)), NEW i, i = Begin(f.enc, f.code, k - 1)
    PROVE  /\ ~ AtEnd(b, i) /\ IsRecorded(f, k, InsOf(DecodeAt(b, i)))
           /\ DecodeAt(b, i).next = Begin(f.enc, f.code, k)
<1> DEFINE d == DecodeAt(b, i)
           ins == InsOf(d)
<1>1. /\ b.enc = f.enc /\ b.registerEnd = f.args.registerEnd /\ Standing(b, f.code)
  BY Zenon DEF IsLoaded
<1>2. /\ ~ AtEnd(b, i) /\ IsDecoded(b, i, f.code[k], d) /\ d.next = Begin(f.enc, f.code, k)
  BY <1>1, Zenon DEF Standing
<1> HIDE DEF d
<1>3. /\ Sound(b, d) /\ d.op = f.code[k].op /\ d.offset = i - 1 /\ d.arg = f.code[k].arg
      /\ KeepsIn(f.args.registerEnd, f.code[k]) =>
            d.lits = f.code[k].lits /\ d.write = WriteOf(f.args.registerEnd, f.code[k])
  BY <1>1, <1>2, Zenon DEF IsDecoded
<1>4. /\ d \in Decoding /\ d.reads = RegistersIn(f.args.registerEnd, d.lits)
      /\ d.write \in d.reads \cup {NoReg}
  BY <1>1, <1>3 DEF Sound
<1>5. /\ ins.op = d.op /\ ins.lits = d.lits /\ ins.reads = d.reads /\ ins.write = d.write
      /\ ins.arg = d.arg /\ ins.offset = d.offset
  BY DEF InsOf
<1>6. ins \in Ins
  BY <1>4 DEF Decoding, Ins, InsOf
<1> HIDE DEF ins
<1>7. IsRecorded(f, k, ins)
  BY <1>3, <1>4, <1>5, <1>6 DEF IsRecorded
<1>8. QED
  BY <1>2, <1>7 DEF d, ins

-----------------------------------------------------------------------------
(* What the emitter writes are cells, ... *)
LEMMA EmitLiteralBytes ==
    ASSUME NEW enc \in Encodings, NEW x \in LiteralIndex
    PROVE  EmitLiteral(enc, x) \in Seq(Byte)
<1>1. x \in Nat /\ x <= 32767
  BY LiteralIndices
<1>2. enc.oneByteLimit \in {127, 254}
  BY DEF Encodings, SmallEncoding, FullEncoding
<1>3. CASE x <= enc.oneByteLimit
  <2>1. x \in Byte
    BY <1>1, <1>2, <1>3, Bytes
  <2>2. EmitLiteral(enc, x) = <<x>>
    BY <1>3 DEF EmitLiteral
  <2>3. QED
    BY <2>1, <2>2
<1>4. CASE ~ (x <= enc.oneByteLimit) /\ x <= 510
  <2> DEFINE l == (x - 255) % 256
  <2>1. l \in Byte /\ 255 \in Byte
    BY <1>1, Bytes
  <2>2. EmitLiteral(enc, x) = <<255, l>>
    BY <1>4 DEF EmitLiteral
  <2> HIDE DEF l
  <2>3. QED
    BY <2>1, <2>2
<1>5. CASE ~ (x <= enc.oneByteLimit) /\ ~ (x <= 510)
  <2> DEFINE h == 128 + x \div 256
             l == x % 256
  <2>1. h \in Byte /\ l \in Byte
    <3>1. x \div 256 \in Nat /\ x \div 256 <= 127 /\ l \in Nat /\ l <= 255
      BY <1>1, SMT
    <3>2. QED
      BY <3>1, Bytes
  <2>2. EmitLiteral(enc, x) = <<h, l>>
    BY <1>5 DEF EmitLiteral
  <2> HIDE DEF h, l
  <2>3. QED
    BY <2>1, <2>2
<1>6. QED
  BY <1>3, <1>4, <1>5

(* What the emitter writes for a branch offset and for a line are bytes.   *)
LEMMA EmitBranchBytes ==
    ASSUME NEW op \in Op, op.operands = "branch", NEW offset \in Arguments(op)
    PROVE  EmitBranch(offset) \in Seq(Byte)
<1>1. /\ ByteWeight[1] = 1 /\ ByteWeight[2] = 256 /\ ByteWeight[3] = 65536
      /\ ByteWeight[4] = 16777216
  BY SMT DEF ByteWeight
<1>2. offset \in Int /\ offset < 16777216
  <2> DEFINE w == ByteWeight[op.length + 1]
  <2>1. w \in Nat /\ w <= 16777216
    <3>1. op.length + 1 \in {1, 2, 3, 4}
      BY DEF Op
    <3>2. QED
      BY <1>1, <3>1, SMT
  <2>2. offset \in IF op.backward THEN { - n : n \in 0..(w - 1) } ELSE 0..(w - 1)
    BY DEF Arguments
  <2> HIDE DEF w
  <2>3. QED
    BY <2>1, <2>2, SMT
<1> DEFINE Fits(k) == offset < ByteWeight[k + 1] /\ (k = 0 \/ offset >= ByteWeight[k])
           n == IF offset < 0 THEN 4 ELSE CHOOSE k \in 0..3 : Fits(k)
<1>3. n \in 0..4
  <2>1. CASE offset < 0
    BY <2>1, SMT
  <2>2. CASE offset >= 0
    <3>1. \E k \in 0..3 : Fits(k)
      <4>1. offset < 1 => Fits(0)
        BY <1>1, SMT
      <4>2. offset >= 1 /\ offset < 256 => Fits(1)
        BY <1>1, SMT
      <4>3. offset >= 256 /\ offset < 65536 => Fits(2)
        BY <1>1, SMT
      <4>4. offset >= 65536 => Fits(3)
        BY <1>1, <1>2, SMT
      <4> HIDE DEF Fits
      <4>5. QED
        BY <1>2, <4>1, <4>2, <4>3, <4>4, SMT
    <3> HIDE DEF Fits
    <3>2. (CHOOSE k \in 0..3 : Fits(k)) \in 0..3
      BY <3>1
    <3>3. ~ (offset < 0)
      BY <1>2, <2>2, SMT
    <3>4. n = CHOOSE k \in 0..3 : Fits(k)
      BY <3>3
    <3> HIDE DEF n
    <3>5. QED
      BY <3>2, <3>4, SMT
  <2>3. QED
    BY <1>2, <2>1, <2>2, SMT
<1>4. EmitBranch(offset) = [k \in 1..n |-> (offset \div ByteWeight[k]) % 256]
  BY DEF EmitBranch
<1> HIDE DEF n, Fits
<1>5. \A k \in 1..n : ((offset \div ByteWeight[k]) % 256) \in Byte
  <2>1. \A k \in 1..n : k \in {1, 2, 3, 4}
    BY <1>3, SMT
  <2>2. \A k \in {1, 2, 3, 4} : (offset \div ByteWeight[k]) \in Int
    BY <1>1, <1>2, SMT
  <2>3. \A v \in Int : (v % 256) \in Nat /\ v % 256 <= 255
    BY SMT
  <2>4. QED
    BY <2>1, <2>2, <2>3, Bytes
<1>6. QED
  BY <1>3, <1>4, <1>5

(* ... so are those of a line number.                                      *)
LEMMA EmitLineBytes ==
    ASSUME NEW line \in Nat
    PROVE  EmitLine(line) \in Seq(Byte)
<1> DEFINE more(k) == k < 4 /\ (line \div GroupWeight[k + 2]) % 2 = 1
           Stops(k) == ~ more(k) /\ \A j \in 1..(k - 1) : more(j)
           n == CHOOSE k \in 1..4 : Stops(k)
<1>1. n \in 1..4
  <2>1. \E k \in 1..4 : Stops(k)
    <3>1. ~ more(4)
      BY SMT
    <3>2. 1..(1 - 1) = {} /\ 1..(2 - 1) = {1} /\ 1..(3 - 1) = {1, 2} /\ 1..(4 - 1) = {1, 2, 3}
      BY SMT
    <3> HIDE DEF more
    <3>3. ~ more(1) => Stops(1)
      BY <3>2
    <3>4. more(1) /\ ~ more(2) => Stops(2)
      BY <3>2
    <3>5. more(1) /\ more(2) /\ ~ more(3) => Stops(3)
      BY <3>2
    <3>6. more(1) /\ more(2) /\ more(3) => Stops(4)
      BY <3>1, <3>2
    <3> HIDE DEF Stops
    <3>7. QED
      BY <3>3, <3>4, <3>5, <3>6
  <2> HIDE DEF Stops
  <2>2. QED
    BY <2>1
<1>2. EmitLine(line) = [k \in 1..n |-> (line \div GroupWeight[k]) % 128]
  BY SMT DEF EmitLine
<1> HIDE DEF n
<1>3. /\ GroupWeight[1] = 1 /\ GroupWeight[2] = 128 /\ GroupWeight[3] = 16384
      /\ GroupWeight[4] = 2097152
  BY SMT DEF GroupWeight
<1>4. \A k \in 1..n : ((line \div GroupWeight[k]) % 128) \in Byte
  <2>1. \A k \in 1..n : k \in {1, 2, 3, 4}
    BY <1>1, SMT
  <2>2. \A k \in {1, 2, 3, 4} : (line \div GroupWeight[k]) \in Int
    BY <1>3, SMT
  <2>3. \A v \in Int : (v % 128) \in Nat /\ v % 128 <= 255
    BY SMT
  <2>4. QED
    BY <2>1, <2>2, <2>3, Bytes
<1>5. QED
  BY <1>1, <1>2, <1>4, SMT

(* ... whatever of the instruction the passes have renamed. *)
IsWritable(ins) ==
    ins.op \in 1..Len(Ops) /\ ins.lits \in Seq(LiteralIndex) /\ ins.arg \in Arguments(Ops[ins.op])

(* What the emitter writes for any instruction are cells.                  *)
LEMMA EmittedCells ==
    ASSUME NEW enc \in Encodings, NEW ins, IsWritable(ins)
    PROVE  Emitted(enc, ins) \in Seq(Cells)
<1> DEFINE op == Ops[ins.op]
           codes == [k \in 1..Len(ins.lits) |-> EmitLiteral(enc, ins.lits[k])]
           opcode == - ins.op
           body == Joined(codes, Len(codes))
           trail == IF HasByte(op) THEN <<ins.arg>> ELSE <<>>
           rest == CASE op.operands = "branch" -> EmitBranch(ins.arg)
                     [] op.group = "LINE"      -> EmitLine(ins.arg)
                     [] OTHER                  -> body \o trail
<1>1. ins.op \in 1..Len(Ops) /\ ins.lits \in Seq(LiteralIndex) /\ ins.arg \in Arguments(op)
  BY DEF IsWritable
<1>2. op \in Op /\ (op.operands = "branch" => op.group # "LINE")
  BY <1>1, OpsAssumption
<1>3. body \in Seq(Byte)
  <2> DEFINE n == Len(ins.lits)
             T == Seq(Byte)
  <2>1. n \in Nat /\ \A k \in 1..n : ins.lits[k] \in LiteralIndex
    <3> DEFINE L == LiteralIndex
    <3>1. ins.lits \in Seq(L)
      BY <1>1
    <3> HIDE DEF L
    <3>2. QED
      BY <3>1 DEF L
  <2>2. \A k \in 1..n : EmitLiteral(enc, ins.lits[k]) \in T
    BY <2>1, EmitLiteralBytes
  <2> HIDE DEF n, T
  <2>3. codes = [k \in 1..n |-> EmitLiteral(enc, ins.lits[k])]
    BY Zenon DEF n
  <2> HIDE DEF codes
  <2>4. codes \in Seq(T) /\ Len(codes) = n
    BY <2>1, <2>2, <2>3
  <2>5. JoinedIsThat(Byte, codes)
    BY <2>4, JoinedUnfolds DEF T
  <2>6. n \in 0..n
    BY <2>1
  <2>7. QED
    BY <2>4, <2>5, <2>6 DEF JoinedIsThat
<1>4. rest \in Seq(Cells)
  <2>1. CASE op.operands = "branch"
    <3>1. EmitBranch(ins.arg) \in Seq(Byte)
      BY <1>1, <1>2, <2>1, EmitBranchBytes
    <3>2. rest = EmitBranch(ins.arg)
      BY <1>2, <2>1, Zenon
    <3>3. QED
      BY <3>1, <3>2, BytesAreCells, Zenon
  <2>2. CASE op.operands # "branch" /\ op.group = "LINE"
    <3>1. ins.arg \in Nat
      <4> DEFINE w == GroupWeight[5]
      <4>1. w \in Nat
        BY SMT DEF GroupWeight
      <4>2. ins.arg \in 0..(w - 1)
        BY <1>1, <2>2 DEF Arguments
      <4> HIDE DEF w
      <4>3. QED
        BY <4>1, <4>2, SMT
    <3>2. EmitLine(ins.arg) \in Seq(Byte)
      BY <3>1, EmitLineBytes
    <3>3. rest = EmitLine(ins.arg)
      BY <2>2, Zenon
    <3>4. QED
      BY <3>2, <3>3, BytesAreCells, Zenon
  <2>3. CASE op.operands # "branch" /\ op.group # "LINE"
    <3>1. trail \in Seq(Cells)
      <4>1. HasByte(op) => ins.arg \in Byte
        <5>1. HasByte(op) => Arguments(op) = Byte
          BY <2>3, Zenon DEF Arguments
        <5>2. QED
          BY <1>1, <5>1, Zenon
      <4>2. HasByte(op) => ins.arg \in Cells
        BY <4>1 DEF Cells
      <4> HIDE DEF Cells, op
      <4>3. QED
        BY <4>2
    <3>2. body \in Seq(Cells)
      BY <1>3, BytesAreCells, Zenon
    <3>3. rest = body \o trail
      BY <2>3, Zenon
    <3> HIDE DEF rest, body, trail, Cells
    <3>4. QED
      BY <3>1, <3>2, <3>3
  <2>4. QED
    BY <2>1, <2>2, <2>3, Zenon
<1>5. opcode \in Cells
  BY <1>1 DEF Cells, OpCells
<1>6. Emitted(enc, ins) = <<opcode>> \o rest
  BY Zenon DEF Emitted
<1> HIDE DEF rest, opcode, Cells
<1>7. <<opcode>> \o rest \in Seq(Cells)
  BY <1>4, <1>5, OpcodeFirst DEF StartsWith
<1>8. QED
  BY <1>6, <1>7

-----------------------------------------------------------------------------
(* ... and of what the emitter handles, those the compiler writes. *)
IsHandled(enc, ins) ==
    LET op == Ops[ins.op] IN
    /\ op.operands = "branch" => op.length = 1 /\ ~ op.backward /\ ins.arg > 0
    /\ op.group = "LINE" => ins.arg < 128
    /\ enc = FullEncoding => \A k \in 1..Len(ins.lits) : ins.lits[k] \notin 128..510

(* A literal out of the gap between the encodings is emitted as it is      *)
(* compiled, ...                                                           *)
LEMMA LiteralsEmitted ==
    ASSUME NEW enc \in Encodings, NEW x \in 0..enc.reach,
           enc = FullEncoding => x \notin 128..510
    PROVE  EmitLiteral(enc, x) = CompileLiteral(enc, x)
<1>1. CASE enc = SmallEncoding
  <2>1. enc.limit = 255 /\ enc.delta = 65025 /\ enc.oneByteLimit = 254 /\ enc.reach = 510
    BY <1>1 DEF SmallEncoding
  <2>2. x \in Nat /\ x <= 510
    BY <2>1
  <2>3. CASE x <= 254
    BY <2>1, <2>2, <2>3 DEF EmitLiteral, CompileLiteral
  <2>4. CASE x > 254
    <3> DEFINE h == (x + 65025) \div 256
               l == (x + 65025) % 256
    <3>1. h = 255 /\ l = (x - 255) % 256
      BY <2>2, <2>4, SMT
    <3>2. CompileLiteral(enc, x) = <<h, l>>
      BY <2>1, <2>2, <2>4 DEF CompileLiteral
    <3>3. EmitLiteral(enc, x) = <<255, (x - 255) % 256>>
      BY <2>1, <2>2, <2>4 DEF EmitLiteral
    <3> HIDE DEF h, l
    <3>4. QED
      BY <3>1, <3>2, <3>3
  <2>5. QED
    BY <2>2, <2>3, <2>4
<1>2. CASE enc = FullEncoding
  <2>1. enc.limit = 128 /\ enc.delta = 32768 /\ enc.oneByteLimit = 127 /\ enc.reach = 32767
    BY <1>2 DEF FullEncoding
  <2>2. x \in Nat /\ x <= 32767 /\ (x < 128 \/ x > 510)
    BY <1>2, <2>1
  <2>3. CASE x < 128
    BY <2>1, <2>2, <2>3 DEF EmitLiteral, CompileLiteral
  <2>4. CASE x > 510
    <3> DEFINE h == (x + 32768) \div 256
               l == (x + 32768) % 256
    <3>1. h = 128 + x \div 256 /\ l = x % 256
      BY <2>2, <2>4, SMT
    <3>2. CompileLiteral(enc, x) = <<h, l>>
      BY <2>1, <2>2, <2>4 DEF CompileLiteral
    <3>3. EmitLiteral(enc, x) = <<128 + x \div 256, x % 256>>
      BY <2>1, <2>2, <2>4 DEF EmitLiteral
    <3> HIDE DEF h, l
    <3>4. QED
      BY <3>1, <3>2, <3>3
  <2>5. QED
    BY <2>2, <2>3, <2>4
<1>3. QED
  BY <1>1, <1>2 DEF Encodings

(* ... so is a forward branch over less than a page, ...                   *)
LEMMA BranchEmitted ==
    ASSUME NEW op, op.length = 1, op.backward = FALSE, NEW offset \in Nat,
           offset > 0, offset < 256
    PROVE  EmitBranch(offset) = CompileBranch(op, offset)
<1>1. ByteWeight[1] = 1 /\ ByteWeight[2] = 256 /\ ByteWeight[3] = 65536
  BY SMT DEF ByteWeight
<1> DEFINE Fits(k) == offset < ByteWeight[k + 1] /\ (k = 0 \/ offset >= ByteWeight[k])
           n == CHOOSE k \in 0..3 : Fits(k)
<1>2. n = 1
  <2>1. Fits(1) /\ ~ Fits(0) /\ ~ Fits(2) /\ ~ Fits(3)
    <3>1. ByteWeight[4] = 16777216
      BY SMT DEF ByteWeight
    <3>2. QED
      BY <1>1, <3>1, SMT
  <2>2. \A k \in 0..3 : Fits(k) => k = 1
    <3>1. \A k \in 0..3 : k \in {0, 1, 2, 3}
      BY SMT
    <3> HIDE DEF Fits
    <3>2. QED
      BY <2>1, <3>1
  <2> HIDE DEF Fits
  <2>3. QED
    BY <2>1, <2>2
<1>3. ~ (offset < 0)
  BY SMT
<1>4. EmitBranch(offset) = [k \in 1..n |-> (offset \div ByteWeight[k]) % 256]
  BY <1>3 DEF EmitBranch
<1> HIDE DEF n
<1>5. EmitBranch(offset) = [k \in 1..1 |-> (offset \div ByteWeight[k]) % 256]
  BY <1>2, <1>4
<1>6. CompileBranch(op, offset) = [k \in 1..1 |-> (offset \div ByteWeight[1 - k + 1]) % 256]
  BY DEF CompileBranch
<1>7. \A k \in 1..1 : 1 - k + 1 = k
  BY SMT
<1>8. QED
  BY <1>5, <1>6, <1>7

(* ... and a line number below 128.                                        *)
LEMMA LineEmitted ==
    ASSUME NEW line \in Nat, line < 128
    PROVE  EmitLine(line) = CompileLine(line)
<1>1. /\ GroupWeight[1] = 1 /\ GroupWeight[2] = 128 /\ GroupWeight[3] = 16384
      /\ GroupWeight[4] = 2097152 /\ GroupWeight[5] = 268435456
  BY SMT DEF GroupWeight
<1> DEFINE more(k) == k < 4 /\ (line \div GroupWeight[k + 2]) % 2 = 1
           Stops(k) == ~ more(k) /\ \A j \in 1..(k - 1) : more(j)
           n == CHOOSE k \in 1..4 : Stops(k)
           Fits(k) == line < GroupWeight[k + 1] /\ (k = 1 \/ line >= GroupWeight[k])
           m == CHOOSE k \in 1..4 : Fits(k)
<1>2. n = 1
  <2>1. ~ more(1)
    <3>1. GroupWeight[1 + 2] = 16384
      BY <1>1, SMT
    <3>2. line \div 16384 = 0 /\ 0 % 2 = 0
      BY SMT
    <3>3. QED
      BY <3>1, <3>2, SMT
  <2> HIDE DEF more
  <2>2. Stops(1)
    BY <2>1, SMT
  <2>3. \A k \in 1..4 : Stops(k) => k = 1
    <3> SUFFICES ASSUME NEW k \in 1..4, Stops(k), k # 1 PROVE FALSE
      OBVIOUS
    <3>1. 1 \in 1..(k - 1)
      BY SMT
    <3>2. QED
      BY <2>1, <3>1
  <2> HIDE DEF Stops
  <2>4. QED
    BY <2>2, <2>3, SMT
<1>3. m = 1
  <2>1. Fits(1) /\ ~ Fits(2) /\ ~ Fits(3) /\ ~ Fits(4)
    BY <1>1, SMT
  <2>2. \A k \in 1..4 : Fits(k) => k = 1
    <3>1. \A k \in 1..4 : k \in {1, 2, 3, 4}
      BY SMT
    <3> HIDE DEF Fits
    <3>2. QED
      BY <2>1, <3>1, SMT
  <2> HIDE DEF Fits
  <2>3. QED
    BY <2>1, <2>2, SMT
<1>4. EmitLine(line) = [k \in 1..n |-> (line \div GroupWeight[k]) % 128]
  BY SMT DEF EmitLine
<1>5. CompileLine(line) = [k \in 1..m |-> ((line \div GroupWeight[m - k + 1]) % 128)
                                            + (IF k < m THEN 128 ELSE 0)]
  BY SMT DEF CompileLine
<1> HIDE DEF n, m
<1>6. \A k \in 1..1 : (line \div GroupWeight[k]) % 128
                       = ((line \div GroupWeight[1 - k + 1]) % 128) + (IF k < 1 THEN 128 ELSE 0)
  <2> TAKE k \in 1..1
  <2>1. k = 1
    BY SMT
  <2>2. (line \div 1) % 128 \in Nat
    BY SMT
  <2>3. QED
    BY <1>1, <2>1, <2>2, SMT
<1>7. QED
  BY <1>2, <1>3, <1>4, <1>5, <1>6, SMT

LitsReach(enc, ins) == ins.lits \in Seq(0..enc.reach)

(* The emitter writes a handled instruction as the compiler would.         *)
LEMMA EmittedIsCompiled ==
    ASSUME NEW enc \in Encodings, NEW ins,
           IsWritable(ins), LitsReach(enc, ins), IsHandled(enc, ins)
    PROVE  Emitted(enc, ins) = Compiled(enc, ins)
<1> DEFINE op == Ops[ins.op]
<1>1. ins.op \in 1..Len(Ops) /\ ins.arg \in Arguments(op)
  BY DEF IsWritable
<1>2. op \in Op /\ (op.operands = "branch" => op.group # "LINE")
  BY <1>1, OpsAssumption
<1>3. CASE op.operands = "branch"
  <2>1. op.length = 1 /\ op.backward = FALSE /\ ins.arg > 0
    BY <1>2, <1>3 DEF IsHandled, Op
  <2>2. ins.arg \in 0..(ByteWeight[2] - 1) /\ ByteWeight[2] = 256
    <3>1. ByteWeight[2] = 256
      BY DEF ByteWeight
    <3>2. ins.arg \in 0..(ByteWeight[1 + 1] - 1)
      BY <1>1, <1>3, <2>1, Zenon DEF Arguments
    <3>3. QED
      BY <3>1, <3>2
  <2>3. ins.arg \in Nat /\ ins.arg < 256
    BY <2>2
  <2>4. EmitBranch(ins.arg) = CompileBranch(op, ins.arg)
    BY <2>1, <2>3, BranchEmitted
  <2>5. QED
    BY <1>2, <1>3, <2>4, Zenon DEF Emitted, Compiled
<1>4. CASE op.operands # "branch" /\ op.group = "LINE"
  <2>1. ins.arg \in Nat /\ ins.arg < 128
    <3> DEFINE w == GroupWeight[5]
    <3>1. w \in Nat
      BY SMT DEF GroupWeight
    <3>2. ins.arg \in 0..(w - 1)
      BY <1>1, <1>4 DEF Arguments
    <3> HIDE DEF w
    <3>3. QED
      BY <1>4, <3>1, <3>2, SMT DEF IsHandled
  <2>2. EmitLine(ins.arg) = CompileLine(ins.arg)
    BY <2>1, LineEmitted
  <2>3. QED
    BY <1>4, <2>2, Zenon DEF Emitted, Compiled
<1>5. CASE op.operands # "branch" /\ op.group # "LINE"
  <2> DEFINE emitted == [k \in 1..Len(ins.lits) |-> EmitLiteral(enc, ins.lits[k])]
             compiled == [k \in 1..Len(ins.lits) |-> CompileLiteral(enc, ins.lits[k])]
  <2>1. \A k \in 1..Len(ins.lits) : EmitLiteral(enc, ins.lits[k]) = CompileLiteral(enc, ins.lits[k])
    <3> TAKE k \in 1..Len(ins.lits)
    <3>1. ins.lits[k] \in 0..enc.reach
      <4> DEFINE R == 0..enc.reach
      <4>1. ins.lits \in Seq(R)
        BY DEF LitsReach
      <4> HIDE DEF R
      <4>2. ins.lits[k] \in R
        BY <4>1
      <4>3. QED
        BY <4>2 DEF R
    <3>2. enc = FullEncoding => ins.lits[k] \notin 128..510
      BY Zenon DEF IsHandled
    <3>3. QED
      BY <3>1, <3>2, LiteralsEmitted
  <2>2. emitted = compiled
    BY <2>1
  <2> HIDE DEF emitted, compiled
  <2>3. Emitted(enc, ins) = <<- ins.op>> \o (Joined(emitted, Len(emitted))
                               \o (IF HasByte(op) THEN <<ins.arg>> ELSE <<>>))
    BY <1>5, Zenon DEF Emitted, emitted
  <2>4. Compiled(enc, ins) = <<- ins.op>> \o (Joined(compiled, Len(compiled))
                                \o (IF HasByte(op) THEN <<ins.arg>> ELSE <<>>))
    BY <1>5, Zenon DEF Compiled, compiled
  <2>5. QED
    BY <2>2, <2>3, <2>4, Zenon
<1>6. QED
  BY <1>3, <1>4, <1>5

-----------------------------------------------------------------------------
(* An instruction with its registers renamed and its other literals moved  *)
(* down by n.                                                              *)
RenamedLits(lits, n, rename, registerEnd) ==
    [j \in 1..Len(lits) |-> IF lits[j] < registerEnd THEN rename[lits[j]] ELSE lits[j] - n]

RenamedWrite(write, rename) == IF write = NoReg THEN NoReg ELSE rename[write]

Renamed(ins, n, rename, registerEnd) ==
    [ins EXCEPT !.lits  = RenamedLits(@, n, rename, registerEnd),
                !.reads = { rename[r] : r \in @ },
                !.write = RenamedWrite(@, rename)]

(* What is known of the instruction at k afterwards.                       *)
InFrame(arguments, ins) == \A r \in ins.reads : r < arguments.registerEnd

IsMoved(f, arguments, k, ins) ==
    /\ ins \in Ins
    /\ ins.op = f.code[k].op /\ ins.arg = f.code[k].arg
    /\ ins.offset = Begin(f.enc, f.code, k - 1) - 1
    /\ KeepsIn(f.args.registerEnd, f.code[k]) =>
          /\ ins.lits \in Seq(0..f.enc.reach)
          /\ Len(ins.lits) = Len(f.code[k].lits)
          /\ InFrame(arguments, ins) =>
                /\ IsCompiled(f.enc, arguments.registerEnd, ins)
                /\ KeepsIn(arguments.registerEnd, ins)
                /\ ins.reads = RegistersIn(arguments.registerEnd, ins.lits)
                /\ ins.write = WriteOf(arguments.registerEnd, ins)

(* What renaming does to literals up to reach, of which the ones below     *)
(* registerEnd are registers.                                              *)
AreRenamed(reach, registerEnd, n, rename, lits, moved) ==
    /\ moved \in Seq(0..reach) /\ Len(moved) = Len(lits)
    /\ \A j \in 1..Len(lits) :
          IF lits[j] < registerEnd THEN moved[j] = rename[lits[j]]
          ELSE moved[j] = lits[j] - n /\ moved[j] >= registerEnd - n
    /\ { rename[r] : r \in RegistersIn(registerEnd, lits) }
          = { moved[j] : j \in { i \in 1..Len(lits) : lits[i] < registerEnd } }

(* Renaming leaves registers registers and keeps the others apart from     *)
(* them.                                                                   *)
LEMMA LitsRenamed ==
    ASSUME NEW reach \in Nat, NEW registerEnd \in Nat, registerEnd <= reach + 1,
           NEW n \in 0..registerEnd, NEW lits \in Seq(0..reach),
           NEW rename \in [0..(registerEnd - 1) -> 0..(registerEnd - 1)]
    PROVE  AreRenamed(reach, registerEnd, n, rename, lits,
                      RenamedLits(lits, n, rename, registerEnd))
<1> DEFINE moved == RenamedLits(lits, n, rename, registerEnd)
           R == 0..reach
           m == Len(lits)
<1>1. m \in Nat /\ \A j \in 1..m : lits[j] \in R
  <2>1. lits \in Seq(R)
    OBVIOUS
  <2> HIDE DEF R
  <2>2. QED
    BY <2>1
<1>2. moved = [j \in 1..m |-> IF lits[j] < registerEnd THEN rename[lits[j]] ELSE lits[j] - n]
  BY DEF RenamedLits
<1> HIDE DEF moved, m
<1>3. \A j \in 1..m : moved[j] = IF lits[j] < registerEnd THEN rename[lits[j]] ELSE lits[j] - n
  BY <1>2
<1>4. \A j \in 1..m : /\ moved[j] \in R
                      /\ lits[j] < registerEnd => moved[j] = rename[lits[j]]
                      /\ ~ (lits[j] < registerEnd) =>
                            moved[j] = lits[j] - n /\ moved[j] >= registerEnd - n
  <2> TAKE j \in 1..m
  <2>1. CASE lits[j] < registerEnd
    <3>1. lits[j] \in 0..(registerEnd - 1)
      BY <1>1, <2>1
    <3>2. rename[lits[j]] \in 0..(registerEnd - 1)
      BY <3>1
    <3>3. QED
      BY <1>3, <2>1, <3>2
  <2>2. CASE ~ (lits[j] < registerEnd)
    <3>1. moved[j] = lits[j] - n
      BY <1>3, <2>2
    <3>2. QED
      BY <1>1, <2>2, <3>1
  <2>3. QED
    BY <2>1, <2>2
<1>5. moved \in Seq(R) /\ Len(moved) = m
  <2>1. moved = [j \in 1..m |-> moved[j]]
    BY <1>2
  <2> HIDE DEF R
  <2>2. moved \in [1..m -> R]
    BY <1>4, <2>1
  <2>3. QED
    BY <1>1, <2>2
<1>6. { rename[r] : r \in RegistersIn(registerEnd, lits) }
         = { moved[j] : j \in { i \in 1..m : lits[i] < registerEnd } }
  <2>1. RegistersIn(registerEnd, lits) = { lits[i] : i \in { j \in 1..m : lits[j] < registerEnd } }
    BY DEF RegistersIn, m
  <2>2. \A j \in 1..m : lits[j] < registerEnd => moved[j] = rename[lits[j]]
    BY <1>4
  <2> HIDE DEF R
  <2>3. QED
    BY <2>1, <2>2
<1>7. \A j \in 1..m : IF lits[j] < registerEnd THEN moved[j] = rename[lits[j]]
                       ELSE moved[j] = lits[j] - n /\ moved[j] >= registerEnd - n
  BY <1>4
<1> SUFFICES AreRenamed(reach, registerEnd, n, rename, lits, moved)
  BY DEF moved
<1>8. QED
  BY <1>5, <1>6, <1>7, Zenon DEF AreRenamed, m

(* Moving the register index keeps the literal pool as large as it was.    *)
LEMMA MovedHeader ==
    ASSUME NEW arguments \in Args, NEW n \in 0..arguments.registerEnd, NEW moved,
           moved = MoveRegIndex(arguments, - n)
    PROVE  /\ moved \in Args /\ PoolSize(moved) = PoolSize(arguments)
           /\ moved.argumentEnd = arguments.argumentEnd
           /\ moved.registerEnd = arguments.registerEnd - n
           /\ moved.literalEnd = arguments.literalEnd - n
<1>1. /\ arguments \in [argumentEnd : Nat, registerEnd : Nat, literalEnd : Nat]
      /\ arguments.registerEnd <= arguments.literalEnd
  BY DEF Args
<1> DEFINE r == arguments.registerEnd - n
           l == arguments.literalEnd - n
<1>2. /\ arguments.registerEnd + (- n) = r /\ arguments.literalEnd + (- n) = l
      /\ r \in Nat /\ l \in Nat /\ r <= l /\ l - r = arguments.literalEnd - arguments.registerEnd
  BY <1>1
<1>3. moved = [arguments EXCEPT !.registerEnd = r, !.literalEnd = l]
  BY <1>2 DEF MoveRegIndex
<1> HIDE DEF r, l
<1>4. /\ moved \in [argumentEnd : Nat, registerEnd : Nat, literalEnd : Nat]
      /\ moved.argumentEnd = arguments.argumentEnd /\ moved.registerEnd = r /\ moved.literalEnd = l
  BY <1>1, <1>2, <1>3
<1>5. moved \in Args
  BY <1>2, <1>4 DEF Args
<1>6. QED
  BY <1>2, <1>4, <1>5 DEF PoolSize, r, l

(* The registers of a function are within the reach of its encoding.       *)
LEMMA HeaderReach ==
    ASSUME NEW f, IsFunction(f)
    PROVE  /\ f.enc \in Encodings /\ f.enc.reach \in Nat /\ f.enc.reach <= 32767
           /\ f.args.registerEnd \in Nat /\ f.args.registerEnd <= f.enc.reach + 1
           /\ f.args \in Args
<1>1. /\ f.enc \in Encodings /\ f.args \in Args /\ f.args.literalEnd <= f.enc.reach + 1
  BY DEF IsFunction, Encodings
<1>2. /\ f.args.registerEnd \in Nat /\ f.args.literalEnd \in Nat
      /\ f.args.registerEnd <= f.args.literalEnd
  BY <1>1 DEF Args
<1>3. f.enc.reach \in Nat /\ f.enc.reach <= 32767
  BY <1>1, Limits
<1>4. QED
  BY <1>1, <1>2, <1>3

(* The registers among the literals are registers.                         *)
LEMMA RegistersAre ==
    ASSUME NEW registerEnd \in Nat, NEW lits \in Seq(LiteralIndex)
    PROVE  \A r \in RegistersIn(registerEnd, lits) : r \in 0..(registerEnd - 1)
<1> DEFINE L == LiteralIndex
<1>1. lits \in Seq(L) /\ \A x \in L : x \in Nat
  BY LiteralIndices
<1> HIDE DEF L
<1>2. ASSUME NEW j \in 1..Len(lits), lits[j] < registerEnd PROVE lits[j] \in 0..(registerEnd - 1)
  <2>1. lits[j] \in Nat
    BY <1>1
  <2>2. QED
    BY <1>2, <2>1
<1>3. QED
  BY <1>2 DEF RegistersIn

(* Renaming keeps the kinds of what it renames.                            *)
IsRenamed(old, n, rename, registerEnd, ins) ==
    /\ ins \in Ins
    /\ ins.op = old.op /\ ins.arg = old.arg /\ ins.offset = old.offset
    /\ ins.lits = RenamedLits(old.lits, n, rename, registerEnd)
    /\ ins.reads = { rename[r] : r \in old.reads }
    /\ ins.write = RenamedWrite(old.write, rename)

(* A recorded instruction, renamed, is recorded still.                     *)
LEMMA InsRenamed ==
    ASSUME NEW f, IsFunction(f), NEW k, NEW old, IsRecorded(f, k, old),
           NEW n \in 0..f.args.registerEnd, NEW rename,
           rename \in [0..(f.args.registerEnd - 1) -> 0..(f.args.registerEnd - 1)],
           NEW ins, ins = Renamed(old, n, rename, f.args.registerEnd)
    PROVE  IsRenamed(old, n, rename, f.args.registerEnd, ins)
<1> DEFINE end == f.args.registerEnd
           lits == RenamedLits(old.lits, n, rename, end)
           reads == { rename[r] : r \in old.reads }
           write == RenamedWrite(old.write, rename)
<1>1. /\ end \in Nat /\ end <= 32768
  <2>1. /\ f.enc.reach \in Nat /\ f.enc.reach <= 32767 /\ end <= f.enc.reach + 1 /\ end \in Nat
    BY HeaderReach
  <2>2. QED
    BY <2>1
<1>2. /\ old \in Ins /\ old.reads = RegistersIn(end, old.lits)
      /\ old.write \in old.reads \cup {NoReg}
  BY DEF IsRecorded
<1>3. old.lits \in Seq(LiteralIndex)
  BY <1>2 DEF Ins
<1>4. lits \in Seq(LiteralIndex)
  <2> DEFINE top == 32767
  <2>1. LiteralIndex = 0..top /\ top \in Nat /\ end <= top + 1
    BY <1>1 DEF LiteralIndex
  <2> HIDE DEF top
  <2>2. /\ old.lits \in Seq(0..top) /\ n \in 0..end
        /\ rename \in [0..(end - 1) -> 0..(end - 1)]
    BY <1>3, <2>1
  <2> HIDE DEF lits, end
  <2>3. AreRenamed(top, end, n, rename, old.lits, RenamedLits(old.lits, n, rename, end))
    BY <1>1, <2>1, <2>2, LitsRenamed
  <2>3a. RenamedLits(old.lits, n, rename, end) \in Seq(0..top)
    BY <2>3, Zenon DEF AreRenamed
  <2>4. QED
    BY <2>1, <2>3a DEF lits
<1>5. \A r \in old.reads : r \in 0..(end - 1)
  BY <1>1, <1>2, <1>3, RegistersAre
<1>6. \A r \in old.reads : rename[r] \in LiteralIndex
  <2>1. \A r \in old.reads : rename[r] \in 0..(end - 1)
    BY <1>5
  <2>2. \A x \in 0..(end - 1) : x \in LiteralIndex
    BY <1>1, LiteralIndices
  <2>3. QED
    BY <2>1, <2>2
<1>7. reads \in SUBSET LiteralIndex
  BY <1>6
<1>8. write \in LiteralIndex \cup {NoReg}
  BY <1>2, <1>6 DEF RenamedWrite
<1> HIDE DEF lits, reads, write, end
<1>9. ins = [old EXCEPT !.lits = lits, !.reads = reads, !.write = write]
  BY DEF Renamed, lits, reads, write, end
<1>10. /\ ins \in Ins
       /\ ins.op = old.op /\ ins.arg = old.arg /\ ins.offset = old.offset
       /\ ins.lits = lits /\ ins.reads = reads /\ ins.write = write
  BY <1>2, <1>4, <1>7, <1>8, <1>9 DEF Ins
<1>11. QED
  BY <1>10 DEF IsRenamed, lits, reads, write, end

(* No instruction takes more than two literals of either sort, and no more *)
(* names than literals.                                                    *)
LEMMA LiteralCounts ==
    ASSUME NEW op
    PROVE  /\ OperandLiterals(op) \in {0, 1, 2} /\ GroupLiterals(op) \in {0, 1, 2}
           /\ NameLiterals(op) \in {0, 1, 2} /\ NameLiterals(op) <= GroupLiterals(op)
<1>1. OperandLiterals(op) \in {0, 1, 2}
  BY DEF OperandLiterals
<1>2. NameLiterals(op) \in {0, 1, 2}
  BY DEF NameLiterals
<1>3. NameLiterals(op) # 0 => GroupLiterals(op) = NameLiterals(op)
  BY SMT DEF GroupLiterals, NameLiterals, StringGroups, EvalGroups, ReferenceGroups, PutGroups,
             IncrementGroups
<1>4. GroupLiterals(op) \in {0, 1, 2}
  BY <1>2 DEF GroupLiterals
<1>5. QED
  BY <1>1, <1>2, <1>3, <1>4

(* An instruction that was recorded and renamed is one that can be         *)
(* compiled, if its registers are in the frame.                            *)
LEMMA InsMoved ==
    ASSUME NEW f, IsFunction(f), NEW k \in 1..Len(f.code), NEW old, IsRecorded(f, k, old),
           NEW n \in 0..f.args.registerEnd, NEW rename,
           rename \in [0..(f.args.registerEnd - 1) -> 0..(f.args.registerEnd - 1)],
           NEW ins, ins = Renamed(old, n, rename, f.args.registerEnd),
           NEW arguments, arguments = MoveRegIndex(f.args, - n)
    PROVE  IsMoved(f, arguments, k, ins)
<1> DEFINE c == f.code[k]
           end == f.args.registerEnd
           newEnd == arguments.registerEnd
           op == Ops[c.op]
           m == Len(c.lits)
<1>1. /\ ins \in Ins
      /\ ins.op = old.op /\ ins.arg = old.arg /\ ins.offset = old.offset
      /\ ins.lits = RenamedLits(old.lits, n, rename, end)
      /\ ins.reads = { rename[r] : r \in old.reads }
      /\ ins.write = RenamedWrite(old.write, rename)
  <2>1. IsRenamed(old, n, rename, end, ins)
    BY InsRenamed
  <2>2. QED
    BY <2>1 DEF IsRenamed
<1>2. /\ old.op = c.op /\ old.arg = c.arg
      /\ old.offset = Begin(f.enc, f.code, k - 1) - 1
      /\ old.reads = RegistersIn(end, old.lits)
      /\ KeepsIn(end, c) => old.lits = c.lits /\ old.write = WriteOf(end, c)
  BY DEF IsRecorded
<1>3. /\ f.enc.reach \in Nat /\ end \in Nat /\ end <= f.enc.reach + 1 /\ f.args \in Args
  BY HeaderReach
<1>4. newEnd = end - n
  BY <1>3, MovedHeader
<1>5. IsCompiled(f.enc, end, c)
  BY DEF IsFunction
<1> SUFFICES ASSUME KeepsIn(end, c)
             PROVE  /\ ins.lits \in Seq(0..f.enc.reach) /\ Len(ins.lits) = m
                    /\ InFrame(arguments, ins) =>
                          /\ IsCompiled(f.enc, newEnd, ins)
                          /\ KeepsIn(newEnd, ins)
                          /\ ins.reads = RegistersIn(newEnd, ins.lits)
                          /\ ins.write = WriteOf(newEnd, ins)
  BY <1>1, <1>2 DEF IsMoved
<1>6. /\ c.op \in 1..Len(Ops) /\ c.lits \in Seq(0..f.enc.reach)
      /\ m = OperandLiterals(op) + GroupLiterals(op)
      /\ \A j \in (m - NameLiterals(op) + 1)..m : c.lits[j] >= end
      /\ op.group = "MOV_IDENT" => c.lits[m] < end
      /\ c.arg \in Arguments(op)
  BY <1>5 DEF IsCompiled
<1>7. m \in Nat /\ \A j \in 1..m : c.lits[j] \in Nat
  <2> DEFINE R == 0..f.enc.reach
  <2>1. c.lits \in Seq(R) /\ \A x \in R : x \in Nat
    BY <1>6
  <2> HIDE DEF R
  <2>2. QED
    BY <2>1
<1>8. /\ ins.lits \in Seq(0..f.enc.reach) /\ Len(ins.lits) = m
      /\ \A j \in 1..m : IF c.lits[j] < end THEN ins.lits[j] = rename[c.lits[j]]
                         ELSE ins.lits[j] = c.lits[j] - n /\ ins.lits[j] >= end - n
      /\ { rename[r] : r \in RegistersIn(end, c.lits) }
            = { ins.lits[j] : j \in { i \in 1..m : c.lits[i] < end } }
  <2>1. ins.lits = RenamedLits(c.lits, n, rename, end)
    BY <1>1, <1>2
  <2> DEFINE reach == f.enc.reach
             moved == RenamedLits(c.lits, n, rename, end)
  <2>2. /\ reach \in Nat /\ end \in Nat /\ end <= reach + 1 /\ n \in 0..end
        /\ c.lits \in Seq(0..reach) /\ rename \in [0..(end - 1) -> 0..(end - 1)]
    BY <1>3, <1>6
  <2> HIDE DEF reach, end
  <2>2a. AreRenamed(reach, end, n, rename, c.lits, RenamedLits(c.lits, n, rename, end))
    BY <2>2, LitsRenamed
  <2>3. /\ moved \in Seq(0..reach) /\ Len(moved) = Len(c.lits)
        /\ \A j \in 1..Len(c.lits) :
              IF c.lits[j] < end THEN moved[j] = rename[c.lits[j]]
              ELSE moved[j] = c.lits[j] - n /\ moved[j] >= end - n
        /\ { rename[r] : r \in RegistersIn(end, c.lits) }
              = { moved[j] : j \in { i \in 1..Len(c.lits) : c.lits[i] < end } }
    BY <2>2a, Zenon DEF AreRenamed
  <2>4. QED
    BY <2>1, <2>3, Zenon DEF reach
<1> SUFFICES ASSUME InFrame(arguments, ins)
             PROVE  /\ IsCompiled(f.enc, newEnd, ins)
                    /\ KeepsIn(newEnd, ins)
                    /\ ins.reads = RegistersIn(newEnd, ins.lits)
                    /\ ins.write = WriteOf(newEnd, ins)
  BY <1>8
<1> HIDE DEF m, newEnd, end
<1>9. ins.reads = { ins.lits[j] : j \in { i \in 1..m : c.lits[i] < end } }
  BY <1>1, <1>2, <1>8
<1>10. \A j \in 1..m : /\ c.lits[j] < end <=> ins.lits[j] < newEnd
                       /\ c.lits[j] < end => ins.lits[j] = rename[c.lits[j]]
                       /\ c.lits[j] >= end <=> ins.lits[j] >= newEnd
  <2> TAKE j \in 1..m
  <2>0. ins.lits[j] \in Nat /\ c.lits[j] \in Nat
    <3> DEFINE R == 0..f.enc.reach
    <3>1. ins.lits \in Seq(R) /\ \A x \in R : x \in Nat
      BY <1>8
    <3> HIDE DEF R
    <3>2. QED
      BY <1>7, <1>8, <3>1
  <2>1. CASE c.lits[j] < end
    <3>1. ins.lits[j] \in ins.reads
      BY <1>9, <2>1
    <3>2. ins.lits[j] < newEnd
      BY <3>1 DEF InFrame, newEnd
    <3>3. QED
      BY <1>3, <1>4, <1>8, <2>0, <2>1, <3>2
  <2>2. CASE ~ (c.lits[j] < end)
    <3>1. ins.lits[j] >= end - n
      BY <1>8, <2>2
    <3>2. n \in Nat /\ end \in Nat
      BY <1>3 DEF end
    <3>3. QED
      BY <1>4, <2>0, <2>2, <3>1, <3>2
  <2>3. QED
    BY <2>1, <2>2
<1>11. ins.op = c.op /\ ins.arg = c.arg
  BY <1>1, <1>2
<1>12. IsCompiled(f.enc, newEnd, ins)
  <2>1. NameLiterals(op) \in {0, 1, 2} /\ NameLiterals(op) <= GroupLiterals(op)
        /\ OperandLiterals(op) \in {0, 1, 2} /\ GroupLiterals(op) \in {0, 1, 2}
    BY LiteralCounts
  <2>2. \A j \in (m - NameLiterals(op) + 1)..m : j \in 1..m
    BY <1>6, <1>7, <2>1
  <2>3. \A j \in (m - NameLiterals(op) + 1)..m : ins.lits[j] >= newEnd
    BY <1>6, <1>10, <2>2
  <2>4. op.group = "MOV_IDENT" => ins.lits[m] < newEnd
    <3>1. op.group = "MOV_IDENT" => m \in 1..m
      BY <1>6, <1>7, <2>1, GroupsTake
    <3>2. QED
      BY <1>6, <1>10, <3>1
  <2>5. QED
    BY <1>6, <1>8, <1>11, <2>3, <2>4 DEF IsCompiled
<1>13. m # 0 => LastOf(ins) = ins.lits[m] /\ LastOf(c) = c.lits[m] /\ m \in 1..m
  BY <1>7, <1>8 DEF LastOf, m
<1>14. op.group \in ReferenceGroups => m # 0
  <2>1. op.group \in ReferenceGroups => GroupLiterals(op) = 1
    BY GroupsTake
  <2>2. OperandLiterals(op) \in {0, 1, 2}
    BY DEF OperandLiterals
  <2>3. QED
    BY <1>6, <2>1, <2>2
<1>15. KeepsIn(newEnd, ins)
  <2>1. op.group \in ReferenceGroups => LastOf(ins) < newEnd
    BY <1>10, <1>13, <1>14 DEF KeepsIn
  <2>2. QED
    BY <1>11, <2>1 DEF KeepsIn
<1>16. ins.reads = RegistersIn(newEnd, ins.lits)
  <2>1. { i \in 1..m : c.lits[i] < end } = { i \in 1..Len(ins.lits) : ins.lits[i] < newEnd }
    BY <1>8, <1>10
  <2>2. QED
    BY <1>9, <2>1, Zenon DEF RegistersIn
<1>17. WritesLast(op) => m # 0
  <2>1. WritesLast(op) => GroupLiterals(op) = 1 \/ op.operands = "literal"
    BY GroupsTake DEF WritesLast, IsIncrement, IsPut
  <2>2. op.operands = "literal" => OperandLiterals(op) = 1
    BY DEF OperandLiterals
  <2>3. OperandLiterals(op) \in {0, 1, 2} /\ GroupLiterals(op) \in {0, 1, 2}
    BY LiteralCounts
  <2>4. QED
    BY <1>6, <2>1, <2>2, <2>3
<1>18. ins.write = WriteOf(newEnd, ins)
  <2>1. ins.write = RenamedWrite(WriteOf(end, c), rename)
    BY <1>1, <1>2 DEF end
  <2>2. CASE WritesLast(op) /\ LastOf(c) < end
    <3>1. m \in 1..m /\ LastOf(c) = c.lits[m] /\ LastOf(ins) = ins.lits[m]
      BY <1>13, <1>17, <2>2
    <3>2. LastOf(ins) < newEnd /\ LastOf(ins) = rename[LastOf(c)]
      BY <1>10, <2>2, <3>1
    <3>3. LastOf(c) # NoReg
      BY <1>7, <3>1, NoRegAssumption
    <3>4. QED
      BY <1>11, <2>1, <2>2, <3>2, <3>3 DEF WriteOf, RenamedWrite
  <2>3. CASE ~ (WritesLast(op) /\ LastOf(c) < end)
    <3>1. ~ (WritesLast(op) /\ LastOf(ins) < newEnd)
      BY <1>10, <1>13, <1>17, <2>3
    <3>2. QED
      BY <1>11, <2>1, <2>3, <3>1 DEF WriteOf, RenamedWrite
  <2>4. QED
    BY <2>2, <2>3
<1>19. QED
  BY <1>12, <1>15, <1>16, <1>18

-----------------------------------------------------------------------------
(* What each instruction is written as. *)
Writings(enc, code) == [k \in 1..Len(code) |-> Emitted(enc, code[k])]

(* Until the registers are renamed: as many instructions are recorded as   *)
(* the decoder has passed, each as it was compiled.                        *)
Reading ==
    /\ args = fn.args
    /\ compiledCode = CompiledBlock(fn)
    /\ buffer = <<>> /\ starts = <<>>
    /\ insns \in Seq(Ins)
    /\ Len(insns) <= Len(fn.code)
    /\ at = Begin(fn.enc, fn.code, Len(insns))
    /\ \A k \in 1..Len(insns) : IsRecorded(fn, k, insns[k])
    /\ pc = "optimize" => Len(insns) = Len(fn.code)

(* Afterwards: the arguments have moved with the instructions, and as many *)
(* of these are written as the emitter has passed.                         *)
Writing ==
    /\ \E n \in 0..fn.args.registerEnd : args = MoveRegIndex(fn.args, - n)
    /\ insns \in Seq(Ins)
    /\ Len(insns) = Len(fn.code)
    /\ \A k \in 1..Len(insns) : IsMoved(fn, args, k, insns[k])
    /\ args = fn.args =>
          \A k \in 1..Len(insns) :
             KeepsIn(fn.args.registerEnd, fn.code[k]) => insns[k].lits = fn.code[k].lits
    /\ at \in 1..(Len(insns) + 1)
    /\ buffer = Joined(Writings(fn.enc, insns), at - 1)
    /\ starts \in Seq(Nat) /\ Len(starts) = at - 1
    /\ \A k \in 1..(at - 1) : starts[k] = Len(Joined(Writings(fn.enc, insns), k - 1))
    /\ pc = "emit" => compiledCode = CompiledBlock(fn)
    /\ pc = "done" =>
          /\ at = Len(insns) + 1
          /\ compiledCode = Block(fn, args, PoolSize(fn.args), buffer,
                                  EndInfoOf(fn, CompiledBlock(fn)))

Inv ==
    /\ fn \in Functions
    /\ pc \in {"read", "optimize", "emit", "done"}
    /\ pc \in {"read", "optimize"} => Reading
    /\ pc \in {"emit", "done"} => Writing

-----------------------------------------------------------------------------
(* The function at hand is one that can be read.                           *)
LEMMA FnLoaded ==
    ASSUME fn \in Functions
    PROVE  IsFunction(fn) /\ IsLoaded(fn)
<1>1. IsFunction(fn) /\ SizeFits(fn, CompiledBlock(fn))
  BY EmissionAssumption
<1>2. QED
  BY <1>1, FunctionLoaded, Zenon

(* Being moved does not keep an instruction from being written. *)
LEMMA MovedWritable ==
    ASSUME NEW f, IsFunction(f), NEW arguments, NEW k \in 1..Len(f.code), NEW ins,
           IsMoved(f, arguments, k, ins)
    PROVE  IsWritable(ins)
<1>1. ins \in Ins /\ ins.op = f.code[k].op /\ ins.arg = f.code[k].arg
  BY DEF IsMoved
<1>2. IsCompiled(f.enc, f.args.registerEnd, f.code[k])
  BY DEF IsFunction
<1>3. f.code[k].op \in 1..Len(Ops) /\ f.code[k].arg \in Arguments(Ops[f.code[k].op])
  BY <1>2 DEF IsCompiled
<1>4. ins.lits \in Seq(LiteralIndex)
  BY <1>1 DEF Ins
<1>5. QED
  BY <1>1, <1>3, <1>4 DEF IsWritable

(* What has been written of a sequence of instructions. *)
IsWritten(enc, code) ==
    /\ Joined(Writings(enc, code), 0) = <<>>
    /\ \A k \in 0..Len(code) : Joined(Writings(enc, code), k) \in Seq(Cells)
    /\ \A k \in 1..Len(code) :
          Joined(Writings(enc, code), k)
             = Joined(Writings(enc, code), k - 1) \o Emitted(enc, code[k])

(* What has been written grows by what is emitted for each instruction.    *)
LEMMA WritingsAre ==
    ASSUME NEW enc \in Encodings, NEW code, Len(code) \in Nat,
           \A k \in 1..Len(code) : IsWritable(code[k])
    PROVE  IsWritten(enc, code)
<1> DEFINE n == Len(code)
           parts == Writings(enc, code)
<1>1. n \in Nat /\ \A k \in 1..n : Emitted(enc, code[k]) \in Seq(Cells)
  BY EmittedCells
<1>2. parts = [k \in 1..n |-> Emitted(enc, code[k])]
  BY DEF Writings
<1> HIDE DEF Cells, n, parts
<1> DEFINE T == Seq(Cells)
<1>3. \A k \in 1..n : Emitted(enc, code[k]) \in T
  BY <1>1
<1> HIDE DEF T
<1>4. parts \in Seq(T) /\ Len(parts) = n /\ \A k \in 1..n : parts[k] = Emitted(enc, code[k])
  BY <1>1, <1>2, <1>3
<1>5. parts \in Seq(Seq(Cells))
  BY <1>4 DEF T
<1>6. JoinedIsThat(Cells, parts)
  BY <1>5, JoinedUnfolds
<1>7. QED
  BY <1>4, <1>6 DEF IsWritten, JoinedIsThat, n, parts

-----------------------------------------------------------------------------
(* Inv holds at first and is kept by each action.                          *)
LEMMA InitInv == Init => Inv
<1> SUFFICES ASSUME Init PROVE Inv
  OBVIOUS
<1>1. /\ fn \in Functions /\ compiledCode = CompiledBlock(fn) /\ pc = "read" /\ at = 1
      /\ args = compiledCode.args /\ insns = <<>> /\ buffer = <<>> /\ starts = <<>>
  BY DEF Init
<1>2. IsFunction(fn) /\ IsLoaded(fn)
  BY <1>1, FnLoaded
<1>3. args = fn.args
  BY <1>1, <1>2, Zenon DEF IsLoaded
<1>4. fn.enc \in Encodings /\ AllCompiled(fn.enc, fn.args.registerEnd, fn.code)
  BY <1>2, FunctionCompiled, Zenon
<1>5. Begin(fn.enc, fn.code, 0) = 1 /\ Len(fn.code) \in Nat
  <2>1. Begin(fn.enc, fn.code, 0) = 1
    BY <1>4, Begins
  <2>2. QED
    BY <1>4, <2>1 DEF AllCompiled
<1>6. insns \in Seq(Ins) /\ Len(insns) = 0
  BY <1>1
<1>7. Reading
  BY <1>1, <1>3, <1>5, <1>6 DEF Reading
<1>8. QED
  BY <1>1, <1>7 DEF Inv

(* Reading keeps Inv: the decoder is where the next instruction begins.    *)
LEMMA ReadInsInv == Inv /\ ReadIns => Inv'
<1> SUFFICES ASSUME Inv, ReadIns PROVE Inv'
  OBVIOUS
<1> DEFINE block == CompiledBlock(fn)
           b == DecodeHeader(fn, block)
           n == Len(insns)
           d == DecodeAt(b, at)
<1>1. pc = "read" /\ fn \in Functions /\ Reading
  BY DEF Inv, ReadIns
<1>2. IsFunction(fn) /\ IsLoaded(fn)
  BY <1>1, FnLoaded
<1>3. /\ args = fn.args /\ compiledCode = block /\ buffer = <<>> /\ starts = <<>>
      /\ insns \in Seq(Ins) /\ n <= Len(fn.code) /\ at = Begin(fn.enc, fn.code, n)
      /\ \A k \in 1..n : IsRecorded(fn, k, insns[k])
  BY <1>1 DEF Reading
<1>4. /\ ~ AtEnd(b, at) /\ insns' = Append(insns, InsOf(d)) /\ at' = d.next
      /\ UNCHANGED <<fn, compiledCode, pc, args, buffer, starts>>
  BY <1>3, Zenon DEF ReadIns
<1>5. Len(fn.code) \in Nat /\ n \in Nat
  <2>1. AllCompiled(fn.enc, fn.args.registerEnd, fn.code)
    BY <1>2, FunctionCompiled, Zenon
  <2>2. QED
    BY <1>3, <2>1, LenProperties DEF AllCompiled
<1>6. n # Len(fn.code)
  <2>1. b.enc = fn.enc /\ AtEnd(b, Begin(b.enc, fn.code, Len(fn.code)))
    BY <1>2, Zenon DEF IsLoaded, Standing
  <2>2. QED
    BY <1>3, <1>4, <2>1, Zenon
<1> HIDE DEF n, b, block
<1> DEFINE k == n + 1
<1>7. k \in 1..Len(fn.code) /\ k - 1 = n
  BY <1>3, <1>5, <1>6 DEF n
<1> HIDE DEF k
<1>8. IsRecorded(fn, k, InsOf(d)) /\ d.next = Begin(fn.enc, fn.code, k)
  <2>1. at = Begin(fn.enc, fn.code, k - 1)
    BY <1>3, <1>7 DEF n
  <2>2. QED
    BY <1>2, <1>7, <2>1, InsRecorded, Zenon DEF b, block
<1> DEFINE ins == InsOf(d)
<1> HIDE DEF d, ins
<1>9. ins \in Ins
  BY <1>8 DEF IsRecorded, ins
<1>10. /\ insns' \in Seq(Ins) /\ Len(insns') = k
       /\ \A j \in 1..n : insns'[j] = insns[j]
       /\ insns'[k] = ins
  <2> DEFINE T == Ins
  <2>1. insns' = Append(insns, ins) /\ ins \in T /\ insns \in Seq(T)
    BY <1>3, <1>4, <1>9 DEF ins
  <2>2. n \in Nat
    BY <1>5
  <2> HIDE DEF T
  <2>3. /\ Append(insns, ins) \in Seq(T) /\ Len(Append(insns, ins)) = Len(insns) + 1
        /\ \A j \in 1..Len(insns) : Append(insns, ins)[j] = insns[j]
        /\ Append(insns, ins)[Len(insns) + 1] = ins
    BY <2>1, AppendProperties
  <2>4. insns' \in Seq(T)
    BY <2>1, <2>3, Zenon
  <2>5. QED
    BY <2>1, <2>3, <2>4, Zenon DEF n, k, T
<1>11. \A j \in 1..k : IsRecorded(fn, j, insns'[j])
  <2> TAKE j \in 1..k
  <2>1. CASE j = k
    BY <1>8, <1>10, <2>1 DEF ins
  <2>2. CASE j # k
    <3>1. j \in 1..n
      BY <1>5, <1>7, <2>2
    <3>2. QED
      BY <1>3, <1>10, <3>1 DEF n
  <2>3. QED
    BY <2>1, <2>2
<1>12. Reading'
  <2>1. k <= Len(fn.code)
    BY <1>5, <1>7
  <2>2. fn' = fn /\ compiledCode' = compiledCode /\ args' = args /\ buffer' = buffer
        /\ starts' = starts /\ pc' = "read"
    BY <1>1, <1>4
  <2>3. at' = Begin(fn.enc, fn.code, k)
    BY <1>4, <1>8
  <2>4. QED
    BY <1>3, <1>10, <1>11, <2>1, <2>2, <2>3 DEF Reading, block
<1>13. QED
  BY <1>1, <1>4, <1>12 DEF Inv

(* The decoder stops at the end of the code, with every instruction        *)
(* recorded.                                                               *)
LEMMA EndReadInv == Inv /\ EndRead => Inv'
<1> SUFFICES ASSUME Inv, EndRead PROVE Inv'
  OBVIOUS
<1> DEFINE block == CompiledBlock(fn)
           b == DecodeHeader(fn, block)
           n == Len(insns)
<1>1. pc = "read" /\ fn \in Functions /\ Reading
  BY DEF Inv, EndRead
<1>2. IsFunction(fn) /\ IsLoaded(fn)
  BY <1>1, FnLoaded
<1>3. /\ compiledCode = block
      /\ insns \in Seq(Ins) /\ n <= Len(fn.code) /\ at = Begin(fn.enc, fn.code, n)
  BY <1>1 DEF Reading
<1>4. /\ AtEnd(b, at) /\ pc' = "optimize"
      /\ UNCHANGED <<fn, compiledCode, at, args, insns, buffer, starts>>
  BY <1>3, Zenon DEF EndRead
<1>5. Len(fn.code) \in Nat /\ n \in Nat
  <2>1. AllCompiled(fn.enc, fn.args.registerEnd, fn.code)
    BY <1>2, FunctionCompiled, Zenon
  <2>2. QED
    BY <1>3, <2>1, LenProperties DEF AllCompiled
<1> HIDE DEF n, b, block
<1>6. n = Len(fn.code)
  <2> SUFFICES ASSUME n # Len(fn.code) PROVE FALSE
    OBVIOUS
  <2> DEFINE k == n + 1
  <2>1. k \in 1..Len(fn.code) /\ k - 1 = n
    BY <1>3, <1>5 DEF n
  <2> HIDE DEF k
  <2>2. at = Begin(fn.enc, fn.code, k - 1)
    BY <1>3, <2>1 DEF n
  <2>3. ~ AtEnd(b, at)
    BY <1>2, <2>1, <2>2, InsRecorded, Zenon DEF b, block
  <2>4. QED
    BY <1>4, <2>3
<1>7. Reading'
  BY <1>1, <1>4, <1>6 DEF Reading, n
<1>8. QED
  BY <1>1, <1>4, <1>7 DEF Inv

(* What Renumber does to an instruction is to rename its registers. *)
LEMMA RenumberIs ==
    ASSUME NEW ins, NEW n, NEW rename, NEW registerEnd
    PROVE  [ins EXCEPT
               !.lits  = [j \in 1..Len(@) |-> IF @[j] < registerEnd THEN rename[@[j]] ELSE @[j] - n],
               !.reads = { rename[r] : r \in @ },
               !.write = IF @ = NoReg THEN NoReg ELSE rename[@]]
             = Renamed(ins, n, rename, registerEnd)
BY DEF Renamed, RenamedLits, RenamedWrite

(* Nothing changes if none is saved and every register stays.              *)
LEMMA NothingRenamed ==
    ASSUME NEW lits \in Seq(LiteralIndex), NEW registerEnd \in Nat, NEW rename,
           \A r \in 0..(registerEnd - 1) : rename[r] = r
    PROVE  RenamedLits(lits, 0, rename, registerEnd) = lits
<1> DEFINE L == LiteralIndex
           moved == RenamedLits(lits, 0, rename, registerEnd)
<1>1. lits \in Seq(L) /\ \A x \in L : x \in Nat
  BY LiteralIndices
<1> HIDE DEF L
<1>2. \A j \in 1..Len(lits) :
         (IF lits[j] < registerEnd THEN rename[lits[j]] ELSE lits[j] - 0) = lits[j]
  <2> TAKE j \in 1..Len(lits)
  <2>1. lits[j] \in Nat
    BY <1>1, ElementOfSeq
  <2>2. lits[j] < registerEnd => lits[j] \in 0..(registerEnd - 1)
    BY <2>1
  <2>3. QED
    BY <2>1, <2>2
<1>3. moved = [j \in 1..Len(lits) |-> lits[j]]
  BY <1>2 DEF RenamedLits
<1>4. lits = [j \in 1..Len(lits) |-> lits[j]]
  BY <1>1
<1>5. QED
  BY <1>3, <1>4

(* Renaming leaves instructions that can be compiled, in the frame there   *)
(* is then.                                                                *)
LEMMA RenumberInv ==
    ASSUME NEW n \in 0..fn.args.registerEnd, NEW rename \in [Registers -> Registers],
           Inv, Renumber(n, rename)
    PROVE  Inv'
<1> DEFINE l == Len(insns)
           end == fn.args.registerEnd
<1>1. pc = "optimize" /\ fn \in Functions /\ Reading
  BY DEF Inv, Renumber
<1>2. IsFunction(fn)
  BY <1>1, FnLoaded
<1>3. /\ args = fn.args /\ compiledCode = CompiledBlock(fn) /\ buffer = <<>> /\ starts = <<>>
      /\ insns \in Seq(Ins) /\ l = Len(fn.code)
      /\ \A k \in 1..l : IsRecorded(fn, k, insns[k])
  BY <1>1 DEF Reading
<1>4. insns' = [i \in 1..l |-> Renamed(insns[i], n, rename, end)]
  <2>1. insns' = [i \in 1..l |->
                    [insns[i] EXCEPT
                        !.lits  = [j \in 1..Len(@) |->
                                      IF @[j] < args.registerEnd THEN rename[@[j]] ELSE @[j] - n],
                        !.reads = { rename[r] : r \in @ },
                        !.write = IF @ = NoReg THEN NoReg ELSE rename[@]]]
    BY Zenon DEF Renumber
  <2>2. QED
    BY <1>3, <2>1 DEF Renamed, RenamedLits, RenamedWrite
<1>5. /\ args' = MoveRegIndex(args, - n) /\ pc' = "emit" /\ at' = 1
      /\ UNCHANGED <<fn, compiledCode, buffer, starts>>
  BY DEF Renumber
<1>6. l \in Nat
  BY <1>3, LenProperties
<1> HIDE DEF l
<1>7. args' = MoveRegIndex(fn.args, - n)
  BY <1>3, <1>5
<1>8. ASSUME NEW k \in 1..l
      PROVE  IsMoved(fn, args', k, Renamed(insns[k], n, rename, end))
  <2>1. IsRecorded(fn, k, insns[k]) /\ k \in 1..Len(fn.code)
    BY <1>3
  <2>2. rename \in [0..(fn.args.registerEnd - 1) -> 0..(fn.args.registerEnd - 1)]
    BY DEF Registers
  <2>3. QED
    BY <1>2, <1>7, <2>1, <2>2, InsMoved
<1>9. \A k \in 1..l : Renamed(insns[k], n, rename, end) \in Ins
  BY <1>8 DEF IsMoved
<1>10. insns' \in Seq(Ins) /\ Len(insns') = l /\ \A k \in 1..l : IsMoved(fn, args', k, insns'[k])
  <2> DEFINE T == Ins
             R(k) == Renamed(insns[k], n, rename, end)
  <2>1. insns' = [k \in 1..l |-> R(k)] /\ \A k \in 1..l : R(k) \in T
    BY <1>4, <1>9
  <2>2. \A k \in 1..l : IsMoved(fn, args', k, R(k))
    BY <1>8
  <2> HIDE DEF T, R
  <2>3. insns' \in Seq(T) /\ Len(insns') = l /\ \A k \in 1..l : insns'[k] = R(k)
    BY <1>6, <2>1
  <2>4. QED
    BY <2>2, <2>3 DEF T
<1>10a. ASSUME args' = fn.args, NEW k \in 1..l, KeepsIn(end, fn.code[k])
        PROVE  insns'[k].lits = fn.code[k].lits
  <2>1. fn.args \in Args /\ end \in Nat
    BY <1>2, HeaderReach
  <2>2. n = 0
    <3> DEFINE a == fn.args
               moved == args'
    <3>1. a \in Args /\ n \in 0..a.registerEnd /\ moved = MoveRegIndex(a, - n) /\ moved = a
      BY <1>7, <1>10a, <2>1
    <3> HIDE DEF a, moved
    <3>2. a.registerEnd = a.registerEnd - n
      BY <3>1, MovedHeader
    <3>3. a.registerEnd \in Nat /\ n \in Nat
      BY <2>1 DEF a
    <3>4. QED
      BY <3>2, <3>3
  <2>3. \A r \in 0..(end - 1) : rename[r] = r
    <3>1. n = 0 => \A r \in DOMAIN rename : rename[r] = r
      BY Zenon DEF Renumber
    <3>2. DOMAIN rename = 0..(end - 1)
      BY DEF Registers
    <3>3. QED
      BY <2>2, <3>1, <3>2
  <2>4. insns'[k].lits = RenamedLits(insns[k].lits, n, rename, end)
    <3>1. insns'[k] = Renamed(insns[k], n, rename, end)
      BY <1>4
    <3>2. IsRecorded(fn, k, insns[k]) /\ n \in 0..fn.args.registerEnd
          /\ rename \in [0..(fn.args.registerEnd - 1) -> 0..(fn.args.registerEnd - 1)]
      BY <1>3 DEF Registers
    <3> DEFINE ins == Renamed(insns[k], n, rename, fn.args.registerEnd)
    <3> HIDE DEF ins
    <3>3. IsRenamed(insns[k], n, rename, fn.args.registerEnd, ins)
      BY <1>2, <3>2, InsRenamed DEF ins
    <3>4. ins.lits = RenamedLits(insns[k].lits, n, rename, fn.args.registerEnd)
      BY <3>3 DEF IsRenamed
    <3>5. QED
      BY <3>1, <3>4 DEF ins
  <2>5. insns[k].lits = fn.code[k].lits /\ insns[k].lits \in Seq(LiteralIndex)
    <3>1. IsRecorded(fn, k, insns[k])
      BY <1>3
    <3>2. QED
      BY <1>10a, <3>1 DEF IsRecorded, Ins
  <2> DEFINE lits == insns[k].lits
  <2>6. lits \in Seq(LiteralIndex) /\ insns'[k].lits = RenamedLits(lits, 0, rename, end)
    BY <2>2, <2>4, <2>5
  <2> HIDE DEF lits, end
  <2>7. RenamedLits(lits, 0, rename, end) = lits
    BY <2>1, <2>3, <2>6, NothingRenamed
  <2>8. QED
    BY <2>5, <2>6, <2>7 DEF lits
<1>11. Joined(Writings(fn.enc, insns'), 0) = <<>>
  <2>1. \A k \in 1..Len(insns') : IsWritable(insns'[k])
    BY <1>2, <1>3, <1>10, MovedWritable
  <2>2. fn.enc \in Encodings /\ Len(insns') \in Nat
    BY <1>2, <1>6, <1>10, FunctionCompiled, Zenon
  <2>3. IsWritten(fn.enc, insns')
    <3> DEFINE code == insns'
    <3>1. Len(code) \in Nat /\ \A k \in 1..Len(code) : IsWritable(code[k])
      BY <2>1, <2>2
    <3> HIDE DEF code
    <3>2. IsWritten(fn.enc, code)
      BY <2>2, <3>1, WritingsAre
    <3>3. QED
      BY <3>2 DEF code
  <2>4. QED
    BY <2>3, Zenon DEF IsWritten
<1>12. Writing'
  <2>1. \E m \in 0..fn'.args.registerEnd : args' = MoveRegIndex(fn'.args, - m)
    BY <1>5, <1>7
  <2>2. at' \in 1..(Len(insns') + 1) /\ at' - 1 = 0
    BY <1>5, <1>6, <1>10
  <2>3. buffer' = Joined(Writings(fn'.enc, insns'), at' - 1)
    BY <1>3, <1>5, <1>11, <2>2
  <2>4. starts' \in Seq(Nat) /\ Len(starts') = at' - 1 /\ 1..(at' - 1) = {}
    BY <1>3, <1>5, <2>2
  <2>5. fn' = fn /\ pc' = "emit" /\ compiledCode' = CompiledBlock(fn)
    BY <1>3, <1>5
  <2>6. QED
    BY <1>3, <1>10, <1>10a, <2>1, <2>2, <2>3, <2>4, <2>5 DEF Writing
<1>13. QED
  BY <1>1, <1>5, <1>12 DEF Inv

(* What Writing says of the instructions. *)
LEMMA WritingWritten ==
    ASSUME fn \in Functions, Writing
    PROVE  /\ fn.enc \in Encodings /\ Len(insns) \in Nat
           /\ \A k \in 1..Len(insns) : IsWritable(insns[k])
           /\ IsWritten(fn.enc, insns)
<1>1. IsFunction(fn)
  BY FnLoaded
<1>2. fn.enc \in Encodings
  BY <1>1, FunctionCompiled, Zenon
<1>3. /\ insns \in Seq(Ins) /\ Len(insns) = Len(fn.code)
      /\ \A k \in 1..Len(insns) : IsMoved(fn, args, k, insns[k])
  BY DEF Writing
<1>4. \A k \in 1..Len(insns) : IsWritable(insns[k])
  BY <1>1, <1>3, MovedWritable
<1>5. Len(insns) \in Nat
  BY <1>3, LenProperties
<1>6. QED
  BY <1>2, <1>4, <1>5, WritingsAre

(* Writing keeps Inv: the buffer grows by the instruction at hand.         *)
LEMMA EmitInsInv == Inv /\ EmitIns => Inv'
<1> SUFFICES ASSUME Inv, EmitIns PROVE Inv'
  OBVIOUS
<1> DEFINE J(k) == Joined(Writings(fn.enc, insns), k)
           n == Len(insns)
<1>1. pc = "emit" /\ fn \in Functions /\ Writing
  BY DEF Inv, EmitIns
<1>2. /\ fn.enc \in Encodings /\ n \in Nat /\ IsWritten(fn.enc, insns)
  BY <1>1, WritingWritten, Zenon
<1>3. /\ at \in 1..(n + 1) /\ buffer = J(at - 1)
      /\ starts \in Seq(Nat) /\ Len(starts) = at - 1
      /\ \A k \in 1..(at - 1) : starts[k] = Len(J(k - 1))
  BY <1>1 DEF Writing
<1>4. /\ at <= n /\ buffer' = buffer \o Emitted(fn.enc, insns[at])
      /\ starts' = Append(starts, Len(buffer)) /\ at' = at + 1
      /\ UNCHANGED <<fn, compiledCode, pc, args, insns>>
  BY DEF EmitIns
<1>5. /\ \A k \in 0..n : J(k) \in Seq(Cells)
      /\ \A k \in 1..n : J(k) = J(k - 1) \o Emitted(fn.enc, insns[k])
  BY <1>2, Zenon DEF IsWritten
<1> HIDE DEF J, n
<1>6. at \in 1..n /\ at' \in 1..(n + 1) /\ at' - 1 = at /\ at - 1 \in 0..n
  BY <1>2, <1>3, <1>4
<1>7. buffer' = J(at' - 1)
  BY <1>3, <1>4, <1>5, <1>6
<1>8. Len(buffer) \in Nat
  BY <1>3, <1>5, <1>6, LenProperties
<1>9. /\ starts' \in Seq(Nat) /\ Len(starts') = at' - 1
      /\ \A k \in 1..(at' - 1) : starts'[k] = Len(J(k - 1))
  <2> DEFINE T == Nat
             x == Len(buffer)
  <2>1. starts \in Seq(T) /\ x \in T
    BY <1>3, <1>8
  <2> HIDE DEF T, x
  <2>2. /\ Append(starts, x) \in Seq(T) /\ Len(Append(starts, x)) = Len(starts) + 1
        /\ \A j \in 1..Len(starts) : Append(starts, x)[j] = starts[j]
        /\ Append(starts, x)[Len(starts) + 1] = x
    BY <2>1, AppendProperties
  <2>3. starts' = Append(starts, x) /\ Len(starts) = at - 1 /\ (at - 1) + 1 = at
    BY <1>3, <1>4, <1>6 DEF x
  <2>4. ASSUME NEW k \in 1..at PROVE starts'[k] = Len(J(k - 1))
    <3>1. CASE k = at
      <4>1. starts'[at] = x
        BY <2>2, <2>3
      <4>2. QED
        BY <1>3, <3>1, <4>1 DEF x
    <3>2. CASE k # at
      <4>1. k \in 1..(at - 1)
        BY <1>6, <3>2
      <4>2. starts'[k] = starts[k]
        BY <2>2, <2>3, <4>1
      <4>3. QED
        BY <1>3, <4>1, <4>2
    <3>3. QED
      BY <3>1, <3>2
  <2>5. starts' \in Seq(Nat) /\ Len(starts') = at
    BY <2>2, <2>3 DEF T
  <2>6. QED
    BY <1>6, <2>4, <2>5
<1>10. Writing'
  BY <1>1, <1>4, <1>6, <1>7, <1>9 DEF Writing, J, n
<1>11. QED
  BY <1>1, <1>4, <1>10 DEF Inv

(* What is written at last is the block Writing speaks of.                 *)
LEMMA EndEmitInv == Inv /\ EndEmit => Inv'
<1> SUFFICES ASSUME Inv, EndEmit PROVE Inv'
  OBVIOUS
<1> DEFINE block == CompiledBlock(fn)
           n == Len(insns)
<1>1. pc = "emit" /\ fn \in Functions /\ Writing
  BY DEF Inv, EndEmit
<1>2. n \in Nat /\ at \in 1..(n + 1) /\ compiledCode = block
  BY <1>1, WritingWritten DEF Writing
<1>3. /\ at > n /\ pc' = "done"
      /\ compiledCode' = Block(fn, args, block.pool, buffer, EndInfoOf(fn, block))
      /\ UNCHANGED <<fn, at, args, insns, buffer, starts>>
  BY <1>2 DEF EndEmit
<1>4. block.pool = PoolSize(fn.args)
  <2>1. IsLoaded(fn)
    BY <1>1, FnLoaded
  <2>2. QED
    BY <2>1, Zenon DEF IsLoaded
<1>5. at = n + 1
  BY <1>2, <1>3
<1> HIDE DEF n, block
<1>6. compiledCode' = Block(fn, args, PoolSize(fn.args), buffer, EndInfoOf(fn, block))
  BY <1>3, <1>4
<1>7. Writing'
  BY <1>1, <1>3, <1>5, <1>6 DEF Writing, n, block
<1>8. QED
  BY <1>1, <1>3, <1>7 DEF Inv

(* A step that changes nothing keeps Inv.                                  *)
LEMMA StutterInv == Inv /\ UNCHANGED vars => Inv'
BY DEF Inv, vars, Reading, Writing

(* Inv is an invariant.                                                    *)
LEMMA InvHolds == Spec => []Inv
<1>1. Inv /\ [Next]_vars => Inv'
  BY ReadInsInv, EndReadInv, RenumberInv, EmitInsInv, EndEmitInv, StutterInv DEF Next
<1>2. QED
  BY <1>1, InitInv, PTL DEF Spec

(* A block takes over its arguments, and its cells are opcodes and bytes.  *)
LEMMA BlockFilled ==
    ASSUME NEW f, NEW arguments, Fitting(f, arguments), NEW code \in Seq(Cells),
           NEW info \in Seq(Cells), NEW pool, pool = PoolSize(arguments)
    PROVE  LET block == Block(f, arguments, pool, code, info)
           IN  block.args = arguments /\ block.cells \in Seq(Cells)
<1> DEFINE block == Block(f, arguments, pool, code, info)
           before == ArgumentsSize(f) + 4 * pool
           cells == Filled(before, code, info)
           m == before + Len(code) + Len(info)
           p == Padding(Alignment, m)
<1>1. /\ arguments \in [argumentEnd : Nat, registerEnd : Nat, literalEnd : Nat]
      /\ arguments.registerEnd <= arguments.literalEnd
  BY DEF Fitting, Args
<1>2. pool \in Nat /\ ArgumentsSize(f) \in Nat
  BY <1>1 DEF PoolSize, ArgumentsSize
<1>3. m \in Nat
  BY <1>2, LenProperties
<1>4. block.args = arguments /\ block.cells = cells
  BY StoredWhole DEF Block
<1>5. p \in Nat
  BY <1>3, AlignmentAssumption, Padded
<1>6. cells = code \o Zeros(p) \o info
  BY DEF Filled, Zeros, Padding
<1>7. cells \in Seq(Cells)
  <2> HIDE DEF p, cells
  <2>1. QED
    BY <1>5, <1>6, Apart
<1>8. QED
  BY <1>4, <1>7

(* What the header says after n registers were saved. *)
IsSaved(f, n, moved) ==
    /\ moved \in Args /\ Fitting(f, moved)
    /\ moved.registerEnd = f.args.registerEnd - n
    /\ PoolSize(moved) = PoolSize(f.args)
    /\ EndInfo(f, moved) = EndInfo(f, f.args)

(* The header after registers were saved is one of a function.             *)
LEMMA HeaderSaved ==
    ASSUME NEW f, IsFunction(f), NEW n \in 0..f.args.registerEnd
    PROVE  IsSaved(f, n, MoveRegIndex(f.args, - n))
<1> DEFINE a == f.args
           moved == MoveRegIndex(a, - n)
<1>1. a \in Args /\ Fitting(f, a)
  <2>1. Fitting(f, a)
    BY FunctionCompiled, Zenon
  <2>2. QED
    BY <2>1, SMT DEF Fitting
<1>2. /\ moved \in Args /\ PoolSize(moved) = PoolSize(a)
      /\ moved.argumentEnd = a.argumentEnd
      /\ moved.registerEnd = a.registerEnd - n
      /\ moved.literalEnd = a.literalEnd - n
  <2>1. a \in Args /\ n \in 0..a.registerEnd /\ moved = MoveRegIndex(a, - n)
    BY <1>1
  <2> HIDE DEF moved, a
  <2>2. QED
    BY <2>1, MovedHeader
<1> HIDE DEF moved, a
<1>3. n \in Nat /\ a.literalEnd \in Nat
  BY <1>1 DEF Args, a
<1>4. Fitting(f, moved)
  <2> DEFINE limit == IF f.wide THEN 65536 ELSE 256
  <2>1. a.argumentEnd < limit /\ a.literalEnd < limit /\ limit \in Nat
        /\ f.wide \in BOOLEAN /\ f.mapped \in BOOLEAN /\ f.extras \in Nat
    BY <1>1 DEF Fitting
  <2> HIDE DEF limit
  <2>2. moved.argumentEnd < limit /\ moved.literalEnd < limit
    BY <1>2, <1>3, <2>1
  <2>3. QED
    BY <1>2, <2>1, <2>2 DEF Fitting, limit
<1>5. EndInfo(f, moved) = EndInfo(f, a)
  BY <1>2 DEF EndInfo
<1>6. QED
  BY <1>2, <1>4, <1>5 DEF IsSaved, moved, a

(* The type invariant.                                                     *)
LEMMA InvType == Inv => TypeOK
<1> SUFFICES ASSUME Inv PROVE TypeOK
  OBVIOUS
<1> DEFINE block == CompiledBlock(fn)
<1>1. fn \in Functions /\ pc \in {"read", "optimize", "emit", "done"}
  BY DEF Inv
<1>2. IsFunction(fn) /\ IsLoaded(fn)
  BY <1>1, FnLoaded
<1>3. /\ block.args = fn.args /\ block.cells \in Seq(Cells)
      /\ EndInfoOf(fn, block) \in Seq(Cells)
  BY <1>2, Zenon DEF IsLoaded
<1>4. fn.args \in Args /\ fn.enc \in Encodings
  BY <1>2, HeaderReach
<1> HIDE DEF block, Cells
<1>5. \A ins \in Ins : IsIns(ins)
  BY DEF Ins, IsIns
<1>6. CASE Reading
  <2>1. /\ args = fn.args /\ compiledCode = block /\ buffer = <<>> /\ starts = <<>>
        /\ insns \in Seq(Ins) /\ at = Begin(fn.enc, fn.code, Len(insns))
        /\ Len(insns) <= Len(fn.code)
    BY <1>6 DEF Reading, block
  <2>2. at \in Nat \ {0}
    <3>1. AllCompiled(fn.enc, fn.args.registerEnd, fn.code)
      BY <1>2, FunctionCompiled, Zenon
    <3>2. Len(insns) \in 0..Len(fn.code)
      BY <2>1, <3>1, LenProperties DEF AllCompiled
    <3>3. QED
      BY <1>4, <2>1, <3>1, <3>2, Begins
  <2>3. buffer \in Seq(Cells) /\ starts \in Seq(Nat)
    BY <2>1
  <2>4. \A i \in 1..Len(insns) : IsIns(insns[i])
    <3> DEFINE T == Ins
    <3>1. insns \in Seq(T) /\ \A ins \in T : IsIns(ins)
      BY <1>5, <2>1
    <3> HIDE DEF T
    <3>2. QED
      BY <3>1
  <2>5. QED
    BY <1>1, <1>2, <1>3, <1>4, <2>1, <2>2, <2>3, <2>4 DEF TypeOK, Cells
<1>7. CASE Writing
  <2>1. /\ insns \in Seq(Ins) /\ at \in 1..(Len(insns) + 1)
        /\ buffer = Joined(Writings(fn.enc, insns), at - 1) /\ starts \in Seq(Nat)
        /\ pc = "emit" => compiledCode = block
        /\ pc = "done" => compiledCode = Block(fn, args, PoolSize(fn.args), buffer,
                                               EndInfoOf(fn, block))
    BY <1>7 DEF Writing, block
  <2>2. Len(insns) \in Nat /\ IsWritten(fn.enc, insns)
    BY <1>1, <1>7, WritingWritten, Zenon
  <2>3. at \in Nat \ {0} /\ at - 1 \in 0..Len(insns)
    BY <2>1, <2>2
  <2>4. buffer \in Seq(Cells)
    BY <2>1, <2>2, <2>3 DEF IsWritten
  <2>5. PICK n \in 0..fn.args.registerEnd : args = MoveRegIndex(fn.args, - n)
    BY <1>7 DEF Writing
  <2>6. args \in Args /\ Fitting(fn, args) /\ PoolSize(args) = PoolSize(fn.args)
    BY <1>2, <2>5, HeaderSaved DEF IsSaved
  <2>7. compiledCode.args \in Args /\ compiledCode.cells \in Seq(Cells)
    <3>1. CASE pc = "done"
      <4> DEFINE info == EndInfoOf(fn, block)
                 pool == PoolSize(fn.args)
      <4>1. compiledCode = Block(fn, args, pool, buffer, info)
        BY <2>1, <3>1
      <4>2. info \in Seq(Cells) /\ pool = PoolSize(args)
        BY <1>3, <2>6
      <4> HIDE DEF info, pool
      <4>3. compiledCode.args = args /\ compiledCode.cells \in Seq(Cells)
        BY <2>4, <2>6, <4>1, <4>2, BlockFilled
      <4>4. QED
        BY <2>6, <4>3
    <3>2. CASE pc = "emit"
      BY <1>3, <1>4, <2>1, <3>2
    <3>3. CASE pc \in {"read", "optimize"}
      <4>1. Reading
        BY <3>3 DEF Inv
      <4>2. compiledCode = block
        BY <4>1 DEF Reading, block
      <4>3. QED
        BY <1>3, <1>4, <4>2
    <3>4. QED
      BY <1>1, <3>1, <3>2, <3>3
  <2>8. \A i \in 1..Len(insns) : IsIns(insns[i])
    <3> DEFINE T == Ins
    <3>1. insns \in Seq(T) /\ \A ins \in T : IsIns(ins)
      BY <1>5, <2>1
    <3> HIDE DEF T
    <3>2. QED
      BY <3>1
  <2>9. QED
    BY <1>1, <1>2, <2>1, <2>3, <2>4, <2>6, <2>7, <2>8 DEF TypeOK, Cells
<1>8. QED
  BY <1>1, <1>6, <1>7 DEF Inv

(* Every state has the types it is to have; among them that only opcodes   *)
(* and bytes are written. Of every function, not of the ones TLC tries.    *)
THEOREM TypeCorrect == Spec => []TypeOK
BY InvHolds, InvType, PTL

(* KeepsLiterals is what decoding keeps. *)
LEMMA KeepsAre ==
    ASSUME NEW ins
    PROVE  KeepsLiterals(ins) <=> KeepsIn(fn.args.registerEnd, ins)
BY DEF KeepsLiterals, KeepsIn, LastOf, IsFinalizing

(* The decoder gets every instruction out of a stream that was compiled    *)
(* from it, at the offset it was compiled to, and none more                *)
(* (buildInstructions).                                                    *)
THEOREM StaysInStep == Spec => []DecodesCompiled
<1>1. Inv => DecodesCompiled
  <2> SUFFICES ASSUME Inv, pc = "optimize"
               PROVE  /\ Len(insns) = Len(fn.code)
                      /\ \A i \in 1..Len(insns) :
                            /\ insns[i].op = fn.code[i].op /\ insns[i].arg = fn.code[i].arg
                            /\ insns[i].offset = Len(StreamUpTo(fn, i - 1))
                            /\ KeepsLiterals(fn.code[i]) => insns[i].lits = fn.code[i].lits
    BY Zenon DEF DecodesCompiled
  <2>1. fn \in Functions /\ Reading
    BY DEF Inv
  <2>2. IsFunction(fn)
    BY <2>1, FnLoaded
  <2>3. Len(insns) = Len(fn.code) /\ \A k \in 1..Len(insns) : IsRecorded(fn, k, insns[k])
    BY <2>1 DEF Reading
  <2>4. /\ fn.enc \in Encodings /\ AllCompiled(fn.enc, fn.args.registerEnd, fn.code)
        /\ \A k : StreamUpTo(fn, k) = Joined(Parts(fn.enc, fn.code), k)
    BY <2>2, FunctionCompiled, Zenon
  <2>5. ASSUME NEW i \in 1..Len(insns)
        PROVE  /\ insns[i].op = fn.code[i].op /\ insns[i].arg = fn.code[i].arg
               /\ insns[i].offset = Len(StreamUpTo(fn, i - 1))
               /\ KeepsLiterals(fn.code[i]) => insns[i].lits = fn.code[i].lits
    <3>1. IsRecorded(fn, i, insns[i])
      BY <2>3
    <3>2. /\ insns[i].op = fn.code[i].op /\ insns[i].arg = fn.code[i].arg
          /\ KeepsLiterals(fn.code[i]) => insns[i].lits = fn.code[i].lits
      BY <3>1, KeepsAre DEF IsRecorded
    <3>3. i - 1 \in 0..Len(fn.code)
      BY <2>3, <2>4 DEF AllCompiled
    <3>4. Len(Joined(Parts(fn.enc, fn.code), i - 1)) \in Nat
      BY <2>4, <3>3, Begins, LenProperties
    <3>5. insns[i].offset = Len(StreamUpTo(fn, i - 1))
      <4>1. insns[i].offset = Begin(fn.enc, fn.code, i - 1) - 1
        BY <3>1 DEF IsRecorded
      <4>2. QED
        BY <2>4, <3>4, <4>1 DEF Begin
    <3>6. QED
      BY <3>2, <3>5
  <2>6. QED
    BY <2>3, <2>5
<1>2. QED
  BY <1>1, InvHolds, PTL

(* The registers among the literals of an instruction are its read ones,   *)
(* and the one it writes is among them, in whatever way it was decoded     *)
(* (setWriteReg, addReadReg and decodeLiteral).                            *)
THEOREM RecordsWhole == Spec => []RecordsAsAssumed
<1>1. Inv => RecordsAsAssumed
  <2> SUFFICES ASSUME Inv, pc = "optimize" PROVE Recorded(insns, fn.args)
    BY DEF RecordsAsAssumed
  <2>1. Reading
    BY DEF Inv
  <2>2. \A k \in 1..Len(insns) : IsRecorded(fn, k, insns[k])
    BY <2>1 DEF Reading
  <2>3. QED
    BY <2>2 DEF Recorded, IsRecorded, DecodeLiterals, RegistersIn
<1>2. QED
  BY <1>1, InvHolds, PTL

-----------------------------------------------------------------------------
(* Reading one more instruction. *)
ReadOn(b, r) ==
    IF ~ (r.next <= Len(b.cells) /\ b.cells[r.next] \in OpCells) THEN r
    ELSE LET d == DecodeAt(b, r.next)
         IN  [insns |-> Append(r.insns, InsOf(d)), next |-> d.next]

NoneRead == [insns |-> <<>>, next |-> 1]

(* What has been read is found by reading one after the other. *)
LEMMA ReadIs ==
    ASSUME NEW b, NEW n \in Nat, NEW h,
           h[0] = NoneRead, \A k \in 1..n : h[k] = ReadOn(b, h[k - 1])
    PROVE  ReadUpTo(b, n) = h[n]
<1> DEFINE Step(u, k) == IF k = 0 THEN NoneRead ELSE ReadOn(b, u[k - 1])
           read == CHOOSE u : u = [k \in 0..n |-> Step(u, k)]
<1>1. \E u : u = [k \in 0..n |-> Step(u, k)]
  <2> DEFINE u == [k \in 0..n |-> h[k]]
  <2>1. \A k \in 0..n : u[k] = Step(u, k)
    <3> SUFFICES ASSUME NEW k \in 0..n PROVE h[k] = Step(u, k)
      OBVIOUS
    <3>1. CASE k = 0
      BY <3>1
    <3>2. CASE k # 0
      <4>1. k \in 1..n /\ k - 1 \in 0..n
        BY <3>2
      <4>2. u[k - 1] = h[k - 1]
        BY <4>1
      <4> HIDE DEF u
      <4>3. QED
        BY <3>2, <4>1, <4>2
    <3>3. QED
      BY <3>1, <3>2
  <2>2. u = [k \in 0..n |-> Step(u, k)]
    <3> HIDE DEF Step
    <3>1. u = [k \in 0..n |-> u[k]]
      OBVIOUS
    <3> HIDE DEF u
    <3>2. QED
      BY <2>1, <3>1
  <2> HIDE DEF u
  <2>3. QED
    BY <2>2
<1>2. read = [k \in 0..n |-> Step(read, k)]
  <2> HIDE DEF Step
  <2>1. QED
    BY <1>1
<1>3. ReadUpTo(b, n) = read[n]
  BY DEF ReadUpTo, ReadOn, NoneRead
<1> HIDE DEF read
<1> DEFINE G == { k \in 0..n : read[k] = h[k] }
<1>4. 0 \in G
  BY <1>2
<1>5. ASSUME NEW k \in 1..n, k - 1 \in G PROVE k \in G
  <2>1. k \in 0..n /\ k # 0
    OBVIOUS
  <2>2. read[k] = ReadOn(b, read[k - 1])
    BY <1>2, <2>1
  <2>3. QED
    BY <1>5, <2>1, <2>2
<1>6. n \in G
  <2> HIDE DEF G
  <2>1. \A k \in 0..n : k \in G
    BY <1>4, <1>5, UpTo
  <2>2. QED
    BY <2>1
<1>7. QED
  BY <1>3, <1>6

(* The instructions of a code that stands in b are the ones read from it.  *)
LEMMA CodeRead ==
    ASSUME NEW b, NEW code, Standing(b, code), NEW read, read \in Seq(Ins),
           Len(read) = Len(code), Begin(b.enc, code, 0) = 1,
           \A k \in 1..Len(code) :
              read[k] = InsOf(DecodeAt(b, Begin(b.enc, code, k - 1)))
    PROVE  ReadUpTo(b, Len(code)) = [insns |-> read, next |-> Begin(b.enc, code, Len(code))]
<1> DEFINE n == Len(code)
           B(k) == Begin(b.enc, code, k)
           T == Ins
           upTo(k) == [j \in 1..k |-> read[j]]
           h == [k \in 0..n |-> [insns |-> upTo(k), next |-> B(k)]]
<1>1. \A k \in 1..n : /\ B(k - 1) <= Len(b.cells) /\ b.cells[B(k - 1)] \in OpCells
                      /\ DecodeAt(b, B(k - 1)).next = B(k)
  BY Zenon DEF Standing
<1>2. read \in Seq(T) /\ Len(read) = n
  OBVIOUS
<1> HIDE DEF T, B
<1>3. n \in Nat /\ \A j \in 1..n : read[j] \in T
  BY <1>2
<1> HIDE DEF n
<1>4. ASSUME NEW k \in 1..n PROVE upTo(k) = Append(upTo(k - 1), read[k])
  <2>1. k \in Nat /\ k - 1 \in Nat /\ k - 1 + 1 = k /\ \A j \in 1..(k - 1) : j \in 1..n
    BY <1>3
  <2>2. upTo(k - 1) \in Seq(T) /\ Len(upTo(k - 1)) = k - 1 /\ read[k] \in T
    BY <1>3, <2>1
  <2> DEFINE s == upTo(k - 1)
             t == Append(s, read[k])
  <2>3. \A j \in 1..(k - 1) : s[j] = read[j]
    OBVIOUS
  <2> HIDE DEF s
  <2>4. t \in Seq(T) /\ Len(t) = k /\ (\A j \in 1..(k - 1) : t[j] = s[j]) /\ t[k] = read[k]
    BY <2>1, <2>2, AppendProperties DEF s
  <2> HIDE DEF t
  <2>5. \A j \in 1..k : t[j] = read[j]
    <3> TAKE j \in 1..k
    <3>1. CASE j = k
      BY <2>4, <3>1
    <3>2. CASE j # k
      BY <2>1, <2>3, <2>4, <3>2
    <3>3. QED
      BY <3>1, <3>2
  <2>6. t = [j \in 1..k |-> t[j]]
    BY <2>4
  <2>7. QED
    BY <2>5, <2>6 DEF t, s
<1> HIDE DEF upTo
<1>5. h[0] = NoneRead
  <2>1. upTo(0) = <<>> /\ B(0) = 1 /\ 0 \in 0..n
    BY <1>3 DEF upTo, B
  <2>2. QED
    BY <2>1 DEF NoneRead
<1>6. ASSUME NEW k \in 1..n PROVE h[k] = ReadOn(b, h[k - 1])
  <2>1. k \in 0..n /\ k - 1 \in 0..n
    BY <1>3
  <2> DEFINE d == DecodeAt(b, B(k - 1))
             r == h[k - 1]
  <2>2. r.insns = upTo(k - 1) /\ r.next = B(k - 1)
    BY <2>1
  <2>3. h[k] = [insns |-> upTo(k), next |-> B(k)]
    BY <2>1
  <2>4. InsOf(d) = read[k] /\ d.next = B(k)
    <3>1. InsOf(d) = read[k]
      BY DEF n, B
    <3>2. QED
      BY <1>1, <3>1
  <2> HIDE DEF h
  <2>5. ReadOn(b, r) = [insns |-> Append(upTo(k - 1), InsOf(d)), next |-> d.next]
    BY <1>1, <2>2, Zenon DEF ReadOn
  <2>6. QED
    BY <1>4, <2>3, <2>4, <2>5
<1>7. ReadUpTo(b, n) = h[n]
  <2> HIDE DEF h
  <2>1. QED
    BY <1>3, <1>5, <1>6, ReadIs
<1>8. h[n] = [insns |-> upTo(n), next |-> B(n)]
  BY <1>3
<1>9. upTo(n) = read
  BY <1>2, <1>3 DEF upTo
<1>10. QED
  BY <1>7, <1>8, <1>9 DEF n, B

-----------------------------------------------------------------------------
(* What is joined of parts of the same length is of the same length. *)
LEMMA JoinedWidth ==
    ASSUME NEW S, NEW parts \in Seq(Seq(S)), NEW others \in Seq(Seq(S)), NEW n \in Nat,
           n = Len(parts), n = Len(others), \A k \in 1..n : Len(parts[k]) = Len(others[k])
    PROVE  \A k \in 0..n : Len(Joined(parts, k)) = Len(Joined(others, k))
<1> DEFINE P(k) == Joined(parts, k)
           O(k) == Joined(others, k)
           G == { k \in 0..n : Len(P(k)) = Len(O(k)) }
           T == Seq(S)
<1>1. /\ P(0) = <<>> /\ O(0) = <<>>
      /\ \A k \in 1..n : P(k) = P(k - 1) \o parts[k] /\ O(k) = O(k - 1) \o others[k]
      /\ \A k \in 0..n : P(k) \in Seq(S) /\ O(k) \in Seq(S)
  <2>1. JoinedIsThat(S, parts) /\ JoinedIsThat(S, others)
    BY JoinedUnfolds
  <2>2. QED
    BY <2>1, Zenon DEF JoinedIsThat
<1>2. \A k \in 1..n : parts[k] \in Seq(S) /\ others[k] \in Seq(S)
  <2>1. parts \in Seq(T) /\ others \in Seq(T)
    OBVIOUS
  <2> HIDE DEF T
  <2>2. \A k \in 1..n : parts[k] \in T /\ others[k] \in T
    BY <2>1, ElementOfSeq, Zenon
  <2>3. QED
    BY <2>2 DEF T
<1> HIDE DEF P, O
<1>3. 0 \in G
  BY <1>1
<1>4. ASSUME NEW k \in 1..n, k - 1 \in G PROVE k \in G
  <2>1. k \in 0..n /\ k - 1 \in 0..n
    OBVIOUS
  <2>2. P(k) = P(k - 1) \o parts[k] /\ O(k) = O(k - 1) \o others[k]
    BY <1>1
  <2>3. /\ P(k - 1) \in Seq(S) /\ O(k - 1) \in Seq(S)
        /\ parts[k] \in Seq(S) /\ others[k] \in Seq(S)
    BY <1>1, <1>2, <2>1
  <2>4. /\ Len(P(k)) = Len(P(k - 1)) + Len(parts[k])
        /\ Len(O(k)) = Len(O(k - 1)) + Len(others[k])
    BY <2>2, <2>3, ConcatProperties
  <2>5. Len(P(k - 1)) = Len(O(k - 1))
    BY <1>4
  <2>6. Len(parts[k]) = Len(others[k])
    OBVIOUS
  <2>7. QED
    BY <2>1, <2>4, <2>5, <2>6
<1>5. \A k \in 0..n : k \in G
  <2> HIDE DEF G
  <2>1. QED
    BY <1>3, <1>4, UpTo
<1>6. QED
  BY <1>5 DEF P, O

(* The length of what is compiled depends on the widths of the literals.   *)
SameWidths(enc, lits, others) ==
    /\ Len(lits) = Len(others)
    /\ \A k \in 1..Len(lits) :
          Len(CompileLiteral(enc, lits[k])) = Len(CompileLiteral(enc, others[k]))

(* Literals of the same widths have codes of the same length, ...          *)
LEMMA CodesWidth ==
    ASSUME NEW enc \in Encodings, NEW lits \in Seq(0..enc.reach),
           NEW others \in Seq(0..enc.reach), SameWidths(enc, lits, others)
    PROVE  /\ Joined(Codes(enc, lits), Len(lits)) \in Seq(Byte)
           /\ Joined(Codes(enc, others), Len(others)) \in Seq(Byte)
           /\ Len(Joined(Codes(enc, lits), Len(lits)))
                 = Len(Joined(Codes(enc, others), Len(others)))
<1> DEFINE n == Len(lits)
           parts == Codes(enc, lits)
           rest == Codes(enc, others)
<1>1. n \in Nat /\ n = Len(others)
  <2> DEFINE R == 0..enc.reach
  <2>1. lits \in Seq(R)
    OBVIOUS
  <2> HIDE DEF R
  <2>2. QED
    BY <2>1, LenProperties DEF SameWidths
<1>2. /\ parts \in Seq(Seq(Byte)) /\ Len(parts) = n
      /\ \A k \in 1..n : parts[k] = CompileLiteral(enc, lits[k])
      /\ rest \in Seq(Seq(Byte)) /\ Len(rest) = n
      /\ \A k \in 1..n : rest[k] = CompileLiteral(enc, others[k])
  BY <1>1, LiteralCodes
<1> HIDE DEF parts, rest, n
<1>3. \A k \in 1..n : Len(parts[k]) = Len(rest[k])
  BY <1>2 DEF SameWidths, n
<1> DEFINE B == Byte
<1>4. parts \in Seq(Seq(B)) /\ rest \in Seq(Seq(B))
  BY <1>2
<1> HIDE DEF B
<1>5. \A k \in 0..n : Len(Joined(parts, k)) = Len(Joined(rest, k))
  BY <1>1, <1>2, <1>3, <1>4, JoinedWidth
<1>6. n \in 0..n
  BY <1>1
<1>7. Joined(parts, n) \in Seq(B) /\ Joined(rest, n) \in Seq(B)
  <2>1. JoinedIsThat(B, parts) /\ JoinedIsThat(B, rest)
    BY <1>4, JoinedUnfolds
  <2>2. QED
    BY <1>2, <1>6, <2>1, Zenon DEF JoinedIsThat
<1>8. QED
  BY <1>1, <1>5, <1>6, <1>7 DEF n, parts, rest, B

(* ... and so have the instructions they are of.                           *)
LEMMA CompiledWidth ==
    ASSUME NEW enc \in Encodings, NEW ins, NEW other,
           IsWritable(ins), LitsReach(enc, ins), LitsReach(enc, other),
           other.op = ins.op, other.arg = ins.arg, SameWidths(enc, ins.lits, other.lits)
    PROVE  Len(Compiled(enc, other)) = Len(Compiled(enc, ins))
<1> DEFINE op == Ops[ins.op]
<1>1. ins.op \in 1..Len(Ops) /\ ins.arg \in Arguments(op)
  BY DEF IsWritable
<1>2. CASE ~ IsPlainlyCompiled(ins)
  <2>1. CASE op.operands = "branch"
    <3>1. op.group # "LINE"
      BY <1>1, <2>1, OpsAssumption
    <3>2. Compiled(enc, ins) = <<- ins.op>> \o CompileBranch(op, ins.arg)
      BY <2>1, <3>1, Zenon DEF Compiled
    <3>3. Compiled(enc, other) = <<- ins.op>> \o CompileBranch(op, ins.arg)
      BY <2>1, <3>1, Zenon DEF Compiled
    <3>4. QED
      BY <3>2, <3>3, Zenon
  <2>2. CASE op.operands # "branch" /\ op.group = "LINE"
    <3>1. Compiled(enc, ins) = <<- ins.op>> \o CompileLine(ins.arg)
      BY <2>2, Zenon DEF Compiled
    <3>2. Compiled(enc, other) = <<- ins.op>> \o CompileLine(ins.arg)
      BY <2>2, Zenon DEF Compiled
    <3>3. QED
      BY <3>1, <3>2, Zenon
  <2>3. QED
    BY <1>2, <2>1, <2>2 DEF IsPlainlyCompiled
<1>3. CASE IsPlainlyCompiled(ins)
  <2> DEFINE opcode == <<- ins.op>>
             body == Joined(Codes(enc, ins.lits), Len(ins.lits))
             rest == Joined(Codes(enc, other.lits), Len(other.lits))
             trail == IF HasByte(op) THEN <<ins.arg>> ELSE <<>>
  <2>1. body \in Seq(Byte) /\ rest \in Seq(Byte) /\ Len(body) = Len(rest)
    <3>1. ins.lits \in Seq(0..enc.reach) /\ other.lits \in Seq(0..enc.reach)
      BY DEF LitsReach
    <3>2. QED
      BY <3>1, CodesWidth
  <2>2. trail \in Seq(Byte)
    <3>1. HasByte(op) => ins.arg \in Byte
      BY <1>1, <1>3 DEF Arguments, IsPlainlyCompiled
    <3>2. QED
      BY <3>1
  <2>3. Compiled(enc, ins) = opcode \o (body \o trail)
    <3>1. Codes(enc, ins.lits) = [k \in 1..Len(ins.lits) |-> CompileLiteral(enc, ins.lits[k])]
          /\ Len(Codes(enc, ins.lits)) = Len(ins.lits)
      <4>1. ins.lits \in Seq(0..enc.reach)
        BY DEF LitsReach
      <4>2. QED
        BY <4>1, LiteralCodes DEF Codes
    <3> HIDE DEF op, trail
    <3>2. Compiled(enc, ins) = opcode \o (Joined(Codes(enc, ins.lits), Len(Codes(enc, ins.lits)))
                                            \o trail)
      BY <1>3, <3>1, Zenon DEF Compiled, IsPlainlyCompiled, op, trail
    <3>3. QED
      BY <3>1, <3>2
  <2>4. Compiled(enc, other) = opcode \o (rest \o trail)
    <3>1. Codes(enc, other.lits) = [k \in 1..Len(other.lits) |-> CompileLiteral(enc, other.lits[k])]
          /\ Len(Codes(enc, other.lits)) = Len(other.lits)
      <4>1. other.lits \in Seq(0..enc.reach)
        BY DEF LitsReach
      <4>2. QED
        BY <4>1, LiteralCodes DEF Codes
    <3> HIDE DEF op, trail
    <3>2. Compiled(enc, other)
             = opcode \o (Joined(Codes(enc, other.lits), Len(Codes(enc, other.lits))) \o trail)
      BY <1>3, <3>1, Zenon DEF Compiled, IsPlainlyCompiled, op, trail
    <3>3. QED
      BY <3>1, <3>2
  <2>5. opcode \in Seq(Cells) /\ Len(opcode) = 1
    <3>1. - ins.op \in Cells
      BY <1>1 DEF Cells, OpCells
    <3> HIDE DEF Cells
    <3>2. QED
      BY <3>1
  <2>6. body \in Seq(Cells) /\ rest \in Seq(Cells) /\ trail \in Seq(Cells)
    BY <2>1, <2>2, BytesAreCells
  <2> HIDE DEF opcode, body, rest, trail, Cells
  <2>7. /\ Len(body \o trail) = Len(body) + Len(trail) /\ body \o trail \in Seq(Cells)
        /\ Len(rest \o trail) = Len(rest) + Len(trail) /\ rest \o trail \in Seq(Cells)
    BY <2>6, ConcatProperties, Zenon
  <2>8. /\ Len(opcode \o (body \o trail)) = Len(opcode) + Len(body \o trail)
        /\ Len(opcode \o (rest \o trail)) = Len(opcode) + Len(rest \o trail)
    BY <2>5, <2>7, ConcatProperties, Zenon
  <2>9. QED
    BY <2>1, <2>3, <2>4, <2>7, <2>8
<1>4. QED
  BY <1>2, <1>3

-----------------------------------------------------------------------------
(* Instructions of a kind that is handled are written as they would be     *)
(* compiled.                                                               *)
LEMMA WrittenAsCompiled ==
    ASSUME fn \in Functions, Writing, AllSimple
    PROVE  \A k \in 1..Len(insns) :
              /\ IsMoved(fn, args, k, insns[k]) /\ KeepsIn(fn.args.registerEnd, fn.code[k])
              /\ IsWritable(insns[k]) /\ LitsReach(fn.enc, insns[k])
              /\ Emitted(fn.enc, insns[k]) = Compiled(fn.enc, insns[k])
<1>1. IsFunction(fn) /\ fn.enc \in Encodings
  BY FnLoaded, HeaderReach
<1>2. Len(insns) = Len(fn.code) /\ \A k \in 1..Len(insns) : IsMoved(fn, args, k, insns[k])
  BY DEF Writing
<1> SUFFICES ASSUME NEW k \in 1..Len(insns)
             PROVE  /\ IsMoved(fn, args, k, insns[k])
                    /\ KeepsIn(fn.args.registerEnd, fn.code[k])
                    /\ IsWritable(insns[k]) /\ LitsReach(fn.enc, insns[k])
                    /\ Emitted(fn.enc, insns[k]) = Compiled(fn.enc, insns[k])
  OBVIOUS
<1>3. IsMoved(fn, args, k, insns[k]) /\ k \in 1..Len(fn.code)
  BY <1>2
<1>4. KeepsLiterals(fn.code[k]) /\ WritesBack(insns[k])
  BY <1>2 DEF AllSimple
<1>5. KeepsIn(fn.args.registerEnd, fn.code[k])
  BY <1>4, KeepsAre
<1>6. IsHandled(fn.enc, insns[k])
  BY <1>4, Zenon DEF WritesBack, IsHandled
<1>7. IsWritable(insns[k])
  BY <1>1, <1>3, MovedWritable
<1>8. LitsReach(fn.enc, insns[k])
  BY <1>3, <1>5 DEF IsMoved, LitsReach
<1>9. Emitted(fn.enc, insns[k]) = Compiled(fn.enc, insns[k])
  BY <1>1, <1>6, <1>7, <1>8, EmittedIsCompiled
<1>10. QED
  BY <1>3, <1>5, <1>7, <1>8, <1>9

(* Then what is written is the stream of a code.                           *)
LEMMA WritingsAreParts ==
    ASSUME fn \in Functions, Writing, AllSimple
    PROVE  Writings(fn.enc, insns) = Parts(fn.enc, insns)
<1>1. \A k \in 1..Len(insns) : Emitted(fn.enc, insns[k]) = Compiled(fn.enc, insns[k])
  BY WrittenAsCompiled, Zenon
<1>2. QED
  BY <1>1 DEF Writings, Parts

(* What is decoded from where an instruction was written is that one.      *)
LEMMA SameDecoded ==
    ASSUME NEW b, NEW i \in Nat \ {0}, NEW ins \in Ins, NEW d, IsDecoded(b, i, ins, d),
           KeepsIn(b.registerEnd, ins), ins.reads = RegistersIn(b.registerEnd, ins.lits),
           ins.write = WriteOf(b.registerEnd, ins), NEW offset, offset = i - 1
    PROVE  InsOf(d) = [ins EXCEPT !.offset = offset]
<1>1. /\ Sound(b, d) /\ d.op = ins.op /\ d.offset = i - 1 /\ d.arg = ins.arg
      /\ d.lits = ins.lits /\ d.write = WriteOf(b.registerEnd, ins)
  BY Zenon DEF IsDecoded
<1>2. d.reads = RegistersIn(b.registerEnd, d.lits)
  BY <1>1 DEF Sound
<1>3. /\ d.op = ins.op /\ d.lits = ins.lits /\ d.reads = ins.reads /\ d.write = ins.write
      /\ d.arg = ins.arg /\ d.offset = offset
  BY <1>1, <1>2
<1>4. QED
  BY <1>3 DEF InsOf, Ins

(* What was written stands in the new block and is read from it.           *)
LEMMA InvReads == Inv => ReadsBack
<1> DEFINE info == EndInfoOf(fn, CompiledBlock(fn))
           pool == PoolSize(fn.args)
           b == DecodeHeader(fn, compiledCode)
           n == Len(insns)
           expected == [i \in 1..n |-> [insns[i] EXCEPT !.offset = starts[i]]]
<1> SUFFICES ASSUME Inv, pc = "done", AllSimple, SizeFits(fn, compiledCode),
                    \A i \in 1..n : \A r \in insns[i].reads : r < b.registerEnd
             PROVE  /\ AtEnd(b, ReadUpTo(b, n).next)
                    /\ ReadUpTo(b, n).insns = expected
                    /\ EndInfoOf(fn, compiledCode) = info
  BY Zenon DEF ReadsBack
<1>1. fn \in Functions /\ Writing
  BY DEF Inv
<1>2. IsFunction(fn) /\ IsLoaded(fn) /\ fn.enc \in Encodings
  BY <1>1, FnLoaded, HeaderReach
<1>3. /\ insns \in Seq(Ins) /\ n = Len(fn.code) /\ at = n + 1
      /\ buffer = Joined(Writings(fn.enc, insns), at - 1)
      /\ \A k \in 1..(at - 1) : starts[k] = Len(Joined(Writings(fn.enc, insns), k - 1))
      /\ compiledCode = Block(fn, args, pool, buffer, info)
  BY <1>1 DEF Writing
<1>4. n \in Nat /\ at - 1 = n
  BY <1>3, LenProperties
<1>5. Writings(fn.enc, insns) = Parts(fn.enc, insns)
  BY <1>1, WritingsAreParts
<1>6. /\ buffer = Joined(Parts(fn.enc, insns), n)
      /\ \A k \in 1..n : starts[k] = Len(Joined(Parts(fn.enc, insns), k - 1))
  BY <1>3, <1>4, <1>5
<1>7. PICK m \in 0..fn.args.registerEnd : args = MoveRegIndex(fn.args, - m)
  BY <1>1 DEF Writing
<1>8. args \in Args /\ Fitting(fn, args) /\ PoolSize(args) = pool
      /\ EndInfo(fn, args) = EndInfo(fn, fn.args)
  BY <1>2, <1>7, HeaderSaved DEF IsSaved
<1>9. info \in Seq(Cells) /\ Len(info) = EndInfo(fn, args)
  BY <1>2, <1>8, Zenon DEF IsLoaded
<1>10. buffer \in Seq(Cells)
  <2>1. IsWritten(fn.enc, insns) /\ n \in 0..n
    BY <1>1, <1>4, WritingWritten
  <2>2. QED
    BY <1>3, <1>4, <2>1 DEF IsWritten
<1> HIDE DEF info, pool, b, n, expected
<1>11. IsLaidOut(fn, args, buffer, info, compiledCode)
  <2>1. pool = PoolSize(args) /\ SizeFits(fn, Block(fn, args, pool, buffer, info))
    BY <1>3, <1>8
  <2>2. IsLaidOut(fn, args, buffer, info, Block(fn, args, pool, buffer, info))
    BY <1>8, <1>9, <1>10, <2>1, Layout, Zenon
  <2>3. QED
    BY <1>3, <2>2
<1>12. /\ HoldsCode(b.cells, buffer) /\ b.enc = fn.enc /\ b.registerEnd = args.registerEnd
       /\ EndInfoOf(fn, compiledCode) = info
  BY <1>11, Zenon DEF IsLaidOut, b
<1>13. \A k \in 1..n : /\ IsCompiled(b.enc, b.registerEnd, insns[k])
                       /\ KeepsIn(b.registerEnd, insns[k])
                       /\ insns[k].reads = RegistersIn(b.registerEnd, insns[k].lits)
                       /\ insns[k].write = WriteOf(b.registerEnd, insns[k])
  <2> TAKE k \in 1..n
  <2>1. IsMoved(fn, args, k, insns[k]) /\ KeepsIn(fn.args.registerEnd, fn.code[k])
    BY <1>1, WrittenAsCompiled, Zenon DEF n
  <2>2. InFrame(args, insns[k])
    BY <1>12 DEF InFrame
  <2>3. QED
    BY <1>12, <2>1, <2>2 DEF IsMoved
<1>14. AllCompiled(b.enc, b.registerEnd, insns)
  BY <1>4, <1>13 DEF AllCompiled, n
<1>15. IsCode(b)
  <2>1. args.registerEnd \in Nat
    BY <1>8 DEF Args
  <2>2. QED
    BY <1>2, <1>12, <2>1, Zenon DEF IsCode
<1>16. Standing(b, insns)
  <2>1. HoldsCode(b.cells, Joined(Parts(b.enc, insns), Len(insns)))
    BY <1>6, <1>12 DEF n
  <2>2. QED
    BY <1>14, <1>15, <2>1, CodeStands
<1> DEFINE B(k) == Begin(b.enc, insns, k)
<1>17. /\ B(0) = 1 /\ \A k \in 0..n : B(k) \in Nat \ {0}
       /\ \A k \in 1..n : starts[k] = B(k - 1) - 1
  <2>1. B(0) = 1 /\ \A k \in 0..n : B(k) \in Nat \ {0}
    BY <1>2, <1>12, <1>14, Begins DEF n
  <2>2. ASSUME NEW k \in 1..n PROVE starts[k] = B(k - 1) - 1
    <3>1. k - 1 \in 0..n
      BY <1>4
    <3>2. Joined(Parts(b.enc, insns), k - 1) \in Seq(Cells)
      BY <1>2, <1>12, <1>14, <3>1, Begins DEF n
    <3>3. Len(Joined(Parts(b.enc, insns), k - 1)) \in Nat
      BY <3>2, LenProperties
    <3>4. QED
      BY <1>6, <1>12, <3>3 DEF Begin
  <2>3. QED
    BY <2>1, <2>2
<1>18. ASSUME NEW k \in 1..n
       PROVE  InsOf(DecodeAt(b, B(k - 1))) = [insns[k] EXCEPT !.offset = starts[k]]
  <2>1. IsDecoded(b, B(k - 1), insns[k], DecodeAt(b, B(k - 1)))
    BY <1>16, Zenon DEF Standing, n
  <2>2. B(k - 1) \in Nat \ {0}
    <3>1. k - 1 \in 0..n
      BY <1>4
    <3>2. QED
      BY <1>17, <3>1
  <2>3. insns[k] \in Ins
    <3> DEFINE T == Ins
    <3>1. insns \in Seq(T)
      BY <1>3
    <3> HIDE DEF T
    <3>2. insns[k] \in T
      BY <3>1, ElementOfSeq, Zenon DEF n
    <3>3. QED
      BY <3>2 DEF T
  <2>4. starts[k] = B(k - 1) - 1
    BY <1>17
  <2> DEFINE i == B(k - 1)
             d == DecodeAt(b, i)
             offset == starts[k]
             ins == insns[k]
  <2>5. /\ i \in Nat \ {0} /\ ins \in Ins /\ IsDecoded(b, i, ins, d) /\ offset = i - 1
        /\ KeepsIn(b.registerEnd, ins) /\ ins.reads = RegistersIn(b.registerEnd, ins.lits)
        /\ ins.write = WriteOf(b.registerEnd, ins)
    BY <1>13, <2>1, <2>2, <2>3, <2>4
  <2> HIDE DEF i, d, offset, ins
  <2>6. InsOf(d) = [ins EXCEPT !.offset = offset]
    BY <2>5, SameDecoded
  <2>7. QED
    BY <2>6 DEF i, d, offset, ins
<1>19. expected \in Seq(Ins) /\ Len(expected) = n
       /\ \A k \in 1..n : expected[k] = InsOf(DecodeAt(b, B(k - 1)))
  <2> DEFINE T == Ins
             I(k) == InsOf(DecodeAt(b, B(k - 1)))
             X(k) == [insns[k] EXCEPT !.offset = starts[k]]
  <2>1. \A k \in 1..n : I(k) = X(k)
    BY <1>18
  <2>2. expected = [k \in 1..n |-> X(k)]
    BY DEF expected
  <2>3. \A k \in 1..n : I(k) \in T
    <3> TAKE k \in 1..n
    <3>1. IsDecoded(b, B(k - 1), insns[k], DecodeAt(b, B(k - 1)))
      BY <1>16, Zenon DEF Standing, n
    <3>2. DecodeAt(b, B(k - 1)) \in Decoding
      BY <3>1, Zenon DEF IsDecoded, Sound
    <3>3. QED
      BY <3>2 DEF InsOf, Decoding, Ins
  <2> HIDE DEF T, I, X
  <2>4. expected \in Seq(T) /\ Len(expected) = n /\ \A k \in 1..n : expected[k] = I(k)
    BY <1>4, <2>1, <2>2, <2>3
  <2>5. QED
    BY <2>4 DEF T, I
<1>20. ReadUpTo(b, n) = [insns |-> expected, next |-> B(n)]
  <2>1. /\ Len(expected) = Len(insns) /\ Begin(b.enc, insns, 0) = 1
        /\ \A k \in 1..Len(insns) :
              expected[k] = InsOf(DecodeAt(b, Begin(b.enc, insns, k - 1)))
    BY <1>17, <1>19 DEF n
  <2>2. ReadUpTo(b, Len(insns)) = [insns |-> expected, next |-> Begin(b.enc, insns, Len(insns))]
    BY <1>16, <1>19, <2>1, CodeRead
  <2>3. QED
    BY <2>2 DEF n
<1>21. AtEnd(b, B(n))
  BY <1>16, Zenon DEF Standing, n
<1>22. QED
  BY <1>12, <1>20, <1>21

(* The block that Bytecode::emit makes is read back as the instructions it *)
(* was made of, at the places they were written to, with the values behind *)
(* the code unchanged; of any number of instructions, and however many     *)
(* registers were saved.                                                   *)
THEOREM ReadsBackAlways == Spec => []ReadsBack
BY InvHolds, InvReads, PTL

-----------------------------------------------------------------------------
(* If every literal is as wide as it was, every instruction is where it    *)
(* was.                                                                    *)
LEMMA StartsKept ==
    ASSUME Inv, pc = "done", AllSimple,
           \A i \in 1..Len(insns) : \A k \in 1..Len(insns[i].lits) :
               Len(CompileLiteral(fn.enc, insns[i].lits[k]))
                   = Len(CompileLiteral(fn.enc, fn.code[i].lits[k]))
    PROVE  \A i \in 1..Len(insns) : starts[i] = insns[i].offset
<1> DEFINE n == Len(insns)
           parts == Writings(fn.enc, insns)
           others == Parts(fn.enc, fn.code)
           T == Seq(Cells)
<1>1. fn \in Functions /\ Writing
  BY DEF Inv
<1>2. /\ IsFunction(fn) /\ fn.enc \in Encodings
      /\ AllCompiled(fn.enc, fn.args.registerEnd, fn.code)
  BY <1>1, FnLoaded, FunctionCompiled, Zenon
<1>3. /\ insns \in Seq(Ins) /\ n = Len(fn.code) /\ at = n + 1
      /\ \A k \in 1..(at - 1) : starts[k] = Len(Joined(parts, k - 1))
  BY <1>1 DEF Writing
<1>4. n \in Nat /\ at - 1 = n
  BY <1>3, LenProperties
<1>5. \A k \in 1..n : /\ IsMoved(fn, args, k, insns[k]) /\ KeepsIn(fn.args.registerEnd, fn.code[k])
                      /\ IsWritable(insns[k]) /\ LitsReach(fn.enc, insns[k])
                      /\ Emitted(fn.enc, insns[k]) = Compiled(fn.enc, insns[k])
  BY <1>1, WrittenAsCompiled, Zenon
<1>6. ASSUME NEW k \in 1..n
      PROVE  Len(Emitted(fn.enc, insns[k])) = Len(Compiled(fn.enc, fn.code[k]))
  <2> DEFINE ins == insns[k]
             was == fn.code[k]
             enc == fn.enc
  <2>1. /\ ins.op = was.op /\ ins.arg = was.arg /\ Len(ins.lits) = Len(was.lits)
        /\ IsWritable(ins) /\ LitsReach(enc, ins) /\ Emitted(enc, ins) = Compiled(enc, ins)
    BY <1>5 DEF IsMoved
  <2>2. LitsReach(enc, was)
    <3>1. IsCompiled(enc, fn.args.registerEnd, was)
      BY <1>2, <1>3 DEF AllCompiled
    <3>2. QED
      BY <3>1 DEF IsCompiled, LitsReach
  <2>3. SameWidths(enc, ins.lits, was.lits)
    BY <2>1 DEF SameWidths
  <2>4. enc \in Encodings
    BY <1>2
  <2> HIDE DEF ins, was, enc
  <2>5. Len(Compiled(enc, was)) = Len(Compiled(enc, ins))
    BY <2>1, <2>2, <2>3, <2>4, CompiledWidth
  <2>6. QED
    BY <2>1, <2>5 DEF ins, was, enc
<1>7. parts \in Seq(T) /\ Len(parts) = n
      /\ \A k \in 1..n : parts[k] = Emitted(fn.enc, insns[k])
  <2>1. \A k \in 1..n : Emitted(fn.enc, insns[k]) \in T
    BY <1>2, <1>5, EmittedCells
  <2> HIDE DEF T, n
  <2>2. parts = [k \in 1..n |-> Emitted(fn.enc, insns[k])]
    BY DEF Writings, n
  <2> HIDE DEF parts
  <2>3. QED
    BY <1>4, <2>1, <2>2
<1>8. others \in Seq(T) /\ Len(others) = n
      /\ \A k \in 1..n : others[k] = Compiled(fn.enc, fn.code[k])
  BY <1>2, <1>3, PartsAre
<1> HIDE DEF T, parts, others, n
<1>9. \A k \in 1..n : Len(parts[k]) = Len(others[k])
  BY <1>6, <1>7, <1>8
<1>10. \A k \in 0..n : Len(Joined(parts, k)) = Len(Joined(others, k))
  <2> DEFINE S == Cells
  <2>1. parts \in Seq(Seq(S)) /\ others \in Seq(Seq(S))
    BY <1>7, <1>8 DEF T
  <2> HIDE DEF S
  <2>2. QED
    BY <1>4, <1>7, <1>8, <1>9, <2>1, JoinedWidth
<1>11. ASSUME NEW k \in 1..n PROVE starts[k] = insns[k].offset
  <2>1. k - 1 \in 0..n /\ k \in 1..(at - 1)
    BY <1>4
  <2>2. insns[k].offset = Begin(fn.enc, fn.code, k - 1) - 1
    BY <1>5 DEF IsMoved
  <2>3. Begin(fn.enc, fn.code, k - 1) = Len(Joined(others, k - 1)) + 1
    BY DEF Begin, others
  <2>4. Joined(others, k - 1) \in Seq(Cells)
    BY <1>2, <1>3, <2>1, Begins DEF others
  <2>5. Len(Joined(others, k - 1)) \in Nat
    BY <2>4, LenProperties
  <2>6. starts[k] = Len(Joined(others, k - 1))
    BY <1>3, <1>10, <2>1
  <2>7. QED
    BY <2>2, <2>3, <2>5, <2>6
<1>12. QED
  BY <1>11 DEF n

(* So every branch leads to where it led.                                  *)
LEMMA InvJumps == Inv => JumpsLandAtWidth
<1> SUFFICES ASSUME Inv, pc = "done", AllSimple,
                    \A i \in 1..Len(insns) : \A k \in 1..Len(insns[i].lits) :
                        Len(CompileLiteral(fn.enc, insns[i].lits[k]))
                            = Len(CompileLiteral(fn.enc, fn.code[i].lits[k]))
             PROVE  JumpsLand
  BY Zenon DEF JumpsLandAtWidth
<1>1. \A i \in 1..Len(insns) : starts[i] = insns[i].offset
  BY StartsKept
<1>2. QED
  BY <1>1 DEF JumpsLand

(* Branches lead to the instructions they led to, although none is         *)
(* retargeted, if no literal changes its width by being moved.             *)
THEOREM JumpsLandAlways == Spec => []JumpsLandAtWidth
BY InvHolds, InvJumps, PTL

-----------------------------------------------------------------------------
(* A compiled function is written as it was if none of its registers is    *)
(* saved.                                                                  *)
LEMMA InvReconstructs == Inv /\ AllSimple => Reconstructed
<1> SUFFICES ASSUME Inv, AllSimple, pc = "done", args = fn.args
             PROVE  compiledCode = CompiledBlock(fn)
  BY DEF Reconstructed
<1> DEFINE n == Len(insns)
           pool == PoolSize(fn.args)
           info == EndInfoOf(fn, CompiledBlock(fn))
           stream == StreamUpTo(fn, Len(fn.code))
<1>1. fn \in Functions /\ Writing
  BY DEF Inv
<1>2. IsFunction(fn) /\ IsLoaded(fn)
  BY <1>1, FnLoaded
<1>3. /\ n = Len(fn.code) /\ at = n + 1 /\ insns \in Seq(Ins)
      /\ buffer = Joined(Writings(fn.enc, insns), at - 1)
      /\ compiledCode = Block(fn, args, pool, buffer, info)
      /\ \A k \in 1..n : KeepsIn(fn.args.registerEnd, fn.code[k]) => insns[k].lits = fn.code[k].lits
  BY <1>1 DEF Writing
<1>4. n \in Nat /\ at - 1 = n
  BY <1>3, LenProperties
<1>5. \A k \in 1..n : Compiled(fn.enc, insns[k]) = Compiled(fn.enc, fn.code[k])
  <2> TAKE k \in 1..n
  <2>1. IsMoved(fn, args, k, insns[k]) /\ KeepsIn(fn.args.registerEnd, fn.code[k])
    BY <1>1, WrittenAsCompiled, Zenon
  <2>2. /\ insns[k].op = fn.code[k].op /\ insns[k].arg = fn.code[k].arg
        /\ insns[k].lits = fn.code[k].lits
    BY <1>3, <2>1 DEF IsMoved
  <2>3. QED
    BY <2>2, Zenon DEF Compiled
<1>6. Writings(fn.enc, insns) = Parts(fn.enc, fn.code)
  <2>1. Writings(fn.enc, insns) = Parts(fn.enc, insns)
    BY <1>1, WritingsAreParts
  <2>2. Parts(fn.enc, insns) = Parts(fn.enc, fn.code)
    BY <1>3, <1>5 DEF Parts
  <2>3. QED
    BY <2>1, <2>2
<1>7. buffer = stream
  <2>1. \A k : StreamUpTo(fn, k) = Joined(Parts(fn.enc, fn.code), k)
    BY <1>2, FunctionCompiled, Zenon
  <2>2. QED
    BY <1>3, <1>4, <1>6, <2>1
<1>8. info = Values(fn)
  BY <1>2, Zenon DEF IsLoaded
<1>9. CompiledBlock(fn) = Block(fn, fn.args, pool, stream, Values(fn))
  BY Zenon DEF CompiledBlock, Values
<1>10. QED
  BY <1>3, <1>7, <1>8, <1>9

(* "Reconstruct the bytecode from the IR": a function of handled           *)
(* instructions comes out as it went in if no register is saved.           *)
THEOREM ReconstructsHandled == Spec => [](AllSimple => Reconstructed)
<1>1. Inv => (AllSimple => Reconstructed)
  BY InvReconstructs
<1>2. QED
  BY <1>1, InvHolds, PTL

=============================================================================
