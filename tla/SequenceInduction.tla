------------------------- MODULE SequenceInduction -------------------------
(***************************************************************************)
(* Induction over numbers and sequences, and recursion along a sequence,   *)
(* for the proofs about the loops of the code.  A property is given as the *)
(* set of what has it, a step as a function, so that every statement here  *)
(* can be cited by a first-order prover; all rest on the natural numbers   *)
(* being well-founded.                                                     *)
(***************************************************************************)
EXTENDS WellFoundedInduction, SequenceTheorems, TLAPS

(* A set that has 0 and with every number its successor has them all.      *)
LEMMA NatSetInduction ==
  ASSUME NEW P, 0 \in P, \A n \in Nat : n \in P => n + 1 \in P
  PROVE  Nat \subseteq P
<1> DEFINE Less == OpToRel(<, Nat)
           T == {n \in Nat : n \notin P}
<1>1. \A m, n \in Nat : <<m, n>> \in Less <=> m < n
  BY DEF OpToRel
<1>2. IsWellFoundedOn(Less, Nat)
  BY NatLessThanWellFounded
<1> HIDE DEF Less
<1>3. SUFFICES ASSUME T # {} PROVE FALSE
  OBVIOUS
<1>4. PICK n \in T : \A m \in T : ~(<<m, n>> \in Less)
  <2>1. T \subseteq Nat
    OBVIOUS
  <2> HIDE DEF T
  <2> QED
    BY <1>2, <1>3, <2>1, WFMin
<1>5. n \in Nat \ {0} /\ n - 1 \in Nat /\ n - 1 < n
  BY <1>4
<1>6. n - 1 \in P
  BY <1>1, <1>4, <1>5
<1> QED
  BY <1>4, <1>5, <1>6

(* The same up to a bound.                                                 *)
LEMMA IntervalInduction ==
  ASSUME NEW N \in Nat, NEW P, 0 \in P, \A n \in 0 .. N - 1 : n \in P => n + 1 \in P
  PROVE  0 .. N \subseteq P
<1> DEFINE Q == {n \in Nat : n <= N => n \in P}
<1>1. 0 \in Q
  OBVIOUS
<1>2. \A n \in Nat : n \in Q => n + 1 \in Q
  OBVIOUS
<1>3. Nat \subseteq Q
  <2> HIDE DEF Q
  <2> QED
    BY <1>1, <1>2, NatSetInduction
<1> QED
  BY <1>3

(* Numbers up to a bound have a greatest.                                  *)
LEMMA GreatestExists ==
  ASSUME NEW N \in Nat, NEW T, T \subseteq 0 .. N, T # {}
  PROVE  \E x \in T : \A y \in T : x >= y
<1> DEFINE P == {n \in 0 .. N : \A U \in SUBSET (0 .. n) :
                               U # {} => \E x \in U : \A y \in U : x >= y}
<1>1. 0 \in P
  <2>1. ASSUME NEW U \in SUBSET (0 .. 0), U # {} PROVE \E x \in U : \A y \in U : x >= y
    <3>1. \A x, y \in U : x >= y
      OBVIOUS
    <3> QED
      BY <2>1, <3>1
  <2> QED
    BY <2>1
<1>2. ASSUME NEW n \in 0 .. N - 1, n \in P PROVE n + 1 \in P
  <2> SUFFICES ASSUME NEW U \in SUBSET (0 .. n + 1), U # {}
               PROVE  \E x \in U : \A y \in U : x >= y
    OBVIOUS
  <2>1. CASE n + 1 \in U
    BY <2>1
  <2>2. CASE n + 1 \notin U
    <3>1. U \in SUBSET (0 .. n)
      BY <2>2
    <3> QED
      BY <1>2, <3>1
  <2> QED
    BY <2>1, <2>2
<1>3. 0 .. N \subseteq P
  <2> HIDE DEF P
  <2> QED
    BY <1>1, <1>2, IntervalInduction
<1>4. N \in P
  BY <1>3
<1> QED
  BY <1>4

(* A set that has the empty sequence, and with a sequence every one that   *)
(* is longer by an element, has every sequence.                            *)
LEMMA SeqSetInduction ==
  ASSUME NEW E, NEW P, <<>> \in P,
         \A s \in Seq(E), e \in E : s \in P => Append(s, e) \in P
  PROVE  Seq(E) \subseteq P
<1> DEFINE Q == {n \in Nat : \A s \in Seq(E) : Len(s) = n => s \in P}
<1>1. 0 \in Q
  BY EmptySeq
<1>2. ASSUME NEW n \in Nat, n \in Q PROVE n + 1 \in Q
  <2> SUFFICES ASSUME NEW s \in Seq(E), Len(s) = n + 1 PROVE s \in P
    OBVIOUS
  <2>1. s # <<>>
    BY EmptySeq
  <2>2. PICK t \in Seq(E), e \in E : s = Append(t, e)
    BY <2>1, SequenceEmptyOrAppend
  <2>3. Len(t) = n
    BY <2>2, AppendProperties, LenProperties
  <2> QED
    BY <1>2, <2>2, <2>3
<1>3. Nat \subseteq Q
  <2> HIDE DEF Q
  <2> QED
    BY <1>1, <1>2, NatSetInduction
<1> QED
  BY <1>3, LenProperties

(* Appending to the second part of a concatenation appends to the whole.   *)
LEMMA ConcatAppend ==
  ASSUME NEW E, NEW s \in Seq(E), NEW t \in Seq(E), NEW e \in E
  PROVE  /\ s \o t \in Seq(E) /\ Append(t, e) \in Seq(E)
         /\ s \o Append(t, e) = Append(s \o t, e)
<1>1. s \o t \in Seq(E) /\ Append(t, e) \in Seq(E) /\ Append(s \o t, e) \in Seq(E)
  OBVIOUS
<1>2. <<e>> \in Seq(E) /\ Append(t, e) = t \o <<e>> /\ Append(s \o t, e) = (s \o t) \o <<e>>
  BY <1>1, AppendIsConcat
<1> QED
  BY <1>1, <1>2, ConcatAssociative

-----------------------------------------------------------------------------
(***************************************************************************)
(* The states of a loop over a sequence: it begins with b, and an element  *)
(* e takes it from s to op[<<s, e>>].  IsLoop says that its states are in  *)
(* St if the elements are in E.                                            *)
(***************************************************************************)
IsLoop(op, b, St, E) == b \in St /\ op \in [St \X E -> St]

RunsTo(f, op, b, seq, N) ==
  f[0] = b /\ \A n \in 1 .. N : f[n] = op[<<f[n - 1], seq[n]>>]

IsRun(f, op, b, seq) == RunsTo(f, op, b, seq, Len(seq))

(* The state the loop ends with.                                           *)
RunOf(op, b, seq) == (CHOOSE f : IsRun(f, op, b, seq))[Len(seq)]

(* The loop has a run, whose states are of the type that op keeps.         *)
LEMMA RunExists ==
  ASSUME NEW St, NEW E, NEW b, NEW op, IsLoop(op, b, St, E), NEW seq \in Seq(E)
  PROVE  \E f \in [0 .. Len(seq) -> St] : IsRun(f, op, b, seq)
<1> USE DEF IsLoop
<1> DEFINE P == {s \in Seq(E) : \E f \in [0 .. Len(s) -> St] : IsRun(f, op, b, s)}
<1>1. <<>> \in P
  <2> DEFINE f == [n \in 0 .. Len(<<>>) |-> b]
  <2>1. f \in [0 .. Len(<<>>) -> St] /\ IsRun(f, op, b, <<>>)
    BY EmptySeq DEF IsRun, RunsTo
  <2> QED
    BY <2>1, EmptySeq
<1>2. ASSUME NEW s \in Seq(E), NEW e \in E, s \in P PROVE Append(s, e) \in P
  <2> DEFINE t == Append(s, e)
             N == Len(s)
  <2>1. PICK f \in [0 .. N -> St] : IsRun(f, op, b, s)
    BY <1>2
  <2>2. /\ t \in Seq(E) /\ Len(t) = N + 1 /\ N \in Nat /\ t[N + 1] = e
        /\ \A n \in 1 .. N : t[n] = s[n] /\ s[n] \in E
    BY AppendProperties, LenProperties, ElementOfSeq
  <2> DEFINE g == [n \in 0 .. N + 1 |-> IF n = N + 1 THEN op[<<f[N], e>>] ELSE f[n]]
  <2> HIDE DEF t, N
  <2>3. f[N] \in St /\ op[<<f[N], e>>] \in St
    BY <2>1, <2>2
  <2>4. g \in [0 .. N + 1 -> St]
    BY <2>1, <2>2, <2>3
  <2>5. g[0] = b
    BY <2>1, <2>2 DEF IsRun, RunsTo
  <2>6. ASSUME NEW n \in 1 .. N + 1 PROVE g[n] = op[<<g[n - 1], t[n]>>]
    <3>1. CASE n = N + 1
      <4>1. g[n] = op[<<f[N], e>>] /\ g[n - 1] = f[N]
        BY <2>2, <3>1
      <4> QED
        BY <2>2, <3>1, <4>1
    <3>2. CASE n \in 1 .. N
      <4>1. f[n] = op[<<f[n - 1], s[n]>>]
        BY <2>1, <3>2 DEF IsRun, RunsTo, N
      <4>2. g[n] = f[n] /\ g[n - 1] = f[n - 1]
        BY <2>2, <3>2
      <4> QED
        BY <2>2, <3>2, <4>1, <4>2
    <3> QED
      BY <2>2, <3>1, <3>2
  <2>7. IsRun(g, op, b, t)
    BY <2>2, <2>4, <2>5, <2>6 DEF IsRun, RunsTo
  <2>8. t \in P
    BY <2>2, <2>4, <2>7
  <2> QED
    BY <2>8 DEF t
<1>3. Seq(E) \subseteq P
  <2> HIDE DEF P
  <2> QED
    BY <1>1, <1>2, SeqSetInduction
<1> QED
  BY <1>3

(* It has only one.                                                        *)
LEMMA RunUnique ==
  ASSUME NEW b, NEW op, NEW seq, NEW f, NEW g,
         NEW N \in Nat, RunsTo(f, op, b, seq, N), RunsTo(g, op, b, seq, N)
  PROVE  f[N] = g[N]
<1> DEFINE P == {n \in 0 .. N : f[n] = g[n]}
<1>1. 0 \in P
  BY DEF RunsTo
<1>2. ASSUME NEW n \in 0 .. N - 1, n \in P PROVE n + 1 \in P
  <2>1. n + 1 \in 1 .. N /\ (n + 1) - 1 = n
    OBVIOUS
  <2>2. f[n + 1] = op[<<f[n], seq[n + 1]>>] /\ g[n + 1] = op[<<g[n], seq[n + 1]>>]
    BY <2>1 DEF RunsTo
  <2> QED
    BY <1>2, <2>1, <2>2
<1>3. 0 .. N \subseteq P
  <2> HIDE DEF P
  <2> QED
    BY <1>1, <1>2, IntervalInduction
<1> QED
  BY <1>3

(* The state after no element, after one more, and its type.               *)
LEMMA RunProperties ==
  ASSUME NEW St, NEW E, NEW b, NEW op, IsLoop(op, b, St, E)
  PROVE  /\ RunOf(op, b, <<>>) = b
         /\ \A s \in Seq(E) : RunOf(op, b, s) \in St
         /\ \A s \in Seq(E), e \in E :
               RunOf(op, b, Append(s, e)) = op[<<RunOf(op, b, s), e>>]
<1> DEFINE F(s) == CHOOSE f : IsRun(f, op, b, s)
<1>1. ASSUME NEW s \in Seq(E)
      PROVE  /\ IsRun(F(s), op, b, s)
             /\ \A f : IsRun(f, op, b, s) => f[Len(s)] = F(s)[Len(s)]
  <2>1. \E f : IsRun(f, op, b, s)
    BY RunExists
  <2>2. IsRun(F(s), op, b, s)
    BY <2>1
  <2> HIDE DEF F
  <2>3. ASSUME NEW f, IsRun(f, op, b, s) PROVE f[Len(s)] = F(s)[Len(s)]
    <3>1. Len(s) \in Nat
      BY LenProperties
    <3> QED
      BY <2>2, <2>3, <3>1, RunUnique DEF IsRun
  <2> QED
    BY <2>2, <2>3
<1>2. \A s : RunOf(op, b, s) = F(s)[Len(s)]
  BY DEF RunOf
<1> HIDE DEF F
<1>3. RunOf(op, b, <<>>) = b
  BY <1>1, <1>2, EmptySeq DEF IsRun, RunsTo
<1>4. ASSUME NEW s \in Seq(E) PROVE RunOf(op, b, s) \in St
  <2>1. PICK f \in [0 .. Len(s) -> St] : IsRun(f, op, b, s)
    BY RunExists
  <2>2. f[Len(s)] \in St
    BY <2>1, LenProperties
  <2> QED
    BY <1>1, <1>2, <2>1, <2>2
<1>5. ASSUME NEW s \in Seq(E), NEW e \in E
      PROVE  RunOf(op, b, Append(s, e)) = op[<<RunOf(op, b, s), e>>]
  <2> DEFINE t == Append(s, e)
             N == Len(s)
             f == F(t)
             g == F(s)
  <2>1. /\ t \in Seq(E) /\ Len(t) = N + 1 /\ N \in Nat /\ t[N + 1] = e
        /\ \A n \in 1 .. N : t[n] = s[n]
    BY AppendProperties, LenProperties
  <2>2. IsRun(f, op, b, t) /\ IsRun(g, op, b, s)
    BY <1>1, <2>1
  <2> HIDE DEF f, g, t
  <2>3. RunsTo(f, op, b, s, N) /\ RunsTo(g, op, b, s, N)
    BY <2>1, <2>2 DEF IsRun, RunsTo
  <2>4. f[N] = g[N]
    BY <2>1, <2>3, RunUnique
  <2>5. f[N + 1] = op[<<f[N], e>>]
    BY <2>1, <2>2 DEF IsRun, RunsTo
  <2> QED
    BY <1>2, <2>1, <2>4, <2>5 DEF f, g, t
<1> QED
  BY <1>3, <1>4, <1>5

(* Whatever follows the loop from a state of its type ends where it ends.  *)
LEMMA RunFollowed ==
  ASSUME NEW St, NEW E, NEW b, NEW op, IsLoop(op, b, St, E), NEW seq \in Seq(E),
         NEW s, s[0] = b,
         \A n \in 1 .. Len(seq) : s[n - 1] \in St => s[n] = op[<<s[n - 1], seq[n]>>]
  PROVE  s[Len(seq)] = RunOf(op, b, seq)
<1> USE DEF IsLoop
<1> DEFINE P == {n \in 0 .. Len(seq) : s[n] \in St}
<1>1. Len(seq) \in Nat /\ \A n \in 1 .. Len(seq) : seq[n] \in E
  BY LenProperties, ElementOfSeq
<1>2. 0 \in P
  BY <1>1
<1>3. ASSUME NEW n \in 0 .. Len(seq) - 1, n \in P PROVE n + 1 \in P
  <2>1. n + 1 \in 1 .. Len(seq) /\ (n + 1) - 1 = n
    BY <1>1
  <2>2. s[n + 1] = op[<<s[n], seq[n + 1]>>]
    BY <1>3, <2>1
  <2> QED
    BY <1>1, <1>3, <2>1, <2>2
<1>4. 0 .. Len(seq) \subseteq P
  <2> HIDE DEF P
  <2> QED
    BY <1>1, <1>2, <1>3, IntervalInduction
<1>5. IsRun(s, op, b, seq)
  <2>1. ASSUME NEW n \in 1 .. Len(seq) PROVE s[n] = op[<<s[n - 1], seq[n]>>]
    <3>1. n - 1 \in 0 .. Len(seq)
      BY <1>1
    <3> QED
      BY <1>4, <3>1
  <2> QED
    BY <2>1 DEF IsRun, RunsTo
<1>6. IsRun(CHOOSE f : IsRun(f, op, b, seq), op, b, seq)
  BY <1>5
<1> QED
  BY <1>1, <1>5, <1>6, RunUnique DEF IsRun, RunOf
=============================================================================
