-------------------------- MODULE HostsFileProofs --------------------------
(***************************************************************************)
(* Theorems about HostsFile, for every text of the hosts file, any domains *)
(* and any lines of others.                                                *)
(***************************************************************************)
EXTENDS HostsFile, SequenceInduction, FiniteSetTheorems

(***************************************************************************)
(* The loop of replaceBlock, one line at a time.                           *)
(***************************************************************************)
Plain == Line \ {BlockStart}

ScanState ==
  [in : BOOLEAN, saw : BOOLEAN, kept : Seq(Plain), inside : Seq(Plain \ {BlockEnd})]

ScanStep == [x \in ScanState \X Line |-> ScanLine(x[1], x[2])]

LEMMA ScanLoop == IsLoop(ScanStep, Scanning, ScanState, Line)
<1>1. Scanning \in ScanState
  BY EmptySeq DEF Scanning, ScanState
<1>2. ASSUME NEW s \in ScanState, NEW l \in Line PROVE ScanLine(s, l) \in ScanState
  <2>1. l # BlockStart => Append(s.kept, l) \in Seq(Plain)
    BY AppendProperties DEF ScanState, Plain
  <2>2. l # BlockStart /\ l # BlockEnd => Append(s.inside, l) \in Seq(Plain \ {BlockEnd})
    BY AppendProperties DEF ScanState, Plain
  <2> QED
    BY <2>1, <2>2 DEF ScanLine, ScanState
<1> QED
  BY <1>1, <1>2 DEF ScanStep, IsLoop

LEMMA ScanIsRun ==
  ASSUME NEW text \in Seq(Line)
  PROVE  Scan(text) = RunOf(ScanStep, Scanning, text)
<1> DEFINE Body(g) == [n \in 0 .. Len(text) |->
                         IF n = 0 THEN Scanning ELSE ScanLine(g[n - 1], text[n])]
           s == CHOOSE g : g = Body(g)
<1>1. Len(text) \in Nat /\ \A n \in 1 .. Len(text) : text[n] \in Line
  BY LenProperties, ElementOfSeq
<1>2. PICK f \in [0 .. Len(text) -> ScanState] : IsRun(f, ScanStep, Scanning, text)
  BY ScanLoop, RunExists
<1>3. \A v \in ScanState, n \in 1 .. Len(text) : ScanStep[<<v, text[n]>>] = ScanLine(v, text[n])
  BY <1>1 DEF ScanStep
<1>4. f = Body(f)
  <2>1. ASSUME NEW n \in 0 .. Len(text) PROVE f[n] = Body(f)[n]
    <3>1. CASE n = 0
      BY <1>2, <3>1 DEF IsRun, RunsTo
    <3>2. CASE n # 0
      <4>1. n \in 1 .. Len(text) /\ n - 1 \in 0 .. Len(text)
        BY <1>1, <3>2
      <4>2. f[n] = ScanStep[<<f[n - 1], text[n]>>] /\ f[n - 1] \in ScanState
        BY <1>2, <4>1 DEF IsRun, RunsTo
      <4> QED
        BY <1>3, <3>2, <4>1, <4>2
    <3> QED
      BY <3>1, <3>2
  <2> HIDE DEF Body
  <2>2. Body(f) = [n \in 0 .. Len(text) |-> Body(f)[n]]
    BY DEF Body
  <2>3. f = [n \in 0 .. Len(text) |-> f[n]]
    BY <1>2
  <2> QED
    BY <2>1, <2>2, <2>3
<1>5. s = Body(s)
  <2> HIDE DEF Body
  <2> QED
    BY <1>4
<1>6. s[0] = Scanning /\ \A n \in 1 .. Len(text) : s[n] = ScanLine(s[n - 1], text[n])
  <2> HIDE DEF s
  <2> QED
    BY <1>1, <1>5
<1>7. Scan(text) = s[Len(text)]
  BY DEF Scan
<1> HIDE DEF s
<1>8. \A n \in 1 .. Len(text) :
         s[n - 1] \in ScanState => s[n] = ScanStep[<<s[n - 1], text[n]>>]
  BY <1>3, <1>6
<1>9. s[Len(text)] = RunOf(ScanStep, Scanning, text)
  BY <1>6, <1>8, ScanLoop, RunFollowed
<1> QED
  BY <1>7, <1>9

LEMMA ScanProperties ==
  /\ Scan(<<>>) = Scanning
  /\ \A text \in Seq(Line) : Scan(text) \in ScanState
  /\ \A text \in Seq(Line), l \in Line :
        Scan(Append(text, l)) = ScanLine(Scan(text), l)
<1>1. <<>> \in Seq(Line) /\ \A text \in Seq(Line), l \in Line : Append(text, l) \in Seq(Line)
  BY EmptySeq, AppendProperties
<1>3. /\ RunOf(ScanStep, Scanning, <<>>) = Scanning
      /\ \A text \in Seq(Line) : RunOf(ScanStep, Scanning, text) \in ScanState
      /\ \A text \in Seq(Line), l \in Line :
            RunOf(ScanStep, Scanning, Append(text, l)) =
              ScanStep[<<RunOf(ScanStep, Scanning, text), l>>]
  BY ScanLoop, RunProperties
<1>4. Scan(<<>>) = Scanning /\ \A text \in Seq(Line) : Scan(text) \in ScanState
  BY <1>1, <1>3, ScanIsRun
<1>5. ASSUME NEW text \in Seq(Line), NEW l \in Line
      PROVE  Scan(Append(text, l)) = ScanLine(Scan(text), l)
  <2>1. Scan(Append(text, l)) = ScanStep[<<Scan(text), l>>]
    BY <1>1, <1>3, ScanIsRun
  <2>2. ScanStep[<<Scan(text), l>>] = ScanLine(Scan(text), l)
    BY <1>4 DEF ScanStep
  <2> QED
    BY <2>1, <2>2
<1> QED
  BY <1>4, <1>5

(***************************************************************************)
(* The lines among given ones, one line at a time.                         *)
(***************************************************************************)
OnlyStep(lines, E) ==
  [x \in Seq(E) \X E |-> IF x[2] \in lines THEN Append(x[1], x[2]) ELSE x[1]]

LEMMA OnlyLoop == ASSUME NEW lines, NEW E PROVE IsLoop(OnlyStep(lines, E), <<>>, Seq(E), E)
BY EmptySeq, AppendProperties DEF IsLoop, OnlyStep

LEMMA OnlyIsRun ==
  ASSUME NEW lines, NEW E, NEW text \in Seq(E)
  PROVE  Only(lines, text) = RunOf(OnlyStep(lines, E), <<>>, text)
<1> DEFINE Body(g) == [n \in 0 .. Len(text) |->
                         IF n = 0 THEN <<>>
                         ELSE IF text[n] \in lines THEN Append(g[n - 1], text[n])
                         ELSE g[n - 1]]
           s == CHOOSE g : g = Body(g)
           op == OnlyStep(lines, E)
<1>1. Len(text) \in Nat /\ \A n \in 1 .. Len(text) : text[n] \in E
  BY LenProperties, ElementOfSeq
<1>2. PICK f \in [0 .. Len(text) -> Seq(E)] : IsRun(f, op, <<>>, text)
  BY OnlyLoop, RunExists
<1>3. \A v \in Seq(E), n \in 1 .. Len(text) :
         op[<<v, text[n]>>] = IF text[n] \in lines THEN Append(v, text[n]) ELSE v
  BY <1>1 DEF OnlyStep
<1> HIDE DEF op
<1>4. f = Body(f)
  <2>1. ASSUME NEW n \in 0 .. Len(text) PROVE f[n] = Body(f)[n]
    <3>1. CASE n = 0
      BY <1>2, <3>1 DEF IsRun, RunsTo
    <3>2. CASE n # 0
      <4>1. n \in 1 .. Len(text) /\ n - 1 \in 0 .. Len(text)
        BY <1>1, <3>2
      <4>2. f[n] = op[<<f[n - 1], text[n]>>] /\ f[n - 1] \in Seq(E)
        BY <1>2, <4>1 DEF IsRun, RunsTo
      <4> QED
        BY <1>3, <3>2, <4>1, <4>2
    <3> QED
      BY <3>1, <3>2
  <2> HIDE DEF Body
  <2>2. Body(f) = [n \in 0 .. Len(text) |-> Body(f)[n]]
    BY DEF Body
  <2>3. f = [n \in 0 .. Len(text) |-> f[n]]
    BY <1>2
  <2> QED
    BY <2>1, <2>2, <2>3
<1>5. s = Body(s)
  <2> HIDE DEF Body
  <2> QED
    BY <1>4
<1>6. /\ s[0] = <<>>
      /\ \A n \in 1 .. Len(text) :
            s[n] = IF text[n] \in lines THEN Append(s[n - 1], text[n]) ELSE s[n - 1]
  <2> HIDE DEF s
  <2>1. \A n \in 0 .. Len(text) : s[n] = Body(s)[n]
    BY <1>5
  <2> QED
    BY <1>1, <2>1
<1>7. Only(lines, text) = s[Len(text)]
  BY DEF Only
<1> HIDE DEF s
<1>8. \A n \in 1 .. Len(text) : s[n - 1] \in Seq(E) => s[n] = op[<<s[n - 1], text[n]>>]
  BY <1>3, <1>6
<1>9. s[Len(text)] = RunOf(op, <<>>, text)
  BY <1>6, <1>8, OnlyLoop, RunFollowed DEF op
<1> QED
  BY <1>7, <1>9 DEF op

LEMMA OnlyProperties ==
  ASSUME NEW lines, NEW E, NEW text \in Seq(E)
  PROVE  /\ Only(lines, <<>>) = <<>>
         /\ Only(lines, text) \in Seq(E)
         /\ \A l \in E : Only(lines, Append(text, l)) =
                        IF l \in lines THEN Append(Only(lines, text), l) ELSE Only(lines, text)
<1> DEFINE op == OnlyStep(lines, E)
<1>1. <<>> \in Seq(E) /\ \A l \in E : Append(text, l) \in Seq(E)
  BY EmptySeq, AppendProperties
<1>2. \A t \in Seq(E) : Only(lines, t) = RunOf(op, <<>>, t)
  BY OnlyIsRun
<1>3. \A v \in Seq(E), l \in E : op[<<v, l>>] = IF l \in lines THEN Append(v, l) ELSE v
  BY DEF OnlyStep
<1>4. IsLoop(op, <<>>, Seq(E), E)
  BY OnlyLoop
<1> HIDE DEF op
<1>5. /\ RunOf(op, <<>>, <<>>) = <<>>
      /\ RunOf(op, <<>>, text) \in Seq(E)
      /\ \A l \in E : RunOf(op, <<>>, Append(text, l)) = op[<<RunOf(op, <<>>, text), l>>]
  BY <1>4, RunProperties
<1>6. Only(lines, <<>>) = <<>> /\ Only(lines, text) \in Seq(E)
  BY <1>1, <1>2, <1>5
<1>7. ASSUME NEW l \in E
      PROVE  Only(lines, Append(text, l)) =
               IF l \in lines THEN Append(Only(lines, text), l) ELSE Only(lines, text)
  <2>1. Only(lines, Append(text, l)) = op[<<Only(lines, text), l>>]
    BY <1>1, <1>2, <1>5
  <2> QED
    BY <1>3, <1>6, <2>1
<1> QED
  BY <1>6, <1>7

LEMMA OnlyEmpty == ASSUME NEW lines PROVE Only(lines, <<>>) = <<>>
<1>1. <<>> \in Seq({})
  BY EmptySeq
<1> QED
  BY <1>1, OnlyProperties

LEMMA OnlyOne ==
  ASSUME NEW lines, NEW l
  PROVE  Only(lines, <<l>>) = IF l \in lines THEN <<l>> ELSE <<>>
<1> DEFINE e == <<>>
<1>1. e \in Seq({l}) /\ l \in {l} /\ Append(e, l) = <<l>> /\ Only(lines, e) = <<>>
  BY EmptySeq, OnlyEmpty
<1> HIDE DEF e
<1>2. Only(lines, Append(e, l)) = IF l \in lines THEN Append(Only(lines, e), l) ELSE Only(lines, e)
  BY <1>1, OnlyProperties
<1> QED
  BY <1>1, <1>2 DEF e

(* All lines are kept if all are among the given ones, none if none is.    *)
LEMMA OnlyAllOrNone ==
  ASSUME NEW lines, NEW E, NEW text \in Seq(E)
  PROVE  /\ E \subseteq lines => Only(lines, text) = text
         /\ E \cap lines = {} => Only(lines, text) = <<>>
<1> DEFINE P == {t \in Seq(E) :
                   /\ E \subseteq lines => Only(lines, t) = t
                   /\ E \cap lines = {} => Only(lines, t) = <<>>}
<1>1. <<>> \in P
  BY OnlyProperties, EmptySeq
<1>2. ASSUME NEW t \in Seq(E), NEW e \in E, t \in P PROVE Append(t, e) \in P
  <2>1. Append(t, e) \in Seq(E)
    BY AppendProperties
  <2>2. Only(lines, Append(t, e)) =
          IF e \in lines THEN Append(Only(lines, t), e) ELSE Only(lines, t)
    BY OnlyProperties
  <2> QED
    BY <1>2, <2>1, <2>2
<1>3. Seq(E) \subseteq P
  <2> HIDE DEF P
  <2> QED
    BY <1>1, <1>2, SeqSetInduction
<1>4. text \in P
  BY <1>3
<1> QED
  BY <1>4

(* Filtering goes through concatenation.                                   *)
LEMMA OnlyConcat ==
  ASSUME NEW lines, NEW E, NEW s \in Seq(E), NEW text \in Seq(E)
  PROVE  Only(lines, s \o text) = Only(lines, s) \o Only(lines, text)
<1> DEFINE P == {t \in Seq(E) : Only(lines, s \o t) = Only(lines, s) \o Only(lines, t)}
<1>0. \A t \in Seq(E) : Only(lines, t) \in Seq(E)
  BY OnlyProperties
<1>1. <<>> \in P
  <2>1. Only(lines, <<>>) = <<>> /\ <<>> \in Seq(E) /\ s \o <<>> = s
    BY OnlyProperties, EmptySeq, ConcatEmptySeq
  <2>2. Only(lines, s) \o <<>> = Only(lines, s)
    BY <1>0, ConcatEmptySeq
  <2> QED
    BY <2>1, <2>2
<1>2. ASSUME NEW t \in Seq(E), NEW e \in E, t \in P PROVE Append(t, e) \in P
  <2>1. /\ Append(t, e) \in Seq(E) /\ s \o t \in Seq(E)
        /\ s \o Append(t, e) = Append(s \o t, e)
    BY ConcatAppend
  <2>2. Only(lines, Append(s \o t, e)) =
          IF e \in lines THEN Append(Only(lines, s \o t), e) ELSE Only(lines, s \o t)
    <3> DEFINE u == s \o t
    <3>1. u \in Seq(E)
      BY <2>1
    <3> HIDE DEF u
    <3>2. Only(lines, Append(u, e)) = IF e \in lines THEN Append(Only(lines, u), e) ELSE Only(lines, u)
      BY <3>1, OnlyProperties
    <3> QED
      BY <3>2 DEF u
  <2>3. Only(lines, Append(t, e)) =
          IF e \in lines THEN Append(Only(lines, t), e) ELSE Only(lines, t)
    BY OnlyProperties
  <2>4. Only(lines, s) \o Append(Only(lines, t), e) = Append(Only(lines, s) \o Only(lines, t), e)
    BY <1>0, ConcatAppend
  <2> QED
    BY <1>2, <2>1, <2>2, <2>3, <2>4
<1>3. Seq(E) \subseteq P
  <2> HIDE DEF P
  <2> QED
    BY <1>1, <1>2, SeqSetInduction
<1> QED
  BY <1>3

(***************************************************************************)
(* The blank lines at the end of a text.                                   *)
(***************************************************************************)
LastLine(text) == Max({0} \cup {i \in DOMAIN text : text[i] # Blank})

LEMMA LastLineIs ==
  ASSUME NEW E, NEW text \in Seq(E)
  PROVE  /\ LastLine(text) \in 0 .. Len(text)
         /\ LastLine(text) # 0 => text[LastLine(text)] # Blank
         /\ \A i \in 1 .. Len(text) : text[i] # Blank => i <= LastLine(text)
<1> DEFINE T == {0} \cup {i \in DOMAIN text : text[i] # Blank}
<1>1. Len(text) \in Nat /\ DOMAIN text = 1 .. Len(text)
  BY LenProperties
<1>2. T \subseteq 0 .. Len(text) /\ T # {}
  BY <1>1
<1>3. \E x \in T : \A y \in T : x >= y
  <2> HIDE DEF T
  <2> QED
    BY <1>1, <1>2, GreatestExists
<1>4. Max(T) \in T /\ \A y \in T : Max(T) >= y
  <2> HIDE DEF T
  <2> QED
    BY <1>3 DEF Max
<1> HIDE DEF Max
<1> QED
  BY <1>1, <1>2, <1>4 DEF LastLine

LEMMA TrimProperties ==
  ASSUME NEW E, NEW text \in Seq(E)
  PROVE  /\ TrimBlanks(<<>>) = <<>>
         /\ TrimBlanks(text) \in Seq(E)
         /\ \A l \in E : TrimBlanks(Append(text, l)) =
                        IF l = Blank THEN TrimBlanks(text) ELSE Append(text, l)
<1>1. \A t : TrimBlanks(t) = SubSeq(t, 1, LastLine(t))
  BY DEF TrimBlanks, LastLine
<1>2. TrimBlanks(<<>>) = <<>>
  <2>1. <<>> \in Seq(E) /\ Len(<<>>) = 0
    BY EmptySeq
  <2>2. LastLine(<<>>) = 0
    <3> DEFINE e == <<>>
    <3> HIDE DEF e
    <3>1. e \in Seq(E) /\ Len(e) = 0
      BY <2>1 DEF e
    <3>2. LastLine(e) \in 0 .. Len(e)
      BY <3>1, LastLineIs
    <3> QED
      BY <3>1, <3>2 DEF e
  <2> QED
    BY <1>1, <2>2, SubSeqEmpty
<1> DEFINE M == LastLine(text)
<1>3. M \in 0 .. Len(text) /\ Len(text) \in Nat /\ \A i \in 1 .. Len(text) : text[i] \in E
  BY LastLineIs, LenProperties, ElementOfSeq
<1> HIDE DEF M
<1>4. /\ SubSeq(text, 1, M) \in Seq(E) /\ Len(SubSeq(text, 1, M)) = M
      /\ \A i \in 1 .. M : SubSeq(text, 1, M)[i] = text[i]
  BY <1>3, SubSeqProperties
<1>5. ASSUME NEW l \in E
      PROVE  TrimBlanks(Append(text, l)) =
               IF l = Blank THEN TrimBlanks(text) ELSE Append(text, l)
  <2> DEFINE t == Append(text, l)
             K == LastLine(t)
  <2>1. /\ t \in Seq(E) /\ Len(t) = Len(text) + 1 /\ t[Len(text) + 1] = l
        /\ \A i \in 1 .. Len(text) : t[i] = text[i]
    BY AppendProperties
  <2> HIDE DEF t
  <2>2. /\ K \in 0 .. Len(t) /\ (K # 0 => t[K] # Blank)
        /\ \A i \in 1 .. Len(t) : t[i] # Blank => i <= K
    BY <2>1, LastLineIs
  <2> HIDE DEF K
  <2>3. CASE l = Blank
    <3>1. /\ M # 0 => text[M] # Blank
          /\ \A i \in 1 .. Len(text) : text[i] # Blank => i <= M
      BY LastLineIs DEF M
    <3>2. K \in 0 .. Len(text)
      BY <1>3, <2>1, <2>2, <2>3
    <3>3. K <= M
      BY <1>3, <2>1, <2>2, <3>1, <3>2
    <3>4. M <= K
      BY <1>3, <2>1, <2>2, <3>1, <3>2
    <3>5. K = M
      BY <1>3, <3>2, <3>3, <3>4
    <3>6. /\ SubSeq(t, 1, M) \in Seq(E) /\ Len(SubSeq(t, 1, M)) = M
          /\ \A i \in 1 .. M : SubSeq(t, 1, M)[i] = t[i]
      BY <1>3, <2>1, SubSeqProperties
    <3>7. SubSeq(t, 1, M) = SubSeq(text, 1, M)
      BY <1>3, <1>4, <2>1, <3>6, SeqEqual
    <3> QED
      BY <1>1, <2>3, <3>5, <3>7 DEF K, M, t
  <2>4. CASE l # Blank
    <3>1. K = Len(t)
      BY <1>3, <2>1, <2>2, <2>4
    <3>2. SubSeq(t, 1, Len(t)) = t
      BY <2>1, SubSeqFull
    <3> QED
      BY <1>1, <2>4, <3>1, <3>2 DEF K, t
  <2> QED
    BY <2>3, <2>4
<1> QED
  BY <1>1, <1>2, <1>4, <1>5 DEF M

(* Trimming twice trims once, and removes no line of others.               *)
LEMMA TrimKeeps ==
  ASSUME NEW E, NEW text \in Seq(E)
  PROVE  /\ TrimBlanks(TrimBlanks(text)) = TrimBlanks(text)
         /\ Only(Others, TrimBlanks(text)) = Only(Others, text)
<1> DEFINE P == {t \in Seq(E) :
                   /\ TrimBlanks(TrimBlanks(t)) = TrimBlanks(t)
                   /\ Only(Others, TrimBlanks(t)) = Only(Others, t)}
<1>1. <<>> \in P
  BY TrimProperties, EmptySeq
<1>2. ASSUME NEW t \in Seq(E), NEW e \in E, t \in P PROVE Append(t, e) \in P
  <2>1. Append(t, e) \in Seq(E)
    BY AppendProperties
  <2>2. TrimBlanks(Append(t, e)) = IF e = Blank THEN TrimBlanks(t) ELSE Append(t, e)
    BY TrimProperties
  <2>3. e = Blank => Only(Others, Append(t, e)) = Only(Others, t)
    BY OnlyProperties, HostsAssumption
  <2> QED
    BY <1>2, <2>1, <2>2, <2>3
<1>3. Seq(E) \subseteq P
  <2> HIDE DEF P
  <2> QED
    BY <1>1, <1>2, SeqSetInduction
<1>4. text \in P
  BY <1>3
<1> QED
  BY <1>4

-----------------------------------------------------------------------------
(***************************************************************************)
(* What the loop makes of a text without a block, and of one that ends     *)
(* with a block.                                                           *)
(***************************************************************************)
Outcome(saw, kept, inside) == [in |-> FALSE, saw |-> saw, kept |-> kept, inside |-> inside]

LEMMA ScanPlain ==
  ASSUME NEW text \in Seq(Plain)
  PROVE  text \in Seq(Line) /\ Scan(text) = Outcome(FALSE, text, <<>>)
<1> DEFINE P == {t \in Seq(Plain) : Scan(t) = Outcome(FALSE, t, <<>>)}
<1>0. Plain \subseteq Line /\ \A t \in Seq(Plain) : t \in Seq(Line)
  BY SeqMonotonic DEF Plain
<1>1. <<>> \in P
  BY ScanProperties, EmptySeq DEF Scanning, Outcome
<1>2. ASSUME NEW t \in Seq(Plain), NEW e \in Plain, t \in P PROVE Append(t, e) \in P
  <2>1. Append(t, e) \in Seq(Plain) /\ e \in Line /\ e # BlockStart
    BY AppendProperties DEF Plain
  <2>2. Scan(Append(t, e)) = ScanLine(Scan(t), e)
    BY <1>0, <2>1, ScanProperties
  <2>3. Scan(t) = Outcome(FALSE, t, <<>>)
    BY <1>2
  <2>4. ScanLine(Outcome(FALSE, t, <<>>), e) = Outcome(FALSE, Append(t, e), <<>>)
    BY <2>1 DEF ScanLine, Outcome
  <2> QED
    BY <2>1, <2>2, <2>3, <2>4
<1>3. Seq(Plain) \subseteq P
  <2> HIDE DEF P
  <2> QED
    BY <1>1, <1>2, SeqSetInduction
<1>4. text \in P
  BY <1>3
<1> QED
  BY <1>0, <1>4

LEMMA ScanOpen ==
  ASSUME NEW text \in Seq(Plain), NEW entries \in Seq(Domains)
  PROVE  /\ Append(text, BlockStart) \o entries \in Seq(Line)
         /\ Scan(Append(text, BlockStart) \o entries) =
              [in |-> TRUE, saw |-> TRUE, kept |-> text, inside |-> entries]
<1> DEFINE u == Append(text, BlockStart)
           Open(d) == [in |-> TRUE, saw |-> TRUE, kept |-> text, inside |-> d]
           P == {d \in Seq(Domains) : u \o d \in Seq(Line) /\ Scan(u \o d) = Open(d)}
<1>0. BlockStart \in Line /\ Domains \subseteq Line
  BY DEF Line
<1>1. u \in Seq(Line) /\ Scan(u) = Open(<<>>)
  <2>1. text \in Seq(Line) /\ Scan(text) = Outcome(FALSE, text, <<>>)
    BY ScanPlain
  <2>2. u \in Seq(Line) /\ Scan(u) = ScanLine(Scan(text), BlockStart)
    BY <1>0, <2>1, ScanProperties, AppendProperties
  <2>3. ScanLine(Outcome(FALSE, text, <<>>), BlockStart) = Open(<<>>)
    BY DEF ScanLine, Outcome
  <2> QED
    BY <2>1, <2>2, <2>3
<1> HIDE DEF u
<1>2. <<>> \in P
  BY <1>1, ConcatEmptySeq, EmptySeq
<1>3. ASSUME NEW d \in Seq(Domains), NEW e \in Domains, d \in P PROVE Append(d, e) \in P
  <2>1. /\ e \in Line /\ e # BlockStart /\ e # BlockEnd /\ d \in Seq(Line)
        /\ Append(d, e) \in Seq(Domains)
    BY <1>0, HostsAssumption, SeqMonotonic, AppendProperties
  <2>2. u \o d \in Seq(Line) /\ Append(u \o d, e) \in Seq(Line) /\ u \o Append(d, e) = Append(u \o d, e)
    BY <1>1, <2>1, ConcatAppend, AppendProperties
  <2>3. Scan(Append(u \o d, e)) = ScanLine(Scan(u \o d), e)
    <3> DEFINE t == u \o d
    <3>1. t \in Seq(Line)
      BY <2>2
    <3> HIDE DEF t
    <3>2. Scan(Append(t, e)) = ScanLine(Scan(t), e)
      BY <2>1, <3>1, ScanProperties
    <3> QED
      BY <3>2 DEF t
  <2>4. ScanLine(Open(d), e) = Open(Append(d, e))
    BY <2>1 DEF ScanLine
  <2>5. Scan(u \o d) = Open(d)
    BY <1>3
  <2> QED
    BY <2>1, <2>2, <2>3, <2>4, <2>5
<1>4. Seq(Domains) \subseteq P
  <2> HIDE DEF P
  <2> QED
    BY <1>2, <1>3, SeqSetInduction
<1>5. entries \in P
  BY <1>4
<1> QED
  BY <1>5 DEF u

(* The entries of the block, in the order they are written.                *)
Entries == SetToSeq(Domains)

LEMMA BlockIs ==
  /\ Entries \in Seq(Domains)
  /\ buildBlock = Append(<<BlockStart>> \o Entries, BlockEnd)
  /\ buildBlock \in Seq(Line) /\ buildBlock # <<>> /\ buildBlock[1] = BlockStart
<1>1. Cardinality(Domains) \in Nat /\ ExistsBijection(1 .. Cardinality(Domains), Domains)
  BY HostsAssumption, FS_CardinalityType
<1>2. \E f \in [1 .. Cardinality(Domains) -> Domains] : IsInjective(f)
  BY <1>1 DEF ExistsBijection, Bijection, Injection
<1>3. Entries \in [1 .. Cardinality(Domains) -> Domains]
  BY <1>2 DEF Entries, SetToSeq
<1>4. Entries \in Seq(Domains)
  BY <1>1, <1>3
<1>5. /\ Entries \in Seq(Line) /\ <<BlockStart>> \in Seq(Line) /\ BlockEnd \in Line
      /\ Len(<<BlockStart>>) = 1 /\ <<BlockStart>>[1] = BlockStart
  BY <1>4, SeqMonotonic DEF Line
<1> DEFINE t == <<BlockStart>> \o Entries
<1>6. t \in Seq(Line) /\ Len(t) \in Nat \ {0} /\ t[1] = BlockStart
  BY <1>5, ConcatProperties, LenProperties
<1>7. buildBlock = t \o <<BlockEnd>>
  BY DEF buildBlock, Entries
<1> HIDE DEF t
<1>8. t \o <<BlockEnd>> = Append(t, BlockEnd)
  BY <1>5, <1>6, AppendIsConcat
<1> QED
  BY <1>4, <1>5, <1>6, <1>7, <1>8, AppendProperties DEF t

LEMMA ScanBlock ==
  ASSUME NEW text \in Seq(Plain)
  PROVE  /\ text \o buildBlock \in Seq(Line)
         /\ Scan(text \o buildBlock) = Outcome(TRUE, text, Entries)
<1> DEFINE u == Append(text, BlockStart) \o Entries
<1>1. u \in Seq(Line) /\ Scan(u) = [in |-> TRUE, saw |-> TRUE, kept |-> text, inside |-> Entries]
  BY BlockIs, ScanOpen
<1>2. text \o buildBlock = Append(u, BlockEnd)
  <2>1. /\ text \in Seq(Line) /\ Entries \in Seq(Line) /\ <<BlockStart>> \in Seq(Line)
        /\ BlockStart \in Line /\ BlockEnd \in Line
    BY BlockIs, SeqMonotonic DEF Plain, Line
  <2>2. /\ <<BlockStart>> \o Entries \in Seq(Line)
        /\ text \o (<<BlockStart>> \o Entries) = (text \o <<BlockStart>>) \o Entries
        /\ text \o <<BlockStart>> = Append(text, BlockStart)
    BY <2>1, ConcatProperties, ConcatAssociative, AppendIsConcat
  <2>3. text \o Append(<<BlockStart>> \o Entries, BlockEnd) =
          Append(text \o (<<BlockStart>> \o Entries), BlockEnd)
    BY <2>1, <2>2, ConcatAppend
  <2> QED
    BY <2>2, <2>3, BlockIs
<1> HIDE DEF u
<1>3. BlockEnd \in Line /\ BlockEnd # BlockStart
  BY HostsAssumption DEF Line
<1>4. Append(u, BlockEnd) \in Seq(Line) /\ Scan(Append(u, BlockEnd)) = ScanLine(Scan(u), BlockEnd)
  BY <1>1, <1>3, ScanProperties, AppendProperties
<1>5. ScanLine([in |-> TRUE, saw |-> TRUE, kept |-> text, inside |-> Entries], BlockEnd) =
        Outcome(TRUE, text, Entries)
  BY <1>3 DEF ScanLine, Outcome
<1> QED
  BY <1>1, <1>2, <1>4, <1>5

(***************************************************************************)
(* What is kept of a text, without the blank lines at its end.             *)
(***************************************************************************)
Shortened(text) ==
  IF text = <<>> THEN <<>>
  ELSE IF TrimBlanks(text) = <<>> THEN <<Blank>> ELSE TrimBlanks(text)

LEMMA ShortenedProperties ==
  ASSUME NEW text \in Seq(Plain)
  PROVE  /\ Shortened(text) \in Seq(Plain)
         /\ Shortened(Shortened(text)) = Shortened(text)
         /\ Shortened(text) # <<>> => Shortened(Append(Shortened(text), Blank)) = Shortened(text)
         /\ Only(Others, Shortened(text)) = Only(Others, text)
<1> DEFINE t == TrimBlanks(text)
<1>1. /\ t \in Seq(Plain) /\ TrimBlanks(t) = t /\ Only(Others, t) = Only(Others, text)
      /\ TrimBlanks(<<>>) = <<>> /\ Only(Others, <<>>) = <<>> /\ <<>> \in Seq(Plain)
  BY TrimProperties, TrimKeeps, OnlyProperties, EmptySeq
<1>2. Blank \in Plain /\ Blank \notin Others
  BY HostsAssumption DEF Plain, Line
<1> HIDE DEF t
<1>3. \A u \in Seq(Plain) : /\ Append(u, Blank) \in Seq(Plain) /\ Append(u, Blank) # <<>>
                           /\ TrimBlanks(Append(u, Blank)) = TrimBlanks(u)
                           /\ Only(Others, Append(u, Blank)) = Only(Others, u)
  BY <1>2, TrimProperties, OnlyProperties, AppendProperties
<1>4. /\ <<Blank>> \in Seq(Plain) /\ <<Blank>> # <<>>
      /\ TrimBlanks(<<Blank>>) = <<>> /\ Only(Others, <<Blank>>) = <<>>
  <2>1. Append(<<>>, Blank) = <<Blank>>
    OBVIOUS
  <2> QED
    BY <1>1, <1>3, <2>1
<1>5. Shortened(text) = IF text = <<>> THEN <<>> ELSE IF t = <<>> THEN <<Blank>> ELSE t
  BY DEF Shortened, t
<1>6. CASE text = <<>>
  BY <1>1, <1>5, <1>6 DEF Shortened
<1>7. CASE text # <<>> /\ t = <<>>
  <2>1. Shortened(text) = <<Blank>>
    BY <1>5, <1>7
  <2>2. Shortened(<<Blank>>) = <<Blank>>
    BY <1>4 DEF Shortened
  <2>3. Shortened(Append(<<Blank>>, Blank)) = <<Blank>>
    BY <1>3, <1>4 DEF Shortened
  <2> QED
    BY <1>1, <1>4, <1>7, <2>1, <2>2, <2>3
<1>8. CASE text # <<>> /\ t # <<>>
  <2>1. Shortened(text) = t
    BY <1>5, <1>8
  <2>2. Shortened(t) = t
    BY <1>1, <1>8 DEF Shortened
  <2>3. Shortened(Append(t, Blank)) = t
    BY <1>1, <1>3, <1>8 DEF Shortened
  <2> QED
    BY <1>1, <2>1, <2>2, <2>3
<1> QED
  BY <1>6, <1>7, <1>8

(***************************************************************************)
(* What an edit writes: plain lines, whose rest is that of the old text,   *)
(* and the goal.                                                           *)
(***************************************************************************)
LEMMA RestIs ==
  ASSUME NEW text \in Seq(Line)
  PROVE  /\ Scan(text).kept \in Seq(Plain)
         /\ Rest(text) = Shortened(Scan(text).kept)
BY ScanProperties DEF Rest, Shortened, ScanState

LEMMA Replaced ==
  ASSUME NEW text \in Seq(Line), NEW block \in {buildBlock, <<>>}
  PROVE  \E front \in Seq(Plain) :
            /\ replaceBlock(text, block) = front \o block
            /\ Shortened(front) = Rest(text)
            /\ Only(Others, front) = Only(Others, Scan(text).kept)
            /\ block = <<>> \/ Scan(text).saw => front = Rest(text)
<1> DEFINE r == Rest(text)
           gap == block # <<>> /\ ~Scan(text).saw /\ Rest(text) # <<>>
<1>1. /\ r \in Seq(Plain) /\ Shortened(r) = r /\ Only(Others, r) = Only(Others, Scan(text).kept)
      /\ r # <<>> => Shortened(Append(r, Blank)) = r
  BY RestIs, ShortenedProperties
<1>2. Blank \in Plain /\ Blank \notin Others
  BY HostsAssumption DEF Plain, Line
<1>3. replaceBlock(text, block) = r \o (IF gap THEN <<Blank>> ELSE <<>>) \o block
  BY DEF replaceBlock
<1> HIDE DEF r
<1>4. CASE gap
  <2>1. r \o <<Blank>> = Append(r, Blank) /\ Append(r, Blank) \in Seq(Plain)
    BY <1>1, <1>2, AppendIsConcat, AppendProperties
  <2>2. Only(Others, Append(r, Blank)) = Only(Others, r)
    BY <1>1, <1>2, OnlyProperties
  <2>3. replaceBlock(text, block) = Append(r, Blank) \o block
    BY <1>3, <1>4, <2>1
  <2> QED
    BY <1>1, <1>4, <2>1, <2>2, <2>3 DEF r
<1>5. CASE ~gap
  <2>1. r \o <<>> = r
    BY <1>1, ConcatEmptySeq
  <2>2. replaceBlock(text, block) = r \o block
    BY <1>3, <1>5, <2>1
  <2> QED
    BY <1>1, <2>2 DEF r
<1> QED
  BY <1>4, <1>5

(* What the loop makes of what an edit writes.                             *)
LEMMA ScanReplaced ==
  ASSUME NEW text \in Seq(Line), NEW block \in {buildBlock, <<>>}
  PROVE  LET new == replaceBlock(text, block)
         IN  /\ new \in Seq(Line)
             /\ Rest(new) = Rest(text)
             /\ Scan(new).saw = (block # <<>>)
             /\ Scan(new).inside = IF block # <<>> THEN Entries ELSE <<>>
<1> DEFINE new == replaceBlock(text, block)
<1>1. PICK front \in Seq(Plain) : new = front \o block /\ Shortened(front) = Rest(text)
  BY Replaced
<1> HIDE DEF new
<1>2. /\ new \in Seq(Line)
      /\ Scan(new) = Outcome(block # <<>>, front, IF block # <<>> THEN Entries ELSE <<>>)
  <2>1. CASE block = buildBlock
    BY <1>1, <2>1, ScanBlock, BlockIs
  <2>2. CASE block = <<>>
    <3>1. new = front
      BY <1>1, <2>2, ConcatEmptySeq
    <3> QED
      BY <2>2, <3>1, ScanPlain
  <2> QED
    BY <2>1, <2>2
<1>3. /\ Scan(new).kept = front /\ Scan(new).saw = (block # <<>>)
      /\ Scan(new).inside = IF block # <<>> THEN Entries ELSE <<>>
  BY <1>2 DEF Outcome
<1>4. Rest(new) = Rest(text)
  BY <1>1, <1>2, <1>3, RestIs
<1> QED
  BY <1>2, <1>3, <1>4 DEF new

-----------------------------------------------------------------------------
(* Whatever the file holds, Uninstall undoes what Install does, and edits  *)
(* repeated soon change nothing more.                                      *)
LEMMA EditsSettleOn ==
  ASSUME NEW text \in Seq(Line)
  PROVE  LET once == replaceBlock(text, buildBlock)
             twice == replaceBlock(once, buildBlock)
             removed == replaceBlock(text, <<>>)
         IN  /\ replaceBlock(once, <<>>) = removed
             /\ replaceBlock(removed, <<>>) = removed
             /\ replaceBlock(twice, buildBlock) = twice
<1>1. \A t \in Seq(Line) : replaceBlock(t, <<>>) = Rest(t)
  <2> SUFFICES ASSUME NEW t \in Seq(Line) PROVE replaceBlock(t, <<>>) = Rest(t)
    OBVIOUS
  <2>1. Rest(t) \in Seq(Plain)
    BY RestIs, ShortenedProperties
  <2> QED
    BY <2>1, Replaced, ConcatEmptySeq
<1>2. \A t \in Seq(Line) : Scan(t).saw => replaceBlock(t, buildBlock) = Rest(t) \o buildBlock
  BY Replaced
<1> DEFINE once == replaceBlock(text, buildBlock)
           twice == replaceBlock(once, buildBlock)
           removed == replaceBlock(text, <<>>)
<1>3. once \in Seq(Line) /\ Rest(once) = Rest(text) /\ Scan(once).saw
  BY ScanReplaced, BlockIs
<1>4. removed \in Seq(Line) /\ Rest(removed) = Rest(text)
  BY ScanReplaced
<1> HIDE DEF once, removed
<1>5. twice \in Seq(Line) /\ Rest(twice) = Rest(text) /\ Scan(twice).saw
  BY <1>3, ScanReplaced, BlockIs
<1>6. twice = Rest(text) \o buildBlock
  BY <1>2, <1>3
<1> HIDE DEF twice
<1>7. replaceBlock(twice, buildBlock) = twice
  BY <1>2, <1>5, <1>6
<1>8. replaceBlock(once, <<>>) = removed /\ replaceBlock(removed, <<>>) = removed
  BY <1>1, <1>3, <1>4 DEF removed
<1> QED
  BY <1>7, <1>8 DEF once, twice, removed

(* A sequence is a suffix of every one that ends with it.                  *)
LEMMA SuffixOfConcat ==
  ASSUME NEW E, NEW s \in Seq(E), NEW t \in Seq(E)
  PROVE  IsSuffix(t, s \o t)
<1> DEFINE u == s \o t
           m == Len(s)
           n == Len(t)
<1>1. /\ u \in Seq(E) /\ Len(u) = m + n /\ m \in Nat /\ n \in Nat
      /\ \A i \in 1 .. n : u[m + i] = t[i] /\ t[i] \in E
  BY ConcatProperties, LenProperties, ElementOfSeq
<1>2. \A i \in 1 .. m + n : u[i] \in E
  BY <1>1, ElementOfSeq
<1> HIDE DEF u, m, n
<1>3. /\ Len(Reverse(t)) = n /\ Len(Reverse(u)) = m + n
      /\ \A i \in 1 .. n : Reverse(t)[i] = t[n - i + 1] /\ Reverse(u)[i] = u[m + n - i + 1]
  BY <1>1 DEF Reverse, n
<1>4. \A i \in 1 .. n : Reverse(t)[i] = Reverse(u)[i] /\ Reverse(t)[i] \in E
  <2> SUFFICES ASSUME NEW i \in 1 .. n
               PROVE  Reverse(t)[i] = Reverse(u)[i] /\ Reverse(t)[i] \in E
    OBVIOUS
  <2>1. n - i + 1 \in 1 .. n /\ m + n - i + 1 = m + (n - i + 1)
    BY <1>1
  <2>2. Reverse(t)[i] = t[n - i + 1] /\ Reverse(u)[i] = u[m + n - i + 1]
    BY <1>3
  <2>3. u[m + (n - i + 1)] = t[n - i + 1] /\ t[n - i + 1] \in E
    BY <1>1, <2>1
  <2> QED
    BY <2>1, <2>2, <2>3
<1>5. /\ SubSeq(Reverse(t), 1, n) \in Seq(E) /\ Len(SubSeq(Reverse(t), 1, n)) = n
      /\ \A i \in 1 .. n : SubSeq(Reverse(t), 1, n)[i] = Reverse(t)[i]
  BY <1>1, <1>4, SubSeqProperties
<1>6. /\ SubSeq(Reverse(u), 1, n) \in Seq(E) /\ Len(SubSeq(Reverse(u), 1, n)) = n
      /\ \A i \in 1 .. n : SubSeq(Reverse(u), 1, n)[i] = Reverse(u)[i]
  BY <1>1, <1>4, SubSeqProperties
<1>7. SubSeq(Reverse(t), 1, n) = SubSeq(Reverse(u), 1, n)
  BY <1>4, <1>5, <1>6, SeqEqual
<1> QED
  BY <1>1, <1>3, <1>7 DEF IsSuffix, IsPrefix, u

(* What Install writes lists the domains and ends with the block, what     *)
(* Uninstall writes has none.                                              *)
LEMMA ReplacedHasEffect ==
  ASSUME NEW text \in Seq(Line), NEW block \in {buildBlock, <<>>}
  PROVE  LET new == replaceBlock(text, block)
         IN  /\ IsInstalled(new) = (block # <<>>) /\ IsSuffix(block, new)
             /\ ListInstalled(new) = Only(Domains, block)
<1> DEFINE new == replaceBlock(text, block)
<1>1. PICK front \in Seq(Plain) : new = front \o block
  BY Replaced
<1>2. /\ Entries \in Seq(Domains) /\ Entries \in Seq(Line)
      /\ buildBlock = Append(<<BlockStart>> \o Entries, BlockEnd)
      /\ buildBlock \in Seq(Line) /\ buildBlock # <<>> /\ buildBlock[1] = BlockStart
  BY BlockIs, SeqMonotonic DEF Line
<1>3. front \in Seq(Line) /\ block \in Seq(Line) /\ BlockStart \notin ToSet(front)
  <2>1. front \in Seq(Line)
    BY SeqMonotonic DEF Plain
  <2>2. \A i \in DOMAIN front : front[i] \in Plain
    BY ElementOfSeq, LenProperties
  <2> QED
    BY <1>2, <2>1, <2>2, EmptySeq DEF ToSet, Plain
<1>4. IsSuffix(block, new)
  BY <1>1, <1>3, SuffixOfConcat
<1>5. IsInstalled(new) = (block # <<>>)
  <2>1. CASE block = <<>>
    <3>1. new = front
      BY <1>1, <1>3, <2>1, ConcatEmptySeq
    <3> QED
      BY <1>3, <2>1, <3>1 DEF IsInstalled
  <2>2. CASE block = buildBlock
    <3> DEFINE k == Len(front) + 1
    <3>1. Len(block) \in Nat \ {0} /\ Len(front) \in Nat
      BY <1>2, <1>3, <2>2, LenProperties, EmptySeq
    <3>2. new \in Seq(Line) /\ k \in 1 .. Len(new) /\ new[k] = block[1]
      BY <1>1, <1>3, <3>1, ConcatProperties
    <3>3. k \in DOMAIN new /\ new[k] = BlockStart
      BY <1>2, <2>2, <3>2, LenProperties
    <3> HIDE DEF new, k
    <3>4. BlockStart \in ToSet(new)
      BY <3>3 DEF ToSet
    <3> QED
      BY <1>2, <2>2, <3>4 DEF IsInstalled
  <2> QED
    BY <2>1, <2>2
<1>6. ListInstalled(new) = Only(Domains, block)
  <2>1. Scan(new).inside = IF block # <<>> THEN Entries ELSE <<>>
    BY ScanReplaced
  <2> HIDE DEF new
  <2>2. /\ Domains \subseteq Line \ {Blank}
        /\ BlockStart \in Line \ Domains /\ BlockEnd \in Line \ Domains
    BY HostsAssumption DEF Line
  <2>3. CASE block = <<>>
    <3>1. Only(Line \ {Blank}, <<>>) = <<>> /\ Only(Domains, <<>>) = <<>>
      BY OnlyProperties, EmptySeq
    <3> QED
      BY <2>1, <2>3, <3>1 DEF ListInstalled
  <2>4. CASE block = buildBlock
    <3>1. Only(Line \ {Blank}, Entries) = Entries /\ Only(Domains, Entries) = Entries
      BY <1>2, <2>2, OnlyAllOrNone
    <3>2. Only(Domains, <<BlockStart>>) = <<>>
      BY <2>2, OnlyOne
    <3> DEFINE t == <<BlockStart>> \o Entries
    <3>3. t \in Seq(Line) /\ Only(Domains, t) = Entries
      <4>1. <<BlockStart>> \in Seq(Line)
        BY <2>2
      <4>2. Only(Domains, t) = <<>> \o Entries
        <5> DEFINE b == <<BlockStart>>
        <5>1. b \in Seq(Line) /\ Only(Domains, b) = <<>>
          BY <3>2, <4>1
        <5> HIDE DEF b
        <5>2. Only(Domains, b \o Entries) = Only(Domains, b) \o Only(Domains, Entries)
          BY <1>2, <5>1, OnlyConcat
        <5> QED
          BY <3>1, <5>1, <5>2 DEF b
      <4> QED
        BY <1>2, <4>1, <4>2, ConcatProperties, ConcatEmptySeq
    <3> HIDE DEF t
    <3>4. Only(Domains, Append(t, BlockEnd)) = Only(Domains, t)
      BY <2>2, <3>3, OnlyProperties
    <3> QED
      BY <1>2, <2>1, <2>4, <3>1, <3>3, <3>4 DEF ListInstalled, t
  <2> QED
    BY <2>3, <2>4
<1> QED
  BY <1>4, <1>5, <1>6

-----------------------------------------------------------------------------
(* Whether a start has been met and no end since.                          *)
Opened(text) ==
  \E j \in 1 .. Len(text) :
    text[j] = BlockStart /\ \A k \in j + 1 .. Len(text) : text[k] # BlockEnd

LEMMA OpenedAppend ==
  ASSUME NEW text \in Seq(Line), NEW l \in Line
  PROVE  /\ Opened(Append(text, l)) <=> l = BlockStart \/ (l # BlockEnd /\ Opened(text))
         /\ Enclosed(Append(text, l), Len(text) + 1) <=> l = BlockStart \/ Opened(text)
         /\ \A k \in 1 .. Len(text) : Enclosed(Append(text, l), k) <=> Enclosed(text, k)
<1> DEFINE t == Append(text, l)
           n == Len(text)
<1>1. /\ t \in Seq(Line) /\ Len(t) = n + 1 /\ n \in Nat /\ t[n + 1] = l
      /\ \A i \in 1 .. n : t[i] = text[i]
  BY AppendProperties, LenProperties
<1> HIDE DEF t, n
<1>2. Opened(t) <=> l = BlockStart \/ (l # BlockEnd /\ Opened(text))
  <2>1. ASSUME Opened(t), l # BlockStart PROVE l # BlockEnd /\ Opened(text)
    <3>1. PICK j \in 1 .. n + 1 : t[j] = BlockStart /\ \A k \in j + 1 .. n + 1 : t[k] # BlockEnd
      BY <1>1, <2>1 DEF Opened
    <3>2. j \in 1 .. n
      BY <1>1, <2>1, <3>1
    <3>3. l # BlockEnd
      BY <1>1, <3>1, <3>2
    <3>4. text[j] = BlockStart /\ \A k \in j + 1 .. n : text[k] # BlockEnd
      BY <1>1, <3>1, <3>2
    <3> QED
      BY <3>2, <3>3, <3>4 DEF Opened, n
  <2>2. ASSUME l = BlockStart PROVE Opened(t)
    BY <1>1, <2>2 DEF Opened
  <2>3. ASSUME l # BlockEnd, Opened(text) PROVE Opened(t)
    <3>1. PICK j \in 1 .. n : text[j] = BlockStart /\ \A k \in j + 1 .. n : text[k] # BlockEnd
      BY <2>3 DEF Opened, n
    <3>2. t[j] = BlockStart /\ \A k \in j + 1 .. n + 1 : t[k] # BlockEnd
      BY <1>1, <2>3, <3>1
    <3> QED
      BY <1>1, <3>1, <3>2 DEF Opened
  <2> QED
    BY <2>1, <2>2, <2>3
<1>3. Enclosed(t, n + 1) <=> l = BlockStart \/ Opened(text)
  <2>1. ASSUME Enclosed(t, n + 1), l # BlockStart PROVE Opened(text)
    <3>1. PICK j \in 1 .. n + 1 : t[j] = BlockStart /\ \A k \in j + 1 .. (n + 1) - 1 : t[k] # BlockEnd
      BY <2>1 DEF Enclosed
    <3>2. j \in 1 .. n /\ (n + 1) - 1 = n
      BY <1>1, <2>1, <3>1
    <3>3. text[j] = BlockStart /\ \A k \in j + 1 .. n : text[k] # BlockEnd
      BY <1>1, <3>1, <3>2
    <3> QED
      BY <3>2, <3>3 DEF Opened, n
  <2>2. ASSUME l = BlockStart PROVE Enclosed(t, n + 1)
    BY <1>1, <2>2 DEF Enclosed
  <2>3. ASSUME Opened(text) PROVE Enclosed(t, n + 1)
    <3>1. PICK j \in 1 .. n : text[j] = BlockStart /\ \A k \in j + 1 .. n : text[k] # BlockEnd
      BY <2>3 DEF Opened, n
    <3>2. t[j] = BlockStart /\ \A k \in j + 1 .. (n + 1) - 1 : t[k] # BlockEnd
      BY <1>1, <3>1
    <3> QED
      BY <1>1, <3>1, <3>2 DEF Enclosed
  <2> QED
    BY <2>1, <2>2, <2>3
<1>4. ASSUME NEW k \in 1 .. n PROVE Enclosed(t, k) <=> Enclosed(text, k)
  <2>1. \A i \in 1 .. k : t[i] = text[i]
    BY <1>1
  <2> QED
    BY <1>1, <2>1, SMTT(30) DEF Enclosed
<1> QED
  BY <1>2, <1>3, <1>4 DEF t, n

(* The loop keeps the lines of others that no block encloses.              *)
LEMMA KeptIsOutside ==
  ASSUME NEW text \in Seq(Line)
  PROVE  Only(Others, Scan(text).kept) = Only(Others, OutsideOf(text))
<1> DEFINE P == {t \in Seq(Line) :
                   /\ OutsideOf(t) \in Seq(Line)
                   /\ Scan(t).in <=> Opened(t)
                   /\ Only(Others, Scan(t).kept) = Only(Others, OutsideOf(t))}
<1>1. <<>> \in P
  <2>1. OutsideOf(<<>>) = <<>>
    BY DEF OutsideOf
  <2>2. ~Opened(<<>>)
    BY DEF Opened
  <2>3. Scan(<<>>) = Scanning /\ Scanning.in = FALSE /\ Scanning.kept = <<>>
    BY ScanProperties DEF Scanning
  <2>4. <<>> \in Seq(Line) /\ Only(Others, <<>>) = <<>>
    BY EmptySeq, OnlyEmpty
  <2> QED
    BY <2>1, <2>2, <2>3, <2>4
<1>2. ASSUME NEW t \in Seq(Line), NEW l \in Line, t \in P PROVE Append(t, l) \in P
  <2> DEFINE u == Append(t, l)
             outer == IF l = BlockStart \/ Opened(t) THEN Blank ELSE l
  <2>1. u \in Seq(Line) /\ Scan(u) = ScanLine(Scan(t), l) /\ Scan(t) \in ScanState
    BY ScanProperties, AppendProperties
  <2>2. OutsideOf(u) = Append(OutsideOf(t), outer) /\ outer \in Line
    <3>1. /\ Len(u) = Len(t) + 1 /\ Len(t) \in Nat /\ u[Len(t) + 1] = l
          /\ \A i \in 1 .. Len(t) : u[i] = t[i]
      BY AppendProperties, LenProperties
    <3>2. DOMAIN u = 1 .. Len(t) + 1 /\ DOMAIN t = 1 .. Len(t)
      BY <2>1, <3>1, LenProperties
    <3>3. outer \in Line /\ OutsideOf(t) \in Seq(Line)
      BY <1>2 DEF Line
    <3>4. Len(OutsideOf(t)) = Len(t)
      BY <3>1, <3>2, <3>3, LenProperties DEF OutsideOf
    <3>5. /\ Append(OutsideOf(t), outer) \in Seq(Line) /\ Len(Append(OutsideOf(t), outer)) = Len(t) + 1
          /\ Append(OutsideOf(t), outer)[Len(t) + 1] = outer
          /\ \A i \in 1 .. Len(t) : Append(OutsideOf(t), outer)[i] = OutsideOf(t)[i]
      BY <3>3, <3>4, AppendProperties
    <3>6. /\ Enclosed(u, Len(t) + 1) <=> l = BlockStart \/ Opened(t)
          /\ \A k \in 1 .. Len(t) : Enclosed(u, k) <=> Enclosed(t, k)
      BY OpenedAppend
    <3> HIDE DEF u, outer
    <3>7. \A i \in 1 .. Len(t) + 1 : Append(OutsideOf(t), outer)[i] = OutsideOf(u)[i]
      <4> SUFFICES ASSUME NEW i \in 1 .. Len(t) + 1
                   PROVE  Append(OutsideOf(t), outer)[i] = OutsideOf(u)[i]
        OBVIOUS
      <4>1. OutsideOf(u)[i] = IF Enclosed(u, i) THEN Blank ELSE u[i]
        BY <3>2 DEF OutsideOf
      <4>2. CASE i = Len(t) + 1
        BY <3>1, <3>5, <3>6, <4>1, <4>2 DEF outer
      <4>3. CASE i \in 1 .. Len(t)
        <5>1. OutsideOf(t)[i] = IF Enclosed(t, i) THEN Blank ELSE t[i]
          BY <3>2, <4>3 DEF OutsideOf
        <5>2. Append(OutsideOf(t), outer)[i] = OutsideOf(t)[i]
          BY <3>5, <4>3
        <5>3. u[i] = t[i] /\ (Enclosed(u, i) <=> Enclosed(t, i))
          BY <3>1, <3>6, <4>3
        <5> QED
          BY <4>1, <5>1, <5>2, <5>3
      <4>4. i = Len(t) + 1 \/ i \in 1 .. Len(t)
        BY <3>1
      <4> QED
        BY <4>2, <4>3, <4>4
    <3>8. OutsideOf(u) = Append(OutsideOf(t), outer)
      <4>1. OutsideOf(u) = [i \in 1 .. Len(t) + 1 |-> OutsideOf(u)[i]]
        BY <3>2 DEF OutsideOf
      <4>2. Append(OutsideOf(t), outer) =
              [i \in 1 .. Len(t) + 1 |-> Append(OutsideOf(t), outer)[i]]
        BY <3>5, LenProperties
      <4> QED
        BY <3>7, <4>1, <4>2
    <3> QED
      BY <3>3, <3>8
  <2>3. OutsideOf(u) \in Seq(Line)
    BY <1>2, <2>2, AppendProperties
  <2>4. Scan(u).in <=> Opened(u)
    BY <1>2, <2>1, OpenedAppend, HostsAssumption DEF ScanLine, ScanState
  <2>5. Only(Others, OutsideOf(u)) =
          IF outer \in Others THEN Append(Only(Others, OutsideOf(t)), outer)
          ELSE Only(Others, OutsideOf(t))
    <3> DEFINE o == OutsideOf(t)
    <3>1. o \in Seq(Line)
      BY <1>2
    <3> HIDE DEF o, outer
    <3>2. Only(Others, Append(o, outer)) =
            IF outer \in Others THEN Append(Only(Others, o), outer) ELSE Only(Others, o)
      BY <2>2, <3>1, OnlyProperties
    <3> QED
      BY <2>2, <3>2 DEF o
  <2>6. /\ Scan(t).kept \in Seq(Line)
        /\ Only(Others, Append(Scan(t).kept, l)) =
             IF l \in Others THEN Append(Only(Others, Scan(t).kept), l)
             ELSE Only(Others, Scan(t).kept)
    <3>1. Scan(t).kept \in Seq(Line)
      BY <2>1, SeqMonotonic DEF ScanState, Plain
    <3> DEFINE o == Scan(t).kept
    <3> HIDE DEF o
    <3>2. o \in Seq(Line)
      BY <3>1 DEF o
    <3>3. Only(Others, Append(o, l)) =
            IF l \in Others THEN Append(Only(Others, o), l) ELSE Only(Others, o)
      BY <3>2, OnlyProperties
    <3> QED
      BY <3>1, <3>3 DEF o
  <2>7. Scan(u).kept = IF l = BlockStart \/ Opened(t) THEN Scan(t).kept ELSE Append(Scan(t).kept, l)
    BY <1>2, <2>1 DEF ScanLine, ScanState
  <2>8. Only(Others, Scan(u).kept) = Only(Others, OutsideOf(u))
    <3>1. Blank \notin Others
      BY HostsAssumption
    <3>2. Only(Others, Scan(t).kept) = Only(Others, OutsideOf(t))
      BY <1>2
    <3> QED
      BY <2>5, <2>6, <2>7, <3>1, <3>2
  <2> QED
    BY <2>1, <2>3, <2>4, <2>8
<1>3. Seq(Line) \subseteq P
  <2> HIDE DEF P
  <2> QED
    BY <1>1, <1>2, SeqSetInduction
<1>4. text \in P
  BY <1>3
<1> QED
  BY <1>4

(* No line of others is in the block.                                      *)
LEMMA NothingOfOthers ==
  ASSUME NEW block \in {buildBlock, <<>>} PROVE Only(Others, block) = <<>>
<1> DEFINE E == Line \ Others
<1>1. block \in Seq(E)
  <2>1. /\ Entries \in Seq(E) /\ <<BlockStart>> \in Seq(E) /\ BlockEnd \in E
    BY BlockIs, SeqMonotonic, HostsAssumption DEF Line
  <2>2. Append(<<BlockStart>> \o Entries, BlockEnd) \in Seq(E)
    <3> HIDE DEF E
    <3> QED
      BY <2>1, ConcatProperties, AppendProperties
  <2> QED
    BY <2>2, BlockIs, EmptySeq
<1>2. E \cap Others = {}
  OBVIOUS
<1> HIDE DEF E
<1> QED
  BY <1>1, <1>2, OnlyAllOrNone

(* An edit keeps what the loop keeps of them, in their order.              *)
LEMMA ReplacedKeepsKept ==
  ASSUME NEW text \in Seq(Line), NEW block \in {buildBlock, <<>>}
  PROVE  Only(Others, replaceBlock(text, block)) = Only(Others, Scan(text).kept)
<1>1. PICK front \in Seq(Plain) :
         /\ replaceBlock(text, block) = front \o block
         /\ Only(Others, front) = Only(Others, Scan(text).kept)
  BY Replaced
<1>2. block \in Seq(Line) /\ front \in Seq(Line)
  BY BlockIs, EmptySeq, SeqMonotonic DEF Plain
<1>3. Only(Others, front \o block) = Only(Others, front) \o <<>>
  <2>1. Only(Others, front \o block) = Only(Others, front) \o Only(Others, block)
    BY <1>2, OnlyConcat, ZenonT(40)
  <2>2. Only(Others, block) = <<>>
    BY NothingOfOthers
  <2> QED
    BY <2>1, <2>2
<1>4. Only(Others, front) \o <<>> = Only(Others, front)
  <2>1. Only(Others, front) \in Seq(Line)
    BY <1>2, OnlyProperties
  <2> QED
    BY <2>1, ConcatEmptySeq
<1> QED
  BY <1>1, <1>3, <1>4

(* Which are those that no block encloses.                                 *)
LEMMA ReplacedKeepsOthers ==
  ASSUME NEW text \in Seq(Line), NEW block \in {buildBlock, <<>>}
  PROVE  Only(Others, replaceBlock(text, block)) = Only(Others, OutsideOf(text))
BY ReplacedKeepsKept, KeptIsOutside

-----------------------------------------------------------------------------
(***************************************************************************)
(* Whole texts: lines of others around the block, or lines of others only. *)
(***************************************************************************)
LEMMA ForeignLines ==
  /\ Foreign \subseteq Plain /\ Foreign \subseteq Line /\ Plain \subseteq Line
  /\ Blank \in Foreign
  /\ \A s \in Seq(Foreign) : s \in Seq(Plain) /\ s \in Seq(Line)
<1>1. Foreign \subseteq Plain /\ Foreign \subseteq Line /\ Plain \subseteq Line /\ Blank \in Foreign
  BY HostsAssumption DEF Foreign, Plain, Line
<1> QED
  BY <1>1, SeqMonotonic

LEMMA Lines ==
  /\ \A s, t \in Seq(Line) : s \o t \in Seq(Line)
  /\ \A s, t, u \in Seq(Line) : s \o (t \o u) = (s \o t) \o u
  /\ \A s, t \in Seq(Line), l \in Line :
        Append(t, l) \in Seq(Line) /\ s \o Append(t, l) = Append(s \o t, l)
<1>1. \A s, t \in Seq(Line) : s \o t \in Seq(Line)
  BY ConcatProperties
<1>2. \A s, t, u \in Seq(Line) : s \o (t \o u) = (s \o t) \o u
  BY ConcatAssociative, SMTT(30)
<1>3. \A s, t \in Seq(Line), l \in Line :
         Append(t, l) \in Seq(Line) /\ s \o Append(t, l) = Append(s \o t, l)
  BY ConcatAppend
<1> QED
  BY <1>1, <1>2, <1>3

(* The beginning and the end of a text are one of its beginnings and one   *)
(* of its ends.                                                            *)
LEMMA PartsOfConcat ==
  ASSUME NEW E, NEW s \in Seq(E), NEW t \in Seq(E)
  PROVE  s \in Prefixes(s \o t) /\ t \in Suffixes(s \o t)
<1> DEFINE u == s \o t
           m == Len(s)
           n == Len(t)
<1>1. /\ u \in Seq(E) /\ Len(u) = m + n /\ m \in Nat /\ n \in Nat
      /\ \A i \in 1 .. m : u[i] = s[i] /\ s[i] \in E
      /\ \A i \in 1 .. n : u[m + i] = t[i] /\ t[i] \in E
  BY ConcatProperties, LenProperties, ElementOfSeq
<1>2. \A i \in 1 .. m + n : u[i] \in E
  BY <1>1, ElementOfSeq
<1> HIDE DEF u
<1>3. SubSeq(u, 1, m) = s
  <2> DEFINE v == SubSeq(u, 1, m)
  <2>1. \A i \in 1 .. m : u[i] \in E
    BY <1>1
  <2>2. v \in Seq(E) /\ Len(v) = (IF 1 <= m THEN m - 1 + 1 ELSE 0) /\ \A i \in 1 .. m - 1 + 1 : v[i] = u[1 + i - 1]
    BY <1>1, <2>1, SubSeqProperties
  <2>3. Len(v) = m /\ \A i \in 1 .. m : v[i] = u[i]
    BY <1>1, <2>2
  <2> HIDE DEF v
  <2>4. v = s
    BY <1>1, <2>2, <2>3, SeqEqual
  <2> QED
    BY <2>4 DEF v
<1>4. s \in Prefixes(u)
  <2>1. m \in 0 .. Len(u)
    BY <1>1
  <2> QED
    BY <1>3, <2>1 DEF Prefixes
<1>5. CASE n = 0
  <2>1. t = <<>>
    BY <1>5, EmptySeq
  <2>2. t \in Suffixes(u)
    BY <2>1 DEF Suffixes
  <2> QED
    BY <1>4, <2>2 DEF u
<1>6. CASE n # 0
  <2> DEFINE v == SubSeq(u, m + 1, m + n)
  <2>1. \A i \in m + 1 .. m + n : u[i] \in E
    BY <1>1, <1>2
  <2>2. /\ v \in Seq(E) /\ Len(v) = (IF m + 1 <= m + n THEN m + n - (m + 1) + 1 ELSE 0)
        /\ \A i \in 1 .. m + n - (m + 1) + 1 : v[i] = u[m + 1 + i - 1]
    BY <1>1, <2>1, SubSeqProperties
  <2>3. Len(v) = n /\ \A i \in 1 .. n : v[i] = u[m + i]
    BY <1>1, <1>6, <2>2
  <2> HIDE DEF v
  <2>4. v = t
    BY <1>1, <2>2, <2>3, SeqEqual
  <2>5. m + 1 \in 1 .. Len(u)
    BY <1>1, <1>6
  <2>6. t \in Suffixes(u)
    BY <1>1, <2>4, <2>5 DEF Suffixes, v
  <2> QED
    BY <1>4, <2>6 DEF u
<1> QED
  BY <1>5, <1>6

LEMMA PartText ==
  ASSUME NEW E, NEW text \in Seq(E)
  PROVE  \A part \in Prefixes(text) \cup Suffixes(text) : part \in Seq(E)
<1>1. Len(text) \in Nat /\ \A i \in 1 .. Len(text) : text[i] \in E
  BY LenProperties, ElementOfSeq
<1>2. \A n \in 0 .. Len(text) : SubSeq(text, 1, n) \in Seq(E)
  BY <1>1, SubSeqProperties
<1>3. \A n \in 1 .. Len(text) : SubSeq(text, n, Len(text)) \in Seq(E)
  BY <1>1, SubSeqProperties
<1> QED
  BY <1>2, <1>3, EmptySeq DEF Prefixes, Suffixes

LEMMA LinesOf == ASSUME NEW E, NEW F, NEW s \in Seq(E) PROVE ToSet(s) \subseteq F <=> s \in Seq(F)
<1>1. s \in [1 .. Len(s) -> E] /\ Len(s) \in Nat /\ DOMAIN s = 1 .. Len(s)
  BY LenProperties
<1>2. ASSUME ToSet(s) \subseteq F PROVE s \in Seq(F)
  <2>1. \A i \in 1 .. Len(s) : s[i] \in F
    BY <1>1, <1>2 DEF ToSet
  <2>2. s \in [1 .. Len(s) -> F]
    BY <1>1, <2>1
  <2> QED
    BY <1>1, <2>2
<1>3. ASSUME s \in Seq(F) PROVE ToSet(s) \subseteq F
  BY <1>1, <1>3, ElementOfSeq DEF ToSet
<1> QED
  BY <1>2, <1>3

LEMMA WholeIs ==
  ASSUME NEW text \in Seq(Line)
  PROVE  Whole(text) <=> \E above, below \in Seq(Foreign), block \in {buildBlock, <<>>} :
                            text = above \o block \o below
<1>1. ASSUME Whole(text)
      PROVE  \E above, below \in Seq(Foreign), block \in {buildBlock, <<>>} :
                text = above \o block \o below
  <2>1. PICK above \in Prefixes(text), below \in Suffixes(text), block \in {buildBlock, <<>>} :
          /\ text = above \o block \o below
          /\ ToSet(above) \cup ToSet(below) \subseteq Foreign
    BY <1>1 DEF Whole
  <2>2. above \in Seq(Line) /\ below \in Seq(Line)
    BY PartText
  <2>3. above \in Seq(Foreign) /\ below \in Seq(Foreign)
    BY <2>1, <2>2, LinesOf
  <2> QED
    BY <2>1, <2>3
<1>2. ASSUME NEW above \in Seq(Foreign), NEW below \in Seq(Foreign),
             NEW block \in {buildBlock, <<>>}, text = above \o block \o below
      PROVE  Whole(text)
  <2>1. above \in Seq(Line) /\ below \in Seq(Line) /\ block \in Seq(Line)
    BY ForeignLines, BlockIs, EmptySeq
  <2>2. above \o block \in Seq(Line) /\ block \o below \in Seq(Line)
        /\ (above \o block) \o below = above \o (block \o below)
    BY <2>1, Lines, Zenon
  <2>3. above \in Prefixes(text) /\ below \in Suffixes(text)
    BY <1>2, <2>1, <2>2, PartsOfConcat
  <2>4. ToSet(above) \subseteq Foreign /\ ToSet(below) \subseteq Foreign
    BY LinesOf
  <2> QED
    BY <1>2, <2>3, <2>4 DEF Whole
<1> QED
  BY <1>1, <1>2

(* Outside a block, the loop keeps every line it meets.                    *)
LEMMA ScanAfter ==
  ASSUME NEW text \in Seq(Line), NEW saw, NEW kept \in Seq(Plain), NEW inside,
         Scan(text) = Outcome(saw, kept, inside), NEW below \in Seq(Plain)
  PROVE  Scan(text \o below) = Outcome(saw, kept \o below, inside)
<1> DEFINE P == {t \in Seq(Plain) : Scan(text \o t) = Outcome(saw, kept \o t, inside)}
<1>0. Plain \subseteq Line /\ \A t \in Seq(Plain) : t \in Seq(Line)
  BY ForeignLines, SeqMonotonic
<1>1. <<>> \in P
  BY ConcatEmptySeq, EmptySeq
<1>2. ASSUME NEW t \in Seq(Plain), NEW e \in Plain, t \in P PROVE Append(t, e) \in P
  <2>1. Append(t, e) \in Seq(Plain) /\ e \in Line /\ e # BlockStart /\ t \in Seq(Line)
    BY <1>0, AppendProperties DEF Plain
  <2>2. /\ text \o t \in Seq(Line) /\ text \o Append(t, e) = Append(text \o t, e)
        /\ kept \o Append(t, e) = Append(kept \o t, e)
    <3>1. text \o t \in Seq(Line) /\ text \o Append(t, e) = Append(text \o t, e)
      BY <2>1, Lines
    <3>2. kept \o Append(t, e) = Append(kept \o t, e)
      BY ConcatAppend
    <3> QED
      BY <3>1, <3>2
  <2>3. Scan(Append(text \o t, e)) = ScanLine(Scan(text \o t), e)
    <3> DEFINE u == text \o t
    <3>1. u \in Seq(Line)
      BY <2>2
    <3> HIDE DEF u
    <3>2. Scan(Append(u, e)) = ScanLine(Scan(u), e)
      BY <2>1, <3>1, ScanProperties
    <3> QED
      BY <3>2 DEF u
  <2>4. Scan(text \o t) = Outcome(saw, kept \o t, inside)
    BY <1>2
  <2>5. ScanLine(Outcome(saw, kept \o t, inside), e) = Outcome(saw, Append(kept \o t, e), inside)
    BY <2>1 DEF ScanLine, Outcome
  <2> QED
    BY <2>1, <2>2, <2>3, <2>4, <2>5
<1>3. Seq(Plain) \subseteq P
  <2> HIDE DEF P
  <2> QED
    BY <1>1, <1>2, SeqSetInduction
<1>4. below \in P
  BY <1>3
<1> QED
  BY <1>4

LEMMA WholeScanned ==
  ASSUME NEW above \in Seq(Foreign), NEW below \in Seq(Foreign),
         NEW block \in {buildBlock, <<>>}
  PROVE  /\ above \o block \o below \in Seq(Line)
         /\ above \o below \in Seq(Foreign)
         /\ Scan(above \o block \o below) =
              Outcome(block # <<>>, above \o below, IF block # <<>> THEN Entries ELSE <<>>)
<1>1. /\ above \in Seq(Plain) /\ below \in Seq(Plain)
      /\ above \in Seq(Line) /\ below \in Seq(Line) /\ block \in Seq(Line)
  BY ForeignLines, BlockIs, EmptySeq
<1>2. above \o below \in Seq(Foreign) /\ above \o block \in Seq(Line)
      /\ (above \o block) \o below \in Seq(Line)
  <2>1. above \o below \in Seq(Foreign)
    BY ConcatProperties
  <2>2. above \o block \in Seq(Line)
    BY <1>1, ConcatProperties
  <2> QED
    BY <1>1, <2>1, <2>2, ConcatProperties
<1>3. Scan(above \o block) =
        Outcome(block # <<>>, above, IF block # <<>> THEN Entries ELSE <<>>)
  <2>1. CASE block = buildBlock
    BY <1>1, <2>1, ScanBlock, BlockIs
  <2>2. CASE block = <<>>
    BY <1>1, <2>2, ScanPlain, ConcatEmptySeq
  <2> QED
    BY <2>1, <2>2
<1> DEFINE t == above \o block
           inside == IF block # <<>> THEN Entries ELSE <<>>
<1>4. t \in Seq(Line) /\ Scan(t) = Outcome(block # <<>>, above, inside)
  BY <1>2, <1>3
<1> HIDE DEF t, inside
<1>5. Scan(t \o below) = Outcome(block # <<>>, above \o below, inside)
  BY <1>1, <1>4, ScanAfter
<1> QED
  BY <1>2, <1>5 DEF t, inside

(* A whole text lists all domains or none.                                 *)
LEMMA WholeLists ==
  ASSUME NEW text \in Seq(Line), Whole(text)
  PROVE  ListInstalled(text) = IF IsInstalled(text) THEN Only(Domains, buildBlock) ELSE <<>>
<1>1. PICK above \in Seq(Foreign), below \in Seq(Foreign), block \in {buildBlock, <<>>} :
         text = above \o block \o below
  BY WholeIs
<1>2. Scan(text).inside = IF block # <<>> THEN Entries ELSE <<>>
  <2>1. Scan(above \o block \o below) =
          Outcome(block # <<>>, above \o below, IF block # <<>> THEN Entries ELSE <<>>)
    BY WholeScanned
  <2> QED
    BY <1>1, <2>1 DEF Outcome
<1>3. Only(Line \ {Blank}, Entries) = Only(Domains, buildBlock)
  <2> DEFINE new == replaceBlock(<<>>, buildBlock)
  <2>1. ListInstalled(new) = Only(Domains, buildBlock) /\ Scan(new).inside = Entries
    BY ReplacedHasEffect, ScanReplaced, BlockIs, EmptySeq
  <2> HIDE DEF new
  <2> QED
    BY <2>1 DEF ListInstalled
<1>4. /\ above \in Seq(Line) /\ below \in Seq(Line) /\ block \in Seq(Line)
      /\ BlockStart \notin Foreign
  BY ForeignLines, BlockIs, EmptySeq, HostsAssumption DEF Foreign
<1>5. CASE block = <<>>
  <2>1. text = above \o below
    BY <1>1, <1>4, <1>5, ConcatEmptySeq
  <2>2. text \in Seq(Foreign)
    BY <2>1, ConcatProperties
  <2>3. ~IsInstalled(text)
    BY <1>4, <2>2, LinesOf DEF IsInstalled
  <2> QED
    BY <1>2, <1>5, <2>3, OnlyEmpty DEF ListInstalled
<1>6. CASE block = buildBlock
  <2> DEFINE k == Len(above) + 1
  <2>1. /\ Len(above) \in Nat /\ Len(block) \in Nat \ {0} /\ Len(below) \in Nat
        /\ above \o block \in Seq(Line) /\ block[1] = BlockStart
    BY <1>4, <1>6, BlockIs, LenProperties, EmptySeq, ConcatProperties
  <2>2. /\ k \in 1 .. Len(above \o block) /\ (above \o block)[k] = BlockStart
        /\ Len(above \o block) \in Nat
    BY <1>4, <2>1, ConcatProperties
  <2>3. k \in 1 .. Len(text) /\ text[k] = BlockStart
    <3> DEFINE t == above \o block
    <3>1. t \in Seq(Line) /\ k \in 1 .. Len(t) /\ t[k] = BlockStart /\ Len(t) \in Nat /\ text = t \o below
      BY <1>1, <2>1, <2>2
    <3> HIDE DEF t, k
    <3> QED
      BY <1>4, <2>1, <3>1, ConcatProperties
  <2>4. DOMAIN text = 1 .. Len(text)
    BY LenProperties
  <2>5. IsInstalled(text)
    BY <2>3, <2>4 DEF IsInstalled, ToSet
  <2> QED
    BY <1>2, <1>3, <1>6, <2>5, BlockIs DEF ListInstalled
<1> QED
  BY <1>5, <1>6

(* An edit of a whole text leaves one.                                     *)
LEMMA WholeReplaced ==
  ASSUME NEW text \in Seq(Line), Whole(text), NEW wanted \in {buildBlock, <<>>}
  PROVE  Whole(replaceBlock(text, wanted))
<1>1. PICK above \in Seq(Foreign), below \in Seq(Foreign), block \in {buildBlock, <<>>} :
         text = above \o block \o below
  BY WholeIs
<1>2. Scan(text).kept \in Seq(Foreign)
  <2>1. /\ above \o below \in Seq(Foreign)
        /\ Scan(above \o block \o below) =
             Outcome(block # <<>>, above \o below, IF block # <<>> THEN Entries ELSE <<>>)
    BY WholeScanned
  <2>2. Scan(text).kept = above \o below
    BY <1>1, <2>1 DEF Outcome
  <2> QED
    BY <2>1, <2>2
<1>3. Rest(text) \in Seq(Foreign)
  <2>1. TrimBlanks(Scan(text).kept) \in Seq(Foreign)
    BY <1>2, TrimProperties
  <2>2. <<Blank>> \in Seq(Foreign) /\ <<>> \in Seq(Foreign)
    BY ForeignLines
  <2> QED
    BY <2>1, <2>2 DEF Rest
<1> DEFINE gap == wanted # <<>> /\ ~Scan(text).saw /\ Rest(text) # <<>>
           front == Rest(text) \o (IF gap THEN <<Blank>> ELSE <<>>)
           new == replaceBlock(text, wanted)
<1>4. front \in Seq(Foreign)
  <2>1. (IF gap THEN <<Blank>> ELSE <<>>) \in Seq(Foreign)
    BY ForeignLines
  <2> HIDE DEF gap
  <2> QED
    BY <1>3, <2>1, ConcatProperties
<1>5. new = front \o wanted /\ new \in Seq(Line)
  BY ScanReplaced DEF replaceBlock
<1> HIDE DEF front, new
<1>6. new \o <<>> = new /\ <<>> \in Seq(Foreign)
  BY <1>5, ConcatEmptySeq, EmptySeq
<1>7. new = front \o wanted \o <<>>
  BY <1>5, <1>6
<1>8. Whole(new)
  BY <1>4, <1>5, <1>6, <1>7, WholeIs
<1> QED
  BY <1>8 DEF new

(* A line of others at either end of a whole text leaves one.              *)
LEMMA WholeAdded ==
  ASSUME NEW text \in Seq(Line), Whole(text), NEW line \in Foreign
  PROVE  Whole(<<line>> \o text) /\ Whole(Append(text, line))
<1>1. PICK above \in Seq(Foreign), below \in Seq(Foreign), block \in {buildBlock, <<>>} :
         text = above \o block \o below
  BY WholeIs
<1> DEFINE one == <<line>>
           first == one \o above
           last == Append(below, line)
<1>2. /\ above \in Seq(Line) /\ below \in Seq(Line) /\ block \in Seq(Line)
      /\ one \in Seq(Foreign) /\ one \in Seq(Line) /\ line \in Line
  <2>1. one \in Seq(Foreign)
    OBVIOUS
  <2>2. block \in Seq(Line)
    BY BlockIs, EmptySeq
  <2> HIDE DEF one
  <2> QED
    BY <2>1, <2>2, ForeignLines
<1> HIDE DEF one
<1>3. first \in Seq(Foreign) /\ last \in Seq(Foreign)
  BY <1>2, ConcatProperties, AppendProperties
<1>4. above \o block \in Seq(Line) /\ one \o text \in Seq(Line) /\ Append(text, line) \in Seq(Line)
  BY <1>2, ConcatProperties, AppendProperties
<1>5. one \o text = first \o block \o below
  <2>1. one \o ((above \o block) \o below) = (one \o (above \o block)) \o below
    <3> DEFINE t == above \o block
    <3>1. t \in Seq(Line)
      BY <1>4
    <3> HIDE DEF t
    <3>2. one \o (t \o below) = (one \o t) \o below
      <4>1. one \in Seq(Line) /\ below \in Seq(Line)
        BY <1>2
      <4> QED
        BY <3>1, <4>1, Lines, Zenon
    <3> QED
      BY <3>2 DEF t
  <2>2. one \o (above \o block) = (one \o above) \o block
    BY <1>2, Lines, SMTT(30)
  <2> QED
    BY <1>1, <2>1, <2>2
<1>6. Append(text, line) = above \o block \o last
  <2> DEFINE t == above \o block
  <2>1. t \in Seq(Line) /\ text = t \o below
    BY <1>1, <1>4
  <2> HIDE DEF t
  <2>2. t \o Append(below, line) = Append(t \o below, line)
    BY <1>2, <2>1, Lines
  <2> QED
    BY <2>1, <2>2 DEF t
<1> HIDE DEF first, last
<1>7. Whole(one \o text) /\ Whole(Append(text, line))
  BY <1>3, <1>4, <1>5, <1>6, WholeIs
<1> QED
  BY <1>7 DEF one

LEMMA Removed ==
  ASSUME NEW E, NEW text \in Seq(E), NEW i \in 1 .. Len(text)
  PROVE  /\ RemoveAt(text, i) \in Seq(E) /\ Len(text) \in Nat
         /\ Len(RemoveAt(text, i)) = Len(text) - 1
         /\ \A k \in 1 .. Len(text) - 1 :
               RemoveAt(text, i)[k] = IF k < i THEN text[k] ELSE text[k + 1]
<1> DEFINE n == Len(text)
           s == SubSeq(text, 1, i - 1)
           t == SubSeq(text, i + 1, n)
<1>1. n \in Nat /\ i \in 1 .. n /\ \A k \in 1 .. n : text[k] \in E
  BY LenProperties, ElementOfSeq
<1>2. /\ s \in Seq(E) /\ Len(s) = (IF 1 <= i - 1 THEN (i - 1) - 1 + 1 ELSE 0)
      /\ \A k \in 1 .. (i - 1) - 1 + 1 : s[k] = text[1 + k - 1]
  <2>1. \A k \in 1 .. i - 1 : text[k] \in E
    BY <1>1
  <2> QED
    BY <1>1, <2>1, SubSeqProperties
<1>3. /\ t \in Seq(E) /\ Len(t) = (IF i + 1 <= n THEN n - (i + 1) + 1 ELSE 0)
      /\ \A k \in 1 .. n - (i + 1) + 1 : t[k] = text[i + 1 + k - 1]
  <2>1. \A k \in i + 1 .. n : text[k] \in E
    BY <1>1
  <2> QED
    BY <1>1, <2>1, SubSeqProperties
<1>4. RemoveAt(text, i) = s \o t
  BY DEF RemoveAt
<1> HIDE DEF s, t, n
<1>5. /\ Len(s) = i - 1 /\ Len(t) = n - i
      /\ \A k \in 1 .. i - 1 : s[k] = text[k]
      /\ \A k \in 1 .. n - i : t[k] = text[i + k]
  BY <1>1, <1>2, <1>3
<1> DEFINE r == s \o t
<1>6. /\ r \in Seq(E) /\ Len(r) = Len(s) + Len(t)
      /\ \A k \in 1 .. Len(s) + Len(t) : r[k] = IF k <= Len(s) THEN s[k] ELSE t[k - Len(s)]
  BY <1>2, <1>3, ConcatProperties
<1> HIDE DEF r
<1>8. r \in Seq(E) /\ Len(r) = n - 1
  BY <1>1, <1>5, <1>6
<1>9. \A k \in 1 .. n - 1 : r[k] = IF k <= i - 1 THEN s[k] ELSE t[k - (i - 1)]
  <2>1. (i - 1) + (n - i) = n - 1
    BY <1>1
  <2>2. \A k \in 1 .. (i - 1) + (n - i) : r[k] = IF k <= i - 1 THEN s[k] ELSE t[k - (i - 1)]
    <3>1. Len(s) = i - 1 /\ Len(t) = n - i
      BY <1>5
    <3>2. \A k \in 1 .. Len(s) + Len(t) : r[k] = IF k <= Len(s) THEN s[k] ELSE t[k - Len(s)]
      BY <1>6
    <3> QED
      BY <3>1, <3>2, Zenon
  <2> QED
    BY <2>1, <2>2, Zenon
<1>7. \A k \in 1 .. n - 1 : r[k] = IF k < i THEN text[k] ELSE text[k + 1]
  <2> SUFFICES ASSUME NEW k \in 1 .. n - 1
               PROVE  r[k] = IF k < i THEN text[k] ELSE text[k + 1]
    OBVIOUS
  <2>1. CASE k < i
    <3>1. k \in 1 .. i - 1 /\ k <= i - 1
      BY <1>1, <2>1
    <3> QED
      BY <1>5, <1>9, <2>1, <3>1
  <2>2. CASE k >= i
    <3>1. k - (i - 1) \in 1 .. n - i /\ i + (k - (i - 1)) = k + 1 /\ ~(k <= i - 1) /\ ~(k < i)
      BY <1>1, <2>2
    <3>2. r[k] = t[k - (i - 1)]
      BY <1>9, <3>1
    <3>3. t[k - (i - 1)] = text[k + 1]
      BY <1>5, <3>1
    <3> QED
      BY <3>1, <3>2, <3>3
  <2>3. k < i \/ k >= i
    BY <1>1
  <2> QED
    BY <2>1, <2>2, <2>3
<1> QED
  BY <1>1, <1>4, <1>7, <1>8 DEF n, r

(* Removing from a concatenation removes from one of its parts.            *)
LEMMA RemovedFromConcat ==
  ASSUME NEW E, NEW s \in Seq(E), NEW t \in Seq(E)
  PROVE  /\ Len(s) \in Nat /\ Len(t) \in Nat
         /\ \A i \in 1 .. Len(s) : RemoveAt(s \o t, i) = RemoveAt(s, i) \o t
         /\ \A i \in 1 .. Len(t) : RemoveAt(s \o t, Len(s) + i) = s \o RemoveAt(t, i)
<1> DEFINE u == s \o t
           m == Len(s)
           n == Len(t)
<1>1. /\ m \in Nat /\ n \in Nat /\ u \in Seq(E) /\ Len(u) = m + n
      /\ \A k \in 1 .. m + n : u[k] = IF k <= m THEN s[k] ELSE t[k - m]
  BY ConcatProperties, LenProperties
<1>4. \A v \in Seq(E) : \A i \in 1 .. Len(v) :
         /\ RemoveAt(v, i) \in Seq(E) /\ Len(RemoveAt(v, i)) = Len(v) - 1
         /\ \A k \in 1 .. Len(v) - 1 : RemoveAt(v, i)[k] = IF k < i THEN v[k] ELSE v[k + 1]
  BY Removed
<1>5. \A v, w \in Seq(E) :
         /\ v \o w \in Seq(E) /\ Len(v \o w) = Len(v) + Len(w)
         /\ \A k \in 1 .. Len(v) + Len(w) :
               (v \o w)[k] = IF k <= Len(v) THEN v[k] ELSE w[k - Len(v)]
  BY ConcatProperties
<1> HIDE DEF u, m, n
<1>2. ASSUME NEW i \in 1 .. m PROVE RemoveAt(u, i) = RemoveAt(s, i) \o t
  <2> DEFINE a == RemoveAt(u, i)
             r == RemoveAt(s, i)
             b == r \o t
  <2>1. /\ a \in Seq(E) /\ Len(a) = m + n - 1
        /\ \A k \in 1 .. m + n - 1 : a[k] = IF k < i THEN u[k] ELSE u[k + 1]
    <3>1. i \in 1 .. Len(u)
      BY <1>1
    <3>2. /\ a \in Seq(E) /\ Len(a) = Len(u) - 1
          /\ \A k \in 1 .. Len(u) - 1 : a[k] = IF k < i THEN u[k] ELSE u[k + 1]
      BY <1>1, <1>4, <3>1
    <3> HIDE DEF a
    <3> QED
      BY <1>1, <3>2
  <2>2. /\ r \in Seq(E) /\ Len(r) = m - 1
        /\ \A k \in 1 .. m - 1 : r[k] = IF k < i THEN s[k] ELSE s[k + 1]
    BY <1>4 DEF m
  <2> HIDE DEF a, r
  <2>3. /\ b \in Seq(E) /\ Len(b) = m - 1 + n
        /\ \A k \in 1 .. m - 1 + n : b[k] = IF k <= m - 1 THEN r[k] ELSE t[k - (m - 1)]
    <3>1. /\ b \in Seq(E) /\ Len(b) = Len(r) + Len(t)
          /\ \A k \in 1 .. Len(r) + Len(t) : b[k] = IF k <= Len(r) THEN r[k] ELSE t[k - Len(r)]
      BY <1>5, <2>2
    <3> HIDE DEF b
    <3> QED
      BY <2>2, <3>1, Zenon DEF n
  <2> HIDE DEF b
  <2>4. \A k \in 1 .. m + n - 1 : a[k] = b[k]
    <3> SUFFICES ASSUME NEW k \in 1 .. m + n - 1 PROVE a[k] = b[k]
      OBVIOUS
    <3>1. CASE k <= m - 1
      <4>1. k \in 1 .. m - 1 /\ k \in 1 .. m - 1 + n /\ k \in 1 .. m + n /\ k + 1 \in 1 .. m + n
            /\ k <= m /\ k + 1 <= m
        BY <1>1, <3>1
      <4>2. b[k] = IF k < i THEN s[k] ELSE s[k + 1]
        BY <2>2, <2>3, <3>1, <4>1
      <4>3. u[k] = s[k] /\ u[k + 1] = s[k + 1]
        BY <1>1, <4>1
      <4> QED
        BY <2>1, <4>2, <4>3
    <3>2. CASE k > m - 1
      <4>1. k \in 1 .. m - 1 + n /\ k + 1 \in 1 .. m + n /\ ~(k <= m - 1) /\ ~(k + 1 <= m) /\ ~(k < i)
        BY <1>1, <3>2
      <4>2. a[k] = u[k + 1] /\ u[k + 1] = t[(k + 1) - m]
        BY <1>1, <2>1, <4>1
      <4>3. b[k] = t[k - (m - 1)]
        BY <2>3, <4>1
      <4>4. (k + 1) - m = k - (m - 1)
        BY <1>1
      <4> QED
        BY <4>2, <4>3, <4>4
    <3> QED
      BY <1>1, <3>1, <3>2
  <2>5. Len(a) = Len(b) /\ \A k \in 1 .. Len(a) : a[k] = b[k]
    BY <1>1, <2>1, <2>3, <2>4
  <2>6. a = b
    BY <2>1, <2>3, <2>5, SeqEqual
  <2> QED
    BY <2>6 DEF a, b, r
<1>3. ASSUME NEW i \in 1 .. n PROVE RemoveAt(u, m + i) = s \o RemoveAt(t, i)
  <2> DEFINE a == RemoveAt(u, m + i)
             r == RemoveAt(t, i)
             b == s \o r
  <2>1. /\ a \in Seq(E) /\ Len(a) = m + n - 1
        /\ \A k \in 1 .. m + n - 1 : a[k] = IF k < m + i THEN u[k] ELSE u[k + 1]
    <3>1. m + i \in 1 .. Len(u)
      BY <1>1
    <3>2. /\ a \in Seq(E) /\ Len(a) = Len(u) - 1
          /\ \A k \in 1 .. Len(u) - 1 : a[k] = IF k < m + i THEN u[k] ELSE u[k + 1]
      BY <1>1, <1>4, <3>1
    <3> HIDE DEF a
    <3> QED
      BY <1>1, <3>2
  <2>2. /\ r \in Seq(E) /\ Len(r) = n - 1
        /\ \A k \in 1 .. n - 1 : r[k] = IF k < i THEN t[k] ELSE t[k + 1]
    BY <1>4 DEF n
  <2> HIDE DEF a, r
  <2>3. /\ b \in Seq(E) /\ Len(b) = m + (n - 1)
        /\ \A k \in 1 .. m + (n - 1) : b[k] = IF k <= m THEN s[k] ELSE r[k - m]
    <3>1. /\ b \in Seq(E) /\ Len(b) = Len(s) + Len(r)
          /\ \A k \in 1 .. Len(s) + Len(r) : b[k] = IF k <= Len(s) THEN s[k] ELSE r[k - Len(s)]
      BY <1>5, <2>2
    <3> HIDE DEF b
    <3> QED
      BY <2>2, <3>1, Zenon DEF m
  <2> HIDE DEF b
  <2>4. \A k \in 1 .. m + n - 1 : a[k] = b[k]
    <3> SUFFICES ASSUME NEW k \in 1 .. m + n - 1 PROVE a[k] = b[k]
      OBVIOUS
    <3>1. CASE k <= m
      BY <1>1, <2>1, <2>3, <3>1
    <3>2. CASE k > m
      <4>1. k - m \in 1 .. n - 1 /\ k \in 1 .. m + (n - 1) /\ k \in 1 .. m + n /\ k + 1 \in 1 .. m + n
        BY <1>1, <3>2
      <4>2. b[k] = IF k - m < i THEN t[k - m] ELSE t[(k - m) + 1]
        BY <1>1, <2>2, <2>3, <3>2, <4>1
      <4>3. a[k] = IF k < m + i THEN t[k - m] ELSE t[(k + 1) - m]
        <5>1. u[k] = t[k - m]
          BY <1>1, <3>2, <4>1
        <5>2. u[k + 1] = t[(k + 1) - m]
          BY <1>1, <3>2, <4>1
        <5> QED
          BY <2>1, <5>1, <5>2
      <4>4. (k + 1) - m = (k - m) + 1 /\ (k < m + i <=> k - m < i)
        BY <1>1
      <4> QED
        BY <4>2, <4>3, <4>4
    <3> QED
      BY <1>1, <3>1, <3>2
  <2>5. Len(a) = Len(b) /\ \A k \in 1 .. Len(a) : a[k] = b[k]
    BY <1>1, <2>1, <2>3, <2>4
  <2>6. a = b
    BY <2>1, <2>3, <2>5, SeqEqual
  <2> QED
    BY <2>6 DEF a, b, r
<1> QED
  BY <1>1, <1>2, <1>3 DEF u, m, n

LEMMA RemovedLines ==
  \A s, t \in Seq(Line) :
    /\ \A i \in 1 .. Len(s) : RemoveAt(s \o t, i) = RemoveAt(s, i) \o t
    /\ \A i \in 1 .. Len(t) : RemoveAt(s \o t, Len(s) + i) = s \o RemoveAt(t, i)
<1> TAKE s, t \in Seq(Line)
<1>1. \A i \in 1 .. Len(s) : RemoveAt(s \o t, i) = RemoveAt(s, i) \o t
  BY RemovedFromConcat, SMTT(30)
<1>2. \A i \in 1 .. Len(t) : RemoveAt(s \o t, Len(s) + i) = s \o RemoveAt(t, i)
  BY RemovedFromConcat, SMTT(30)
<1> QED
  BY <1>1, <1>2

(* Nothing that others may remove is in the block.                         *)
LEMMA BlockIsOurs == \A j \in 1 .. Len(buildBlock) : buildBlock[j] \notin Foreign
<1> DEFINE E == Line \ Foreign
<1>1. Entries \in Seq(Domains) /\ Domains \subseteq E /\ BlockStart \in E /\ BlockEnd \in E
  BY BlockIs, HostsAssumption DEF Line, Foreign
<1> HIDE DEF E
<1>2. Entries \in Seq(E) /\ <<BlockStart>> \in Seq(E)
  BY <1>1, SeqMonotonic
<1>3. <<BlockStart>> \o Entries \in Seq(E)
  BY <1>2, ConcatProperties
<1>4. buildBlock \in Seq(E)
  BY <1>1, <1>3, BlockIs, AppendProperties
<1> QED
  BY <1>4, ElementOfSeq DEF E

(* A line of others removed from a whole text leaves one.                  *)
LEMMA WholeRemoved ==
  ASSUME NEW text \in Seq(Line), Whole(text), NEW i \in 1 .. Len(text), text[i] \in Foreign
  PROVE  Whole(RemoveAt(text, i))
<1>1. PICK above \in Seq(Foreign), below \in Seq(Foreign), block \in {buildBlock, <<>>} :
         text = above \o block \o below
  BY WholeIs
<1> DEFINE rest == block \o below
           m == Len(above)
           b == Len(block)
           n == Len(below)
<1>2. /\ above \in Seq(Line) /\ below \in Seq(Line) /\ block \in Seq(Line)
      /\ m \in Nat /\ b \in Nat /\ n \in Nat
  BY ForeignLines, BlockIs, EmptySeq, LenProperties
<1>3. rest \in Seq(Line) /\ Len(rest) = b + n
      /\ \A k \in 1 .. b + n : rest[k] = IF k <= b THEN block[k] ELSE below[k - b]
  <2>1. /\ block \o below \in Seq(Line)
        /\ Len(block \o below) = Len(block) + Len(below)
        /\ \A k \in 1 .. Len(block) + Len(below) :
              (block \o below)[k] = IF k <= Len(block) THEN block[k] ELSE below[k - Len(block)]
    BY <1>2, ConcatProperties
  <2> QED
    BY <2>1
<1>4. text = above \o rest
  <2>1. above \o (block \o below) = (above \o block) \o below
    BY <1>2, Lines, Zenon
  <2> QED
    BY <1>1, <2>1
<1>5. \A k \in 1 .. b : block[k] \notin Foreign
  BY BlockIsOurs, EmptySeq
<1> HIDE DEF rest, m, b, n
<1>6. /\ Len(text) = m + (b + n)
      /\ \A k \in 1 .. m + (b + n) : text[k] = IF k <= m THEN above[k] ELSE rest[k - m]
  <2>1. /\ Len(above \o rest) = m + (b + n)
        /\ \A k \in 1 .. m + Len(rest) :
              (above \o rest)[k] = IF k <= m THEN above[k] ELSE rest[k - m]
    BY <1>2, <1>3, ConcatProperties DEF m
  <2> QED
    BY <1>3, <1>4, <2>1
<1>7. RemoveAt(text, i) \in Seq(Line)
  BY Removed
<1>8. CASE i <= m
  <2> DEFINE a == RemoveAt(above, i)
  <2>1. a \in Seq(Foreign) /\ a \in Seq(Line)
    <3>1. i \in 1 .. Len(above)
      BY <1>2, <1>8 DEF m
    <3> QED
      BY <1>2, <3>1, Removed
  <2>2. RemoveAt(text, i) = a \o rest
    <3>1. i \in 1 .. Len(above)
      BY <1>2, <1>8 DEF m
    <3>2. \A k \in 1 .. Len(above) : RemoveAt(above \o rest, k) = RemoveAt(above, k) \o rest
      <4>1. above \in Seq(Line) /\ rest \in Seq(Line)
        BY <1>2, <1>3
      <4> QED
        BY <4>1, RemovedLines, Zenon
    <3> QED
      BY <1>4, <3>1, <3>2
  <2> HIDE DEF a
  <2>3. a \o rest = a \o block \o below
    <3>1. a \in Seq(Line) /\ block \in Seq(Line) /\ below \in Seq(Line)
      BY <1>2, <2>1
    <3>2. a \o (block \o below) = (a \o block) \o below
      BY <3>1, Lines
    <3> QED
      BY <3>2 DEF rest
  <2> QED
    BY <1>7, <2>1, <2>2, <2>3, WholeIs
<1>9. CASE i > m
  <2>1. i - m \in 1 .. b + n /\ rest[i - m] \in Foreign
    BY <1>2, <1>6, <1>9
  <2>2. i - m > b
    <3>1. SUFFICES ASSUME i - m <= b PROVE FALSE
      BY <1>2, <2>1
    <3>2. i - m \in 1 .. b
      BY <1>2, <2>1, <3>1
    <3>3. rest[i - m] = block[i - m]
      BY <1>3, <2>1, <3>1
    <3> QED
      BY <1>5, <2>1, <3>2, <3>3
  <2> DEFINE j == i - m - b
             c == RemoveAt(below, j)
  <2>3. j \in 1 .. n /\ i - m = b + j /\ m + (b + j) = i /\ b + j \in 1 .. b + n
    BY <1>2, <2>1, <2>2
  <2> HIDE DEF j
  <2>4. c \in Seq(Foreign) /\ c \in Seq(Line)
    <3>1. /\ below \in Seq(Foreign) /\ below \in Seq(Line)
          /\ j \in 1 .. Len(below)
      BY <1>2, <2>3 DEF n
    <3> QED
      BY <3>1, Removed, Zenon
  <2>5. RemoveAt(rest, b + j) = block \o c
    <3>1. \A k \in 1 .. Len(below) :
             RemoveAt(block \o below, Len(block) + k) = block \o RemoveAt(below, k)
      BY <1>2, RemovedLines, Zenon
    <3> QED
      BY <2>3, <3>1 DEF rest, b, n
  <2>6. RemoveAt(text, m + (b + j)) = above \o RemoveAt(rest, b + j)
    <3>1. \A k \in 1 .. Len(rest) :
             RemoveAt(above \o rest, Len(above) + k) = above \o RemoveAt(rest, k)
      <4>1. above \in Seq(Line) /\ rest \in Seq(Line)
        BY <1>2, <1>3
      <4> QED
        BY <4>1, RemovedLines, Zenon
    <3> QED
      BY <1>3, <1>4, <2>3, <3>1 DEF m
  <2> HIDE DEF c
  <2>7. above \o (block \o c) = above \o block \o c
    <3>1. above \in Seq(Line) /\ block \in Seq(Line) /\ c \in Seq(Line)
      BY <1>2, <2>4
    <3> QED
      BY <3>1, Lines
  <2>8. RemoveAt(text, i) = above \o block \o c
    BY <2>3, <2>5, <2>6, <2>7
  <2> QED
    BY <1>7, <2>4, <2>8, WholeIs
<1> QED
  BY <1>2, <1>8, <1>9

LEMMA OnlyOthers ==
  \A s, t \in Seq(Line) : Only(Others, s \o t) = Only(Others, s) \o Only(Others, t)
BY OnlyConcat

(* The only lines of others in a whole text are outside the block, so an   *)
(* edit keeps them all.                                                    *)
LEMMA WholeKeepsOthers ==
  ASSUME NEW text \in Seq(Line), Whole(text), NEW wanted \in {buildBlock, <<>>}
  PROVE  Only(Others, replaceBlock(text, wanted)) = Only(Others, text)
<1>1. PICK above \in Seq(Foreign), below \in Seq(Foreign), block \in {buildBlock, <<>>} :
         text = above \o block \o below
  BY WholeIs
<1>2. above \in Seq(Line) /\ below \in Seq(Line) /\ block \in Seq(Line)
      /\ above \o block \in Seq(Line)
  BY ForeignLines, BlockIs, EmptySeq, Lines
<1>3. Scan(text).kept = above \o below
  <2>1. Scan(above \o block \o below) =
          Outcome(block # <<>>, above \o below, IF block # <<>> THEN Entries ELSE <<>>)
    BY WholeScanned
  <2> QED
    BY <1>1, <2>1 DEF Outcome
<1>4. Only(Others, block) = <<>>
  BY NothingOfOthers
<1>5. /\ Only(Others, text) = Only(Others, above \o block) \o Only(Others, below)
      /\ Only(Others, above \o block) = Only(Others, above) \o <<>>
      /\ Only(Others, above \o below) = Only(Others, above) \o Only(Others, below)
  <2>1. Only(Others, (above \o block) \o below) = Only(Others, above \o block) \o Only(Others, below)
    BY <1>2, OnlyOthers, Zenon
  <2>2. Only(Others, above \o block) = Only(Others, above) \o Only(Others, block)
    BY <1>2, OnlyOthers, Zenon
  <2>3. Only(Others, above \o below) = Only(Others, above) \o Only(Others, below)
    BY <1>2, OnlyOthers, Zenon
  <2> QED
    BY <1>1, <1>4, <2>1, <2>2, <2>3
<1>6. Only(Others, above) \o <<>> = Only(Others, above)
  <2>1. Only(Others, above) \in Seq(Line)
    BY <1>2, OnlyProperties
  <2> QED
    BY <2>1, ConcatEmptySeq
<1>7. Only(Others, replaceBlock(text, wanted)) = Only(Others, Scan(text).kept)
  BY ReplacedKeepsKept
<1> QED
  BY <1>3, <1>5, <1>6, <1>7

-----------------------------------------------------------------------------
(***************************************************************************)
(* What the steps do to the texts.                                         *)
(***************************************************************************)
LEMMA EditedText ==
  ASSUME NEW text \in Seq(Line), NEW block \in {buildBlock, <<>>}
  PROVE  replaceBlock(text, block) \in Seq(Line) /\ block \in Seq(Line)
BY ScanReplaced, BlockIs, EmptySeq

(* A text over another is a text, and over the empty one it is itself.     *)
LEMMA OverText ==
  ASSUME NEW text \in Seq(Line), NEW new \in Seq(Line)
  PROVE  Over(text, new) \in Seq(Line) /\ Over(<<>>, new) = new
<1>1. Len(new) \in Nat /\ Len(text) \in Nat
  BY LenProperties
<1>2. SubSeq(text, Len(new) + 1, Len(text)) \in Seq(Line)
  <2>1. \A i \in Len(new) + 1 .. Len(text) : text[i] \in Line
    BY <1>1, ElementOfSeq
  <2> QED
    BY <1>1, <2>1, SubSeqProperties
<1>3. Len(<<>>) = 0 /\ SubSeq(<<>>, Len(new) + 1, 0) = <<>>
  BY <1>1, SubSeqEmpty
<1> QED
  BY <1>2, <1>3, ConcatProperties, ConcatEmptySeq DEF Over

(***************************************************************************)
(* The inductive invariant, action by action.                              *)
(***************************************************************************)
LEMMA Begins == Init => IInv
<1>1. <<>> \in Seq(Line) /\ <<>> \in Seq(Foreign) /\ <<>> \o <<>> = <<>>
  BY EmptySeq, ConcatEmptySeq
<1>2. Whole(<<>>)
  BY <1>1, WholeIs
<1> QED
  BY <1>1, <1>2 DEF Init, IInv, TypeOK, Drafted, Staged, Undisturbed, NeverTorn

LEMMA ReadKeeps == IInv /\ Read => IInv'
<1> SUFFICES ASSUME IInv, Read PROVE IInv'
  OBVIOUS
<1>1. draft' \in Seq(Line)
  BY EditedText DEF IInv, TypeOK, Read
<1>2. TypeOK'
  BY <1>1 DEF IInv, TypeOK, Read
<1>3. Drafted' /\ Staged' /\ Undisturbed'
  BY DEF Read, Drafted, Staged, Undisturbed
<1>4. Whole(file) => Whole(draft')
  BY WholeReplaced DEF IInv, TypeOK, Read
<1>5. NeverTorn'
  <2>1. Whole(file) => Whole(file')
    BY DEF Read
  <2> QED
    BY <1>4, <2>1 DEF Read, IInv, NeverTorn
<1> QED
  BY <1>2, <1>3, <1>5 DEF IInv

LEMMA TruncateKeeps == IInv /\ Truncate => IInv'
<1>1. <<>> \in Seq(Line)
  BY EmptySeq
<1> QED
  BY <1>1 DEF Truncate, IInv, TypeOK, Drafted, Staged, Undisturbed, NeverTorn

LEMMA WriteInPlaceKeeps == IInv /\ WriteInPlace => IInv'
<1> SUFFICES ASSUME IInv, WriteInPlace PROVE IInv'
  OBVIOUS
<1>1. file' \in Seq(Line) /\ (file = <<>> => file' = draft)
  BY OverText DEF WriteInPlace, IInv, TypeOK
<1> QED
  BY <1>1 DEF WriteInPlace, IInv, TypeOK, Drafted, Staged, Undisturbed, NeverTorn

LEMMA WriteTmpKeeps == IInv /\ WriteTmp => IInv'
<1> SUFFICES ASSUME IInv, WriteTmp PROVE IInv'
  OBVIOUS
<1>1. TypeOK' /\ Drafted' /\ Staged' /\ Undisturbed'
  BY DEF WriteTmp, IInv, TypeOK, Drafted, Staged, Undisturbed
<1>2. NeverTorn'
  BY DEF WriteTmp, IInv, NeverTorn, Whole
<1> QED
  BY <1>1, <1>2 DEF IInv

(* The rename puts the edited text, which is whole, in the file's place.   *)
LEMMA RenameTmpKeeps == IInv /\ RenameTmp => IInv'
<1> SUFFICES ASSUME IInv, RenameTmp PROVE IInv'
  OBVIOUS
<1>1. file' = draft /\ pc' = "done"
  BY DEF RenameTmp, IInv, Staged
<1>2. TypeOK' /\ Drafted' /\ Staged' /\ Undisturbed'
  BY <1>1 DEF RenameTmp, IInv, TypeOK, Drafted, Staged, Undisturbed
<1>3. NeverTorn'
  <2>1. Whole(draft) => Whole(file')
    BY <1>1
  <2> QED
    BY <1>1, <2>1 DEF RenameTmp, IInv, NeverTorn
<1> QED
  BY <1>2, <1>3 DEF IInv

LEMMA StopKeeps == IInv /\ (Fail \/ Return) => IInv'
<1> SUFFICES ASSUME IInv, Fail \/ Return PROVE IInv'
  OBVIOUS
<1>1. Stop
  BY DEF Fail, Return
<1>2. file' \in Seq(Line) /\ (pc # "write" => file' = file)
  <2>1. CASE pc = "write" /\ \E part \in Prefixes(draft) : file' = Over(file, part)
    BY <2>1, PartText, OverText DEF IInv, TypeOK
  <2>2. CASE UNCHANGED file
    BY <2>2 DEF IInv, TypeOK
  <2> QED
    BY <2>1, <2>2 DEF Fail, Return
<1>3. TypeOK'
  <2>1. <<>> \in Seq(Line)
    BY EmptySeq
  <2> QED
    BY <1>1, <1>2, <2>1 DEF Stop, IInv, TypeOK
<1>4. Drafted' /\ Staged' /\ Undisturbed'
  BY <1>1 DEF Stop, Drafted, Staged, Undisturbed
<1>5. NeverTorn'
  <2>1. file' = file /\ Whole(file) => Whole(file')
    OBVIOUS
  <2> QED
    BY <1>1, <1>2, <2>1 DEF Stop, IInv, NeverTorn
<1> QED
  BY <1>3, <1>4, <1>5 DEF IInv

LEMMA OthersEditKeeps == IInv /\ (AddLine \/ RemoveLine) => IInv'
<1> SUFFICES ASSUME IInv, AddLine \/ RemoveLine PROVE IInv'
  OBVIOUS
<1>1. Edited
  BY DEF AddLine, RemoveLine
<1>2. file \in Seq(Line)
  BY DEF IInv, TypeOK
<1>3. file' \in Seq(Line) /\ (Whole(file) => Whole(file'))
  <2>1. CASE AddLine
    <3>1. PICK line \in Foreign : file' = <<line>> \o file \/ file' = Append(file, line)
      BY <2>1 DEF AddLine, Foreign
    <3>2. <<line>> \in Seq(Line) /\ line \in Line
      BY ForeignLines
    <3> QED
      <4>1. <<line>> \o file \in Seq(Line) /\ Append(file, line) \in Seq(Line)
        BY <1>2, <3>2, Lines, Zenon
      <4>2. Whole(file) => Whole(<<line>> \o file) /\ Whole(Append(file, line))
        BY <1>2, WholeAdded
      <4> QED
        BY <3>1, <4>1, <4>2
  <2>2. CASE RemoveLine
    <3>1. PICK i \in DOMAIN file : file[i] \in Foreign /\ file' = RemoveAt(file, i)
      BY <2>2 DEF RemoveLine, Foreign
    <3>2. i \in 1 .. Len(file)
      BY <1>2, LenProperties
    <3> QED
      BY <1>2, <3>1, <3>2, Removed, WholeRemoved
  <2> QED
    BY <2>1, <2>2
<1>4. TypeOK'
  BY <1>1, <1>3 DEF Edited, IInv, TypeOK
<1>5. Drafted' /\ Staged' /\ Undisturbed'
  BY <1>1 DEF Edited, IInv, Drafted, Staged, Undisturbed
<1>6. NeverTorn'
  <2>1. UNCHANGED draft /\ Whole(draft) => Whole(draft')
    OBVIOUS
  <2> QED
    BY <1>1, <1>3, <2>1 DEF Edited, IInv, NeverTorn
<1> QED
  BY <1>4, <1>5, <1>6 DEF IInv

LEMMA Keeps == IInv /\ [Next]_vars => IInv'
<1>1. IInv /\ UNCHANGED vars => IInv'
  <2> SUFFICES ASSUME IInv, UNCHANGED vars PROVE IInv'
    OBVIOUS
  <2>1. TypeOK' /\ Drafted' /\ Staged' /\ Undisturbed'
    BY DEF vars, IInv, TypeOK, Drafted, Staged, Undisturbed
  <2>2. (Whole(file) => Whole(file')) /\ (Whole(draft) => Whole(draft'))
    BY DEF vars
  <2> QED
    BY <2>1, <2>2 DEF vars, IInv, NeverTorn
<1> QED
  BY <1>1, ReadKeeps, TruncateKeeps, WriteInPlaceKeeps, WriteTmpKeeps, RenameTmpKeeps,
     StopKeeps, OthersEditKeeps DEF Next

(* While nobody else changes the file, an edit writes what it has made of  *)
(* the file it read; and on unix the file is whole.                        *)
THEOREM Invariance == Spec => []IInv
<1> QED
  BY Begins, Keeps, PTL DEF Spec

(* The file is made of lines, whatever fails and whoever writes it.        *)
THEOREM TypeCorrect == Spec => []TypeOK
<1>1. IInv => TypeOK
  BY DEF IInv
<1> QED
  BY <1>1, Invariance, PTL

(* An edit that completes undisturbed has its effect: one whole block at   *)
(* the end that lists the domains, or none.                                *)
THEOREM EditsTakeEffect == Spec => []EditTakesEffect
<1>1. IInv => EditTakesEffect
  BY ReplacedHasEffect DEF IInv, TypeOK, Drafted, Undisturbed, EditTakesEffect, Complete
<1> QED
  BY <1>1, Invariance, PTL

(* An undisturbed edit keeps the lines of others that no block encloses.   *)
THEOREM OthersStay == Spec => []OthersKept
<1>1. IInv => OthersKept
  BY ReplacedKeepsOthers DEF IInv, TypeOK, Drafted, Undisturbed, OthersKept, Complete
<1> QED
  BY <1>1, Invariance, PTL

(* Install and Uninstall undo and repeat each other as they should,        *)
(* whatever the file holds.                                                *)
THEOREM EditsDoSettle == Spec => []EditsSettle
<1>1. TypeOK => EditsSettle
  BY EditsSettleOn DEF TypeOK, EditsSettle
<1> QED
  BY <1>1, TypeCorrect, PTL

(* Where the file is replaced by a rename, it lists all domains or none,   *)
(* wherever an edit fails.                                                 *)
THEOREM NeverHalf == Spec => []AllOrNone
<1>1. IInv => AllOrNone
  BY WholeLists DEF IInv, TypeOK, NeverTorn, AllOrNone
<1> QED
  BY <1>1, Invariance, PTL

(* And a step of an edit that nobody disturbs loses no line of others.     *)
THEOREM OthersNeverLost == Spec => NothingLost
<1>1. ASSUME IInv, [Next]_vars, os = "unix", pc' # pc, quiet \/ pc = "idle"
      PROVE  Only(Others, file') = Only(Others, file)
  <2>1. CASE RenameTmp
    <3>1. /\ file \in Seq(Line) /\ goal \in {buildBlock, <<>>} /\ Whole(file)
          /\ file' = replaceBlock(file, goal)
      BY <1>1, <2>1 DEF RenameTmp, IInv, TypeOK, Drafted, Staged, Undisturbed, NeverTorn
    <3> QED
      BY <3>1, WholeKeepsOthers
  <2>2. CASE UNCHANGED file
    BY <2>2
  <2>3. ~Truncate /\ ~WriteInPlace /\ ~AddLine /\ ~RemoveLine /\ pc # "write"
    BY <1>1 DEF Truncate, WriteInPlace, AddLine, RemoveLine, Edited, IInv, NeverTorn
  <2>4. RenameTmp \/ UNCHANGED file
    BY <1>1, <2>3 DEF Next, Read, WriteTmp, Fail, Return, vars
  <2> QED
    BY <2>1, <2>2, <2>4
<1>2. IInv /\ [Next]_vars
        => [os = "unix" /\ pc' # pc /\ (quiet \/ pc = "idle")
              => Only(Others, file') = Only(Others, file)]_vars
  BY <1>1
<1> QED
  BY <1>2, Invariance, PTL DEF Spec, NothingLost
=============================================================================
