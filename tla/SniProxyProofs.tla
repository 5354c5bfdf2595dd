--------------------------- MODULE SniProxyProofs ---------------------------
(***************************************************************************)
(* Proofs about SniProxy, for every length of the streams, every buffer    *)
(* and every record limit.                                                 *)
(***************************************************************************)
EXTENDS SniProxy, SequenceTheorems, TLAPS

USE ProxyAssumption

(* The next unit of a stream, put behind those before it.                  *)
LEMMA Added ==
  ASSUME NEW S, NEW s \in Seq(S), NEW k \in Nat, NEW e \in S,
         Follows(s, k), e = k + Len(s) + 1
  PROVE  /\ Append(s, e) \in Seq(S) /\ Len(Append(s, e)) = Len(s) + 1
         /\ Follows(Append(s, e), k)
<1>1. Len(s) \in Nat
  BY LenProperties
<1>2. /\ Append(s, e) \in Seq(S) /\ Len(Append(s, e)) = Len(s) + 1
      /\ \A i \in 1 .. Len(s) : Append(s, e)[i] = s[i]
      /\ Append(s, e)[Len(s) + 1] = e
  BY AppendProperties
<1>3. ASSUME NEW i \in 1 .. Len(s) + 1 PROVE Append(s, e)[i] = k + i
  <2>1. CASE i \in 1 .. Len(s)
    BY <1>2, <2>1 DEF Follows
  <2>2. CASE i = Len(s) + 1
    BY <1>1, <1>2, <2>2
  <2> QED
    BY <1>1, <2>1, <2>2
<1> QED
  BY <1>2, <1>3 DEF Follows

(* A unit taken from the front of a queue is the next one of the stream.   *)
LEMMA Dropped ==
  ASSUME NEW S, NEW t \in Seq(S), NEW k \in Nat, t # <<>>, Follows(t, k)
  PROVE  /\ Head(t) \in S /\ Head(t) = k + 1
         /\ Tail(t) \in Seq(S) /\ Len(t) \in Nat \ {0} /\ Len(Tail(t)) = Len(t) - 1
         /\ Follows(Tail(t), k + 1)
<1>1. Len(t) \in Nat \ {0}
  BY EmptySeq
<1>2. /\ Tail(t) \in Seq(S) /\ Len(Tail(t)) = Len(t) - 1
      /\ \A i \in 1 .. Len(Tail(t)) : Tail(t)[i] = t[i + 1]
  BY HeadTailProperties
<1>3. ASSUME NEW i \in 1 .. Len(Tail(t)) PROVE Tail(t)[i] = k + 1 + i
  <2>1. i + 1 \in 1 .. Len(t)
    BY <1>1, <1>2
  <2>2. t[i + 1] = k + (i + 1)
    BY <2>1 DEF Follows
  <2> QED
    BY <1>2, <2>2
<1>4. Head(t) \in S /\ Head(t) = k + 1
  BY <1>1, HeadTailProperties DEF Follows
<1> QED
  BY <1>1, <1>2, <1>3, <1>4 DEF Follows

(* A unit that moves from the front of one queue to the back of the queue  *)
(* before it keeps both in order.                                          *)
LEMMA Moved ==
  ASSUME NEW S, NEW s \in Seq(S), NEW t \in Seq(S), NEW k \in Nat, t # <<>>,
         Follows(s, k), Follows(t, k + Len(s))
  PROVE  /\ Append(s, Head(t)) \in Seq(S) /\ Tail(t) \in Seq(S)
         /\ Len(s) \in Nat /\ Len(Append(s, Head(t))) = Len(s) + 1
         /\ Len(t) \in Nat /\ Len(Tail(t)) = Len(t) - 1
         /\ Follows(Append(s, Head(t)), k)
         /\ Follows(Tail(t), k + Len(s) + 1)
<1>1. Len(s) \in Nat /\ k + Len(s) \in Nat
  BY LenProperties
<1>2. /\ Head(t) \in S /\ Head(t) = k + Len(s) + 1
      /\ Tail(t) \in Seq(S) /\ Len(t) \in Nat \ {0} /\ Len(Tail(t)) = Len(t) - 1
      /\ Follows(Tail(t), k + Len(s) + 1)
  BY <1>1, Dropped
<1> QED
  BY <1>1, <1>2, Added

(* The queues have lengths.                                                *)
LEMMA Lengths ==
  ASSUME TypeOK
  PROVE  /\ Len(got) \in Nat /\ Len(p2s) \in Nat /\ Len(buffered) \in Nat /\ Len(c2p) \in Nat
         /\ Len(seen) \in Nat /\ Len(p2c) \in Nat /\ Len(pre) \in Nat /\ Len(s2p) \in Nat
         /\ Taken \in Nat
BY LenProperties DEF TypeOK, Taken, Reply

LEMMA Initially == Init => IInv
<1> SUFFICES ASSUME Init PROVE IInv
  OBVIOUS
<1>1. \A S : <<>> \in Seq(S) /\ Len(<<>>) = 0
  BY EmptySeq
<1>2. TypeOK
  BY <1>1 DEF Init, TypeOK, Sniffing, Dialing, Copies, Reply
<1>3. \A k : Follows(<<>>, k)
  BY <1>1 DEF Follows
<1>4. UpOrder /\ DownOrder
  BY <1>1, <1>3 DEF Init, UpOrder, DownOrder, Taken
<1>5. CopiesFit /\ EndedEmpty
  BY DEF Init, CopiesFit, EndedEmpty, Sniffing, Dialing
<1> QED
  BY <1>2, <1>4, <1>5 DEF IInv

(***************************************************************************)
(* The client's stream moves in Fill, UpCopy, ClientSends and SingBoxReads.*)
(***************************************************************************)
UpTyped ==
  /\ sent \in 0 .. Request /\ c2p \in Seq(1 .. Request) /\ got \in Seq(1 .. Request)
  /\ buffered \in Seq(1 .. Request) /\ Len(buffered) <= Buffer
  /\ p2s \in Seq(1 .. Request) /\ Len(p2s) <= Room

upVars == <<sent, c2p, buffered, p2s, got>>

LEMMA UpStep ==
  ASSUME IInv, [Next]_vars
  PROVE  UpTyped' /\ UpOrder'
<1> DEFINE S == Seq(1 .. Request)
<1>1. /\ UpTyped /\ UpOrder
      /\ Len(got) \in Nat /\ Len(p2s) \in Nat /\ Len(buffered) \in Nat /\ Len(c2p) \in Nat
  BY Lengths DEF IInv, TypeOK, UpTyped
<1>2. CASE UNCHANGED upVars
  BY <1>1, <1>2 DEF upVars, UpTyped, UpOrder, Follows
<1>3. CASE Fill
  <2>1. UNCHANGED <<sent, p2s, got>> /\ c2p # <<>> /\ Len(buffered) < Buffer
        /\ buffered' = Append(buffered, Head(c2p)) /\ c2p' = Tail(c2p)
    BY <1>3 DEF Fill, remoteVars
  <2>2. /\ buffered' \in S /\ c2p' \in S
        /\ Len(buffered') = Len(buffered) + 1 /\ Len(c2p') = Len(c2p) - 1
        /\ Follows(buffered', Len(got) + Len(p2s))
        /\ Follows(c2p', Len(got) + Len(p2s) + Len(buffered) + 1)
    BY <1>1, <2>1, Moved, SMTT(30) DEF UpTyped, UpOrder
  <2>3. Len(got) + Len(p2s) + Len(buffered) + 1 = Len(got) + Len(p2s) + Len(buffered')
    BY <1>1, <2>2
  <2>4. Len(got) + Len(p2s) + Len(buffered') + Len(c2p') = sent
    BY <1>1, <2>2 DEF UpOrder
  <2> QED
    BY <1>1, <2>1, <2>2, <2>3, <2>4 DEF UpTyped, UpOrder
<1>4. ASSUME UpCopy, buffered # <<>>
      PROVE  UpTyped' /\ UpOrder'
  <2>1. UNCHANGED <<sent, c2p, got>> /\ Len(p2s) < Room
        /\ p2s' = Append(p2s, Head(buffered)) /\ buffered' = Tail(buffered)
    BY <1>4 DEF UpCopy
  <2>2. Follows(p2s, Len(got)) /\ Follows(buffered, Len(got) + Len(p2s))
        /\ p2s \in S /\ buffered \in S
    BY <1>1 DEF UpTyped, UpOrder
  <2>3. /\ p2s' \in S /\ buffered' \in S
        /\ Len(p2s') = Len(p2s) + 1 /\ Len(buffered') = Len(buffered) - 1
        /\ Follows(p2s', Len(got)) /\ Follows(buffered', Len(got) + Len(p2s) + 1)
    BY <1>1, <1>4, <2>1, <2>2, Moved
  <2>4. /\ Len(got) + Len(p2s) + 1 = Len(got) + Len(p2s')
        /\ Len(got) + Len(p2s) + Len(buffered) = Len(got) + Len(p2s') + Len(buffered')
    BY <1>1, <2>3
  <2>5. Follows(c2p, Len(got) + Len(p2s') + Len(buffered'))
    BY <1>1, <2>4 DEF UpOrder
  <2>6. Len(got) + Len(p2s') + Len(buffered') + Len(c2p) = sent
    BY <1>1, <2>4 DEF UpOrder
  <2>7. UpTyped'
    BY <1>1, <2>1, <2>3 DEF UpTyped
  <2> QED
    BY <1>1, <2>1, <2>3, <2>4, <2>5, <2>6, <2>7 DEF UpOrder
<1>5. ASSUME UpCopy, buffered = <<>>
      PROVE  UpTyped' /\ UpOrder'
  <2>1. UNCHANGED <<sent, buffered, got>> /\ c2p # <<>> /\ Len(p2s) < Room
        /\ p2s' = Append(p2s, Head(c2p)) /\ c2p' = Tail(c2p)
    BY <1>5 DEF UpCopy
  <2>2. Len(buffered) = 0
    BY <1>5
  <2>3. Len(got) + Len(p2s) + Len(buffered) = Len(got) + Len(p2s)
    BY <1>1, <2>2
  <2>4. Follows(p2s, Len(got)) /\ Follows(c2p, Len(got) + Len(p2s))
        /\ p2s \in S /\ c2p \in S
    BY <1>1, <2>3 DEF UpTyped, UpOrder
  <2>5. /\ p2s' \in S /\ c2p' \in S
        /\ Len(p2s') = Len(p2s) + 1 /\ Len(c2p') = Len(c2p) - 1
        /\ Follows(p2s', Len(got)) /\ Follows(c2p', Len(got) + Len(p2s) + 1)
    BY <1>1, <2>1, <2>4, Moved
  <2>6. /\ Follows(buffered', Len(got) + Len(p2s'))
        /\ Len(got) + Len(p2s) + 1 = Len(got) + Len(p2s') + Len(buffered)
        /\ Len(got) + Len(p2s') + Len(buffered) + Len(c2p') = sent
    BY <1>1, <1>5, <2>1, <2>2, <2>5 DEF UpOrder, Follows
  <2> QED
    BY <1>1, <2>1, <2>5, <2>6 DEF UpTyped, UpOrder
<1>6. CASE ClientSends
  <2> DEFINE k == Len(got) + Len(p2s) + Len(buffered)
  <2>1. UNCHANGED <<p2s, got, buffered>> /\ sent < Request
        /\ sent' = sent + 1 /\ c2p' = Append(c2p, sent + 1)
    BY <1>6 DEF ClientSends, proxyVars, remoteVars
  <2>2. /\ k \in Nat /\ Follows(c2p, k)
        /\ sent' = k + Len(c2p) + 1
    BY <1>1, <2>1 DEF UpOrder
  <2>3. sent' \in 1 .. Request /\ c2p \in S
    BY <1>1, <2>1 DEF UpTyped
  <2>4. c2p' \in S /\ Len(c2p') = Len(c2p) + 1 /\ Follows(c2p', k)
    <3> HIDE DEF k
    <3> QED
      BY <2>1, <2>2, <2>3, Added
  <2>5. k + Len(c2p') = sent'
    BY <1>1, <2>2, <2>4
  <2> QED
    BY <1>1, <2>1, <2>2, <2>4, <2>5, <2>3 DEF UpTyped, UpOrder
<1>7. CASE SingBoxReads
  <2>1. UNCHANGED <<sent, c2p, buffered>> /\ p2s # <<>>
        /\ got' = Append(got, Head(p2s)) /\ p2s' = Tail(p2s)
    BY <1>7 DEF SingBoxReads, clientVars, proxyVars
  <2>2. Follows(got, 0) /\ Follows(p2s, 0 + Len(got)) /\ got \in S /\ p2s \in S
    BY <1>1 DEF UpTyped, UpOrder
  <2>3. /\ got' \in S /\ p2s' \in S
        /\ Len(got') = Len(got) + 1 /\ Len(p2s') = Len(p2s) - 1
        /\ Follows(got', 0) /\ Follows(p2s', 0 + Len(got) + 1)
    BY <2>1, <2>2, Moved
  <2>4. 0 + Len(got) + 1 = Len(got') /\ Len(got) + Len(p2s) = Len(got') + Len(p2s')
    BY <1>1, <2>3
  <2> QED
    BY <1>1, <2>1, <2>3, <2>4, SMTT(30) DEF UpTyped, UpOrder
<1> QED
  <2>1. CASE Handle
    BY <1>2, <1>3, <2>1
    DEF Handle, SniffHeader, SniffRecord, BufferFull, HelloCut, Expire, Dial, FillReply,
        ReadGreeting, ReadReply, ReadAddress, DialFails, Return, CloseClient, GoOn,
        upVars, clientVars, remoteVars
  <2>2. CASE Up \/ Down
    BY <1>2, <1>4, <1>5, <2>2
    DEF Up, Down, UpEnds, DownCopy, DownEnds, upVars, clientVars, remoteVars
  <2>3. CASE Ends
    BY <1>2, <1>6, <1>7, <2>3
    DEF Ends, ClientReads, ClientEnds, SingBoxSends, SingBoxEnds,
        upVars, clientVars, proxyVars, remoteVars
  <2>4. CASE UNCHANGED vars
    BY <1>2, <2>4 DEF vars, upVars, clientVars, proxyVars, remoteVars
  <2> QED
    BY <2>1, <2>2, <2>3, <2>4 DEF Next

(***************************************************************************)
(* sing-box's stream moves in FillReply, in the three reads of the dial,   *)
(* in DownCopy, ClientReads and SingBoxSends.                              *)
(***************************************************************************)
DownTyped ==
  /\ answered \in 0 .. Reply + Answer /\ s2p \in Seq(1 .. Reply + Answer)
  /\ pre \in Seq(1 .. Reply + Answer) /\ seen \in Seq(1 .. Reply + Answer)
  /\ p2c \in Seq(1 .. Reply + Answer) /\ Len(p2c) <= Room

downVars == <<answered, s2p, pre, seen, p2c>>

(* A failed dial has given the stream up.                                  *)
GivenUp == pc = "closed" /\ down = "off"

(* The other steps leave the stream and the dial's place in it alone.      *)
Sniff == Fill \/ SniffHeader \/ SniffRecord \/ BufferFull \/ HelloCut \/ Expire
Others ==
  \/ Sniff \/ Dial \/ DialFails \/ Up \/ DownEnds \/ Return \/ ClientSends \/ SingBoxReads
  \/ \E how \in {"fin", "gone"} : ClientEnds(how) \/ SingBoxEnds(how)
  \/ UNCHANGED vars

LEMMA DownRests ==
  ASSUME IInv, Others
  PROVE  /\ UNCHANGED downVars
         /\ down = "off" <=> down' = "off"
         /\ GivenUp' \/ (~GivenUp /\ Taken' = Taken)
<1> USE DEF IInv, CopiesFit, Sniffing, Dialing, GivenUp, Taken, downVars,
            clientVars, proxyVars, remoteVars
<1>1. CASE Sniff
  BY <1>1 DEF Sniff, Fill, SniffHeader, SniffRecord, BufferFull, HelloCut, Expire, Short,
              CloseClient, GoOn
<1>2. CASE Dial \/ DialFails
  BY <1>2 DEF Dial, DialFails
<1>3. CASE Up \/ DownEnds \/ Return
  BY <1>3 DEF Up, UpCopy, UpEnds, DownEnds, Return
<1>4. CASE ClientSends \/ SingBoxReads \/ UNCHANGED vars
  BY <1>4 DEF ClientSends, SingBoxReads, vars
<1>5. ASSUME NEW how \in {"fin", "gone"}, ClientEnds(how) \/ SingBoxEnds(how)
      PROVE  /\ UNCHANGED downVars
             /\ down = "off" <=> down' = "off"
             /\ GivenUp' \/ (~GivenUp /\ Taken' = Taken)
  BY <1>5 DEF ClientEnds, SingBoxEnds
<1> QED
  BY <1>1, <1>2, <1>3, <1>4, <1>5 DEF Others

(* Once the copies run the dial has taken all three units of the reply.    *)
LEMMA AllTaken ==
  ASSUME CopiesFit, down # "off"
  PROVE  Taken = Reply /\ ~GivenUp
BY DEF CopiesFit, Taken, GivenUp, Dialing

LEMMA DownStep ==
  ASSUME IInv, [Next]_vars
  PROVE  DownTyped' /\ DownOrder'
<1> DEFINE T == 1 .. Reply + Answer
<1>1. /\ DownTyped /\ DownOrder /\ CopiesFit /\ Taken \in Nat
      /\ Len(seen) \in Nat /\ Len(p2c) \in Nat /\ Len(pre) \in Nat /\ Len(s2p) \in Nat
  BY Lengths DEF IInv, TypeOK, DownTyped
<1>2. CASE Others
  <2>1. /\ UNCHANGED downVars
        /\ down = "off" <=> down' = "off"
        /\ GivenUp' \/ (~GivenUp /\ Taken' = Taken)
    BY <1>2, DownRests
  <2> QED
    BY <1>1, <2>1 DEF downVars, DownTyped, DownOrder, GivenUp
<1>3. CASE FillReply
  <2> DEFINE k == Taken + Len(seen) + Len(p2c)
  <2>1. /\ UNCHANGED <<answered, seen, p2c, pc, down>> /\ s2p # <<>> /\ ~GivenUp
        /\ pre' = Append(pre, Head(s2p)) /\ s2p' = Tail(s2p)
    BY <1>3 DEF FillReply, clientVars, GivenUp, Dialing
  <2>2. k \in Nat /\ Follows(pre, k) /\ Follows(s2p, k + Len(pre))
        /\ pre \in Seq(T) /\ s2p \in Seq(T)
    BY <1>1, <2>1 DEF DownTyped, DownOrder, GivenUp
  <2>3. /\ pre' \in Seq(T) /\ s2p' \in Seq(T)
        /\ Len(pre') = Len(pre) + 1 /\ Len(s2p') = Len(s2p) - 1
        /\ Follows(pre', k) /\ Follows(s2p', k + Len(pre) + 1)
    <3> HIDE DEF k, T
    <3> QED
      BY <2>1, <2>2, Moved
  <2>4. k + Len(pre) + 1 = k + Len(pre') /\ k + Len(pre') + Len(s2p') = k + Len(pre) + Len(s2p)
    BY <1>1, <2>2, <2>3
  <2>5. Taken' = Taken
    BY <2>1 DEF Taken
  <2>6. DownTyped'
    BY <1>1, <2>1, <2>3 DEF DownTyped
  <2> QED
    BY <1>1, <2>1, <2>3, <2>4, <2>5, <2>6 DEF DownOrder, GivenUp
<1>4. CASE ReadGreeting \/ ReadReply \/ ReadAddress
  <2> DEFINE k == Taken + Len(seen) + Len(p2c)
  <2>1. /\ UNCHANGED <<answered, seen, p2c, s2p>> /\ pre # <<>> /\ ~GivenUp
        /\ pre' = Tail(pre) /\ down = "off"
    BY <1>1, <1>4 DEF ReadGreeting, ReadReply, ReadAddress, Stitch, clientVars, remoteVars,
                      GivenUp, CopiesFit, Dialing
  <2>2. Taken' = Taken + 1 /\ ~GivenUp'
    BY <1>4, <2>1 DEF ReadGreeting, ReadReply, ReadAddress, Taken, GivenUp, Reply
  <2>3. k \in Nat /\ Follows(pre, k) /\ Follows(s2p, k + Len(pre)) /\ pre \in Seq(T)
    BY <1>1, <2>1 DEF DownTyped, DownOrder, GivenUp
  <2>4. /\ pre' \in Seq(T) /\ Len(pre) \in Nat \ {0} /\ Len(pre') = Len(pre) - 1
        /\ Follows(pre', k + 1)
    <3> HIDE DEF k, T
    <3> QED
      BY <2>1, <2>3, Dropped
  <2>5. /\ Taken + 1 + Len(seen) + Len(p2c) = k + 1
        /\ Taken + 1 + Len(seen) + Len(p2c) + Len(pre') = k + Len(pre)
    BY <1>1, <2>4
  <2>6. DownTyped'
    BY <1>1, <2>1, <2>4 DEF DownTyped
  <2>7. seen = <<>> /\ p2c = <<>> /\ Follows(p2c, Taken + 1 + Len(seen))
    BY <1>1, <2>1 DEF DownOrder, Follows
  <2>8. k + Len(pre) + Len(s2p) = answered
    BY <1>1, <2>1 DEF DownOrder, GivenUp
  <2> QED
    BY <1>1, <2>1, <2>2, <2>3, <2>4, <2>5, <2>6, <2>7, <2>8 DEF DownOrder, GivenUp
<1>5. CASE DownCopy
  <2> DEFINE k == Reply + Len(seen)
  <2>1. /\ UNCHANGED <<answered, seen, pc, down>> /\ down # "off" /\ Len(p2c) < Room
        /\ \/ /\ pre # <<>> /\ p2c' = Append(p2c, Head(pre)) /\ pre' = Tail(pre)
              /\ UNCHANGED s2p
           \/ /\ pre = <<>> /\ s2p # <<>>
              /\ p2c' = Append(p2c, Head(s2p)) /\ s2p' = Tail(s2p)
              /\ UNCHANGED pre
    BY <1>5 DEF DownCopy
  <2>2. Taken = Reply /\ ~GivenUp /\ UNCHANGED <<Taken, GivenUp>>
    BY <1>1, <2>1, AllTaken DEF Taken, GivenUp
  <2>3. /\ Follows(seen, Reply) /\ Follows(p2c, k)
        /\ Follows(pre, k + Len(p2c)) /\ Follows(s2p, k + Len(p2c) + Len(pre))
        /\ k + Len(p2c) + Len(pre) + Len(s2p) = answered
    BY <1>1, <2>2 DEF DownOrder, GivenUp
  <2>4. k \in Nat /\ p2c \in Seq(T) /\ pre \in Seq(T) /\ s2p \in Seq(T)
    BY <1>1 DEF DownTyped, Reply
  <2>5. CASE pre # <<>>
    <3>1. p2c' = Append(p2c, Head(pre)) /\ pre' = Tail(pre) /\ UNCHANGED s2p
      BY <2>1, <2>5
    <3>2. /\ p2c' \in Seq(T) /\ pre' \in Seq(T)
          /\ Len(p2c') = Len(p2c) + 1 /\ Len(pre') = Len(pre) - 1
          /\ Follows(p2c', k) /\ Follows(pre', k + Len(p2c) + 1)
      <4> HIDE DEF k, T
      <4> QED
        BY <2>3, <2>4, <2>5, <3>1, Moved
    <3>3. /\ k + Len(p2c) + 1 = k + Len(p2c')
          /\ k + Len(p2c) + Len(pre) = k + Len(p2c') + Len(pre')
      BY <1>1, <3>2 DEF Reply
    <3>4. Len(p2c') <= Room
      BY <1>1, <2>1, <3>2
    <3>5. DownTyped'
      BY <1>1, <2>1, <3>1, <3>2, <3>4 DEF DownTyped
    <3> QED
      BY <2>1, <2>2, <2>3, <3>1, <3>2, <3>3, <3>5 DEF DownOrder
  <2>6. CASE pre = <<>>
    <3>1. s2p # <<>> /\ p2c' = Append(p2c, Head(s2p)) /\ s2p' = Tail(s2p) /\ pre' = <<>>
      BY <2>1, <2>6
    <3>2. Len(pre) = 0 /\ Len(pre') = 0 /\ k + Len(p2c) + Len(pre) = k + Len(p2c)
      BY <1>1, <2>4, <2>6, <3>1
    <3>3. /\ p2c' \in Seq(T) /\ s2p' \in Seq(T)
          /\ Len(p2c') = Len(p2c) + 1 /\ Len(s2p') = Len(s2p) - 1
          /\ Follows(p2c', k) /\ Follows(s2p', k + Len(p2c) + 1)
      <4> HIDE DEF k, T
      <4> QED
        BY <2>3, <2>4, <3>1, <3>2, Moved
    <3>4. /\ Follows(pre', k + Len(p2c'))
          /\ k + Len(p2c) + 1 = k + Len(p2c') + Len(pre')
          /\ k + Len(p2c') + Len(pre') + Len(s2p') = k + Len(p2c) + Len(pre) + Len(s2p)
      BY <1>1, <3>1, <3>2, <3>3 DEF Follows, Reply
    <3>5. DownTyped'
      BY <1>1, <2>1, <2>6, <3>1, <3>3 DEF DownTyped
    <3> QED
      BY <2>1, <2>2, <2>3, <3>1, <3>3, <3>4, <3>5 DEF DownOrder
  <2> QED
    BY <2>5, <2>6
<1>6. CASE ClientReads
  <2>1. /\ UNCHANGED <<answered, pre, s2p, pc, down>> /\ p2c # <<>>
        /\ seen' = Append(seen, Head(p2c)) /\ p2c' = Tail(p2c)
    BY <1>6 DEF ClientReads, proxyVars, remoteVars
  <2>2. Taken = Reply /\ ~GivenUp /\ down # "off" /\ UNCHANGED <<Taken, GivenUp>>
    BY <1>1, <2>1, AllTaken DEF Taken, GivenUp, DownOrder
  <2>3. /\ Follows(seen, Reply) /\ Follows(p2c, Reply + Len(seen))
        /\ seen \in Seq(T) /\ p2c \in Seq(T) /\ Reply \in Nat
    BY <1>1, <2>2 DEF DownTyped, DownOrder, GivenUp, Reply
  <2>4. /\ seen' \in Seq(T) /\ p2c' \in Seq(T)
        /\ Len(seen') = Len(seen) + 1 /\ Len(p2c') = Len(p2c) - 1
        /\ Follows(seen', Reply) /\ Follows(p2c', Reply + Len(seen) + 1)
    BY <2>1, <2>3, Moved
  <2>5. /\ Reply + Len(seen) + 1 = Reply + Len(seen')
        /\ Reply + Len(seen) + Len(p2c) = Reply + Len(seen') + Len(p2c')
    BY <1>1, <2>3, <2>4
  <2>6. DownTyped'
    BY <1>1, <2>1, <2>4 DEF DownTyped
  <2> QED
    BY <1>1, <2>1, <2>2, <2>4, <2>5, <2>6 DEF DownOrder, GivenUp
<1>7. CASE SingBoxSends
  <2> DEFINE k == Taken + Len(seen) + Len(p2c) + Len(pre)
  <2>1. /\ UNCHANGED <<pre, seen, p2c, pc, down>>
        /\ answered' = answered + 1 /\ s2p' = Append(s2p, answered + 1)
        /\ answered = 0 \/ answered < Reply + Answer
    BY <1>7 DEF SingBoxSends, clientVars, proxyVars
  <2>2. UNCHANGED <<Taken, GivenUp>>
    BY <2>1 DEF Taken, GivenUp
  <2>3. answered' \in T
    BY <1>1, <2>1 DEF DownTyped, Reply
  <2>4. DownTyped'
    BY <1>1, <2>1, <2>3, AppendProperties DEF DownTyped
  <2>5. CASE GivenUp
    BY <1>1, <2>1, <2>2, <2>4, <2>5 DEF DownOrder, GivenUp
  <2>6. CASE ~GivenUp
    <3>1. Follows(s2p, k) /\ k + Len(s2p) = answered /\ k \in Nat /\ s2p \in Seq(T)
      BY <1>1, <2>6 DEF DownTyped, DownOrder, GivenUp
    <3>2. Len(s2p') = Len(s2p) + 1 /\ Follows(s2p', k)
      <4> HIDE DEF k, T
      <4>1. answered' = k + Len(s2p) + 1
        BY <2>1, <3>1
      <4> QED
        BY <2>1, <2>3, <3>1, <4>1, Added
    <3>3. k + Len(s2p') = answered'
      BY <1>1, <2>1, <3>1, <3>2
    <3> QED
      BY <1>1, <2>1, <2>2, <2>4, <2>6, <3>2, <3>3 DEF DownOrder, GivenUp
  <2> QED
    BY <2>5, <2>6
<1> QED
  BY <1>2, <1>3, <1>4, <1>5, <1>6, <1>7
  DEF Next, Handle, Down, Ends, Others, Sniff

(***************************************************************************)
(* Where the handler, the copies and the ends are.                         *)
(***************************************************************************)
ControlTyped ==
  /\ kind \in Kinds /\ hello \in 2 .. Longest + 2
  /\ cl \in {"open", "fin", "gone"}
  /\ pc \in Sniffing \cup Dialing \cup {"splice", "closed"}
  /\ shut \subseteq {"client", "remote"}
  /\ up \in Copies /\ down \in Copies
  /\ sb \in {"off", "greeted", "asked", "fin", "gone"}

LEMMA ControlStep ==
  ASSUME IInv, [Next]_vars
  PROVE  ControlTyped' /\ CopiesFit' /\ EndedEmpty'
<1> DEFINE I == ControlTyped /\ CopiesFit /\ EndedEmpty
<1>1. I
  BY DEF IInv, TypeOK, ControlTyped
<1> USE DEF ControlTyped, CopiesFit, EndedEmpty, Kinds, Sniffing, Dialing, Copies,
            clientVars, proxyVars, remoteVars
<1>2. CASE Sniff
  BY <1>1, <1>2 DEF Sniff, Fill, SniffHeader, SniffRecord, BufferFull, HelloCut, Expire,
                    Short, CloseClient, GoOn
<1>3. CASE Dial \/ FillReply \/ ReadGreeting \/ ReadReply \/ ReadAddress \/ DialFails
  BY <1>1, <1>3, ZenonT(40) DEF Dial, FillReply, ReadGreeting, ReadReply, ReadAddress, DialFails
<1>4. CASE Up
  BY <1>1, <1>4, ZenonT(40) DEF Up, UpCopy, UpEnds, UpFails
<1>5. CASE Down
  BY <1>1, <1>5, ZenonT(40) DEF Down, DownCopy, DownEnds, DownFails
<1>6. CASE Return
  BY <1>1, <1>6 DEF Return
<1>7. CASE ClientSends \/ ClientReads \/ SingBoxSends \/ SingBoxReads
  <2>1. CASE ClientSends
    BY <1>1, <2>1 DEF ClientSends
  <2>2. CASE ClientReads
    BY <1>1, <2>2 DEF ClientReads
  <2>3. CASE SingBoxSends
    BY <1>1, <2>3 DEF SingBoxSends
  <2>4. CASE SingBoxReads
    BY <1>1, <2>4 DEF SingBoxReads
  <2> QED
    BY <1>7, <2>1, <2>2, <2>3, <2>4
<1>8. ASSUME NEW how \in {"fin", "gone"}, ClientEnds(how) \/ SingBoxEnds(how)
      PROVE  I'
  BY <1>1, <1>8, ZenonT(40) DEF ClientEnds, SingBoxEnds
<1>9. CASE UNCHANGED vars
  BY <1>1, <1>9 DEF vars
<1> QED
  BY <1>2, <1>3, <1>4, <1>5, <1>6, <1>7, <1>8, <1>9 DEF Next, Handle, Ends, Sniff

(***************************************************************************)
(* The theorems.                                                           *)
(***************************************************************************)
(* No step of the connection breaks the invariant.                         *)
LEMMA InvariantKept == IInv /\ [Next]_vars => IInv'
<1>. SUFFICES ASSUME IInv, [Next]_vars PROVE IInv'
  OBVIOUS
<1>1. UpTyped' /\ UpOrder'
  BY UpStep
<1>2. DownTyped' /\ DownOrder'
  BY DownStep
<1>3. ControlTyped' /\ CopiesFit' /\ EndedEmpty'
  BY ControlStep
<1>4. TypeOK'
  BY <1>1, <1>2, <1>3 DEF TypeOK, UpTyped, DownTyped, ControlTyped
<1> QED
  BY <1>1, <1>2, <1>3, <1>4 DEF IInv

(* The invariant is inductive and holds in every state: no unit of either  *)
(* stream is ever lost between the socket, the peeked bytes, the bytes     *)
(* read ahead of the SOCKS5 reply and the other socket (proxy.go,          *)
(* socks5.go), until a failed dial or the close gives the rest up.         *)
THEOREM Invariance == Spec => []IInv
BY Initially, InvariantKept, PTL DEF Spec

(* Every variable keeps its type; no copy has more in flight than the peer *)
(* has room for, and the peeks never hold more than the reader's buffer.   *)
THEOREM TypeCorrect == Spec => []TypeOK
<1>1. IInv => TypeOK
  BY DEF IInv
<1> QED
  BY <1>1, Invariance, PTL

(* Streams that are unbroken are received in order.                        *)
LEMMA OrderFollows == IInv => InOrder
<1> SUFFICES ASSUME IInv PROVE InOrder
  OBVIOUS
<1>1. DOMAIN got = 1 .. Len(got) /\ DOMAIN seen = 1 .. Len(seen)
  BY LenProperties DEF IInv, TypeOK
<1> QED
  BY <1>1 DEF IInv, UpOrder, DownOrder, Follows, InOrder

(* What either end receives is what the other sent, in order and without   *)
(* gap, however the reads of the sniff, the dial and the copies fall.      *)
THEOREM ReplayIsFaithful == Spec => []InOrder
BY OrderFollows, Invariance, PTL

(* A copy that left nothing behind has passed on everything.               *)
LEMMA WholeFollows == IInv => FirstEndIsWhole
<1> SUFFICES ASSUME IInv PROVE FirstEndIsWhole
  OBVIOUS
<1> SUFFICES ASSUME pc = "splice", "gone" \notin {cl, sb}
             PROVE  /\ up = "done" => cl = "fin" /\ Len(got) + Len(p2s) = sent
                    /\ down = "done" =>
                         sb = "fin" /\ Reply + Len(seen) + Len(p2c) = answered
  BY DEF FirstEndIsWhole
<1>1. /\ Len(got) \in Nat /\ Len(p2s) \in Nat /\ Len(seen) \in Nat /\ Len(p2c) \in Nat
  BY Lengths DEF IInv
<1>2. ASSUME up = "done" PROVE cl = "fin" /\ Len(got) + Len(p2s) = sent
  <2>1. cl = "fin" /\ Len(buffered) = 0 /\ Len(c2p) = 0
    BY <1>2 DEF IInv, EndedEmpty
  <2> QED
    BY <1>1, <2>1 DEF IInv, UpOrder
<1>3. ASSUME down = "done"
      PROVE  sb = "fin" /\ Reply + Len(seen) + Len(p2c) = answered
  <2>1. sb = "fin" /\ Len(pre) = 0 /\ Len(s2p) = 0 /\ Taken = Reply
    BY <1>3, AllTaken DEF IInv, EndedEmpty
  <2>2. Taken + Len(seen) + Len(p2c) + Len(pre) + Len(s2p) = answered
    BY <1>1 DEF IInv, DownOrder
  <2> QED
    BY <1>1, <2>1, <2>2 DEF Reply
<1> QED
  BY <1>2, <1>3

(* The copy that ends the connection has passed on all its source sent.    *)
THEOREM NothingLeftBehind == Spec => []FirstEndIsWhole
BY WholeFollows, Invariance, PTL
=============================================================================
