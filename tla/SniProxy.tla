------------------------------ MODULE SniProxy ------------------------------
(***************************************************************************)
(* One connection through the SNI proxy (pkg/sni): the handler that peeks  *)
(* at the TLS ClientHello and opens a SOCKS5 tunnel to the local sing-box, *)
(* then two copies, one in each direction, and the close.  The handlers of *)
(* different connections share nothing.                                    *)
(*                                                                         *)
(* Both streams are sequences of numbered units.  The first units of the   *)
(* client's stream are its first TLS record, of which unit 1 is the record *)
(* header.  Units 1, 2 and 3 of sing-box's stream are its answer to the    *)
(* SOCKS5 greeting, the head of its reply to the request and the address   *)
(* of that reply; the target's bytes follow.  A read or write of several   *)
(* units is several steps.                                                 *)
(***************************************************************************)
EXTENDS Naturals, Sequences

CONSTANTS
  Request, \* units the client may send
  Answer,  \* units the target may send
  Buffer,  \* capacity of bufio.Reader
  Longest, \* tlsRecordMaxBytes
  Room     \* units a socket takes while its peer does not read

ASSUME ProxyAssumption ==
  /\ Request \in Nat /\ Answer \in Nat
  /\ Buffer \in Nat \ {0} /\ Longest \in Nat \ {0} /\ Room \in Nat \ {0}

VARIABLES
  kind,     \* what the client's first record is
  hello,    \* its length
  cl,       \* the client: sending, half-closed or gone
  sent,     \* units it has sent
  c2p, p2c, \* in flight from and to it
  seen,     \* what it has received
  pc,       \* the handler's next step
  buffered, \* what the peeks have taken from the client's stream
  pre,      \* what the reader of the SOCKS5 answers has taken, prefixConn.pre
  shut,     \* the connections the proxy has closed
  up, down, \* the two copies
  sb,       \* sing-box, which stands for the target behind it
  answered, \* units it has sent
  s2p, p2s, \* in flight from and to it
  got       \* what it has received after the SOCKS5 request

clientVars == <<kind, hello, cl, sent, c2p, p2c, seen>>
proxyVars == <<pc, buffered, pre, shut, up, down>>
remoteVars == <<sb, answered, s2p, p2s, got>>
vars == <<clientVars, proxyVars, remoteVars>>

Kinds == {"hello", "nameless", "notTLS"}
Reply == 3
Sniffing == {"header", "record"}
Dialing == {"dial", "greeting", "reply", "address"}
Copies == {"off", "run", "done"}

TypeOK ==
  /\ kind \in Kinds /\ hello \in 2 .. Longest + 2
  /\ cl \in {"open", "fin", "gone"} /\ sent \in 0 .. Request
  /\ c2p \in Seq(1 .. Request) /\ got \in Seq(1 .. Request)
  /\ buffered \in Seq(1 .. Request) /\ Len(buffered) <= Buffer
  /\ p2s \in Seq(1 .. Request) /\ Len(p2s) <= Room
  /\ pc \in Sniffing \cup Dialing \cup {"splice", "closed"}
  /\ shut \subseteq {"client", "remote"}
  /\ up \in Copies /\ down \in Copies
  /\ sb \in {"off", "greeted", "asked", "fin", "gone"}
  /\ answered \in 0 .. Reply + Answer
  /\ s2p \in Seq(1 .. Reply + Answer) /\ pre \in Seq(1 .. Reply + Answer)
  /\ seen \in Seq(1 .. Reply + Answer)
  /\ p2c \in Seq(1 .. Reply + Answer) /\ Len(p2c) <= Room

Init ==
  /\ kind \in Kinds /\ hello \in 2 .. Longest + 2
  /\ cl = "open" /\ sent = 0 /\ c2p = <<>> /\ p2c = <<>> /\ seen = <<>>
  /\ pc = "header" /\ buffered = <<>> /\ pre = <<>> /\ shut = {}
  /\ up = "off" /\ down = "off"
  /\ sb = "off" /\ answered = 0 /\ s2p = <<>> /\ p2s = <<>> /\ got = <<>>

(***************************************************************************)
(* extractSNI.  The read deadline of 10 s covers both peeks.               *)
(***************************************************************************)
Fill ==
  /\ pc \in Sniffing /\ c2p # <<>> /\ Len(buffered) < Buffer
  /\ buffered' = Append(buffered, Head(c2p)) /\ c2p' = Tail(c2p)
  /\ UNCHANGED <<kind, hello, cl, sent, p2c, seen, pc, pre, shut, up, down, remoteVars>>

CloseClient ==
  /\ pc' = "closed" /\ shut' = {"client"}
  /\ UNCHANGED <<clientVars, buffered, pre, up, down, remoteVars>>

GoOn(l) ==
  /\ pc' = l
  /\ UNCHANGED <<clientVars, buffered, pre, shut, up, down, remoteVars>>

(* The record header is there: its type and the length it announces.       *)
SniffHeader ==
  /\ pc = "header" /\ buffered # <<>>
  /\ IF kind = "notTLS" \/ hello > Longest + 1 THEN CloseClient ELSE GoOn("record")

(* The whole record is there and holds a server name, or none.             *)
SniffRecord ==
  /\ pc = "record" /\ Len(buffered) >= hello
  /\ IF kind = "hello" THEN GoOn("dial") ELSE CloseClient

(* Peek cannot show more than the reader buffers (ErrBufferFull).          *)
BufferFull ==
  /\ pc = "record" /\ Len(buffered) = Buffer /\ hello > Buffer
  /\ CloseClient

(* The peek wants more than has arrived.                                   *)
Short ==
  \/ pc = "header" /\ buffered = <<>>
  \/ pc = "record" /\ Len(buffered) < hello

(* The client's stream ends first.                                         *)
HelloCut ==
  /\ Short /\ (cl = "gone" \/ (cl = "fin" /\ c2p = <<>>))
  /\ CloseClient

(* Mutant of Expire: the deadline is lifted after the first peek.          *)
ExpireHeader ==
  /\ Short /\ pc = "header"
  /\ CloseClient

Expire ==
  /\ Short
  /\ CloseClient

(***************************************************************************)
(* dialSOCKS5.                                                             *)
(***************************************************************************)
(* Mutant of Dial: it does not say where it goes on.                       *)
DialNowhere ==
  /\ pc = "dial" /\ sb = "off"
  /\ pc' = "connected" /\ sb' = "greeted"
  /\ UNCHANGED <<clientVars, buffered, pre, shut, up, down, answered, s2p, p2s, got>>

(* Connect and send the greeting.                                          *)
Dial ==
  /\ pc = "dial" /\ sb = "off"
  /\ pc' = "greeting" /\ sb' = "greeted"
  /\ UNCHANGED <<clientVars, buffered, pre, shut, up, down, answered, s2p, p2s, got>>

(* The reader over the connection reads ahead of what it is asked for.     *)
FillReply ==
  /\ pc \in Dialing /\ s2p # <<>>
  /\ pre' = Append(pre, Head(s2p)) /\ s2p' = Tail(s2p)
  /\ UNCHANGED <<clientVars, pc, buffered, shut, up, down, sb, answered, p2s, got>>

(* The greeting is answered: send the request.                             *)
ReadGreeting ==
  /\ pc = "greeting" /\ pre # <<>>
  /\ pc' = "reply" /\ pre' = Tail(pre)
  /\ sb' = IF sb = "greeted" THEN "asked" ELSE sb
  /\ UNCHANGED <<clientVars, buffered, shut, up, down, answered, s2p, p2s, got>>

ReadReply ==
  /\ pc = "reply" /\ pre # <<>>
  /\ pc' = "address" /\ pre' = Tail(pre)
  /\ UNCHANGED <<clientVars, buffered, shut, up, down, remoteVars>>

(* Mutant of Stitch: what was read ahead stays with the SOCKS5 reader.     *)
StitchNothing == <<>>

(* What was read ahead is put before the connection.                       *)
Stitch == Tail(pre)

(* The address is skipped, the deadline lifted and the copies start.       *)
ReadAddress ==
  /\ pc = "address" /\ pre # <<>>
  /\ pc' = "splice" /\ pre' = Stitch
  /\ up' = "run" /\ down' = "run"
  /\ UNCHANGED <<clientVars, buffered, shut, remoteVars>>

(* A refused or failed connection, a negative or odd reply, an error, or   *)
(* the deadline: whatever the reason both connections are closed.          *)
DialFails ==
  /\ pc \in Dialing
  /\ pc' = "closed" /\ shut' = {"client", "remote"}
  /\ UNCHANGED <<clientVars, buffered, pre, up, down, remoteVars>>

(***************************************************************************)
(* The copies.  A copy that waits to write waits for Room.                 *)
(***************************************************************************)
UpCopy ==
  /\ up = "run" /\ shut = {} /\ Len(p2s) < Room
  /\ \/ /\ buffered # <<>>
        /\ p2s' = Append(p2s, Head(buffered)) /\ buffered' = Tail(buffered)
        /\ UNCHANGED c2p
     \/ /\ buffered = <<>> /\ c2p # <<>>
        /\ p2s' = Append(p2s, Head(c2p)) /\ c2p' = Tail(c2p)
        /\ UNCHANGED buffered
  /\ UNCHANGED <<kind, hello, cl, sent, p2c, seen, pc, pre, shut, up, down,
                 sb, answered, s2p, got>>

DownCopy ==
  /\ down = "run" /\ shut = {} /\ Len(p2c) < Room
  /\ \/ /\ pre # <<>>
        /\ p2c' = Append(p2c, Head(pre)) /\ pre' = Tail(pre)
        /\ UNCHANGED s2p
     \/ /\ pre = <<>> /\ s2p # <<>>
        /\ p2c' = Append(p2c, Head(s2p)) /\ s2p' = Tail(s2p)
        /\ UNCHANGED pre
  /\ UNCHANGED <<kind, hello, cl, sent, c2p, seen, pc, buffered, shut, up, down,
                 sb, answered, p2s, got>>

(* Mutant of UpFails: the sniffing deadline is still armed.                *)
UpFailsLate == buffered = <<>>

(* io.Copy(remote, buffered) ends: reading fails or comes to the end, or   *)
(* there is something to write and writing fails.                          *)
UpFails ==
  \/ /\ buffered = <<>>
     /\ "client" \in shut \/ cl = "gone" \/ (cl = "fin" /\ c2p = <<>>)
  \/ /\ buffered # <<>> \/ c2p # <<>>
     /\ "remote" \in shut \/ sb = "gone"

UpEnds ==
  /\ up = "run" /\ UpFails
  /\ up' = "done"
  /\ UNCHANGED <<clientVars, pc, buffered, pre, shut, down, remoteVars>>

(* io.Copy(client, remote), likewise.                                      *)
DownFails ==
  \/ /\ pre = <<>>
     /\ "remote" \in shut \/ sb = "gone" \/ (sb = "fin" /\ s2p = <<>>)
  \/ /\ pre # <<>> \/ s2p # <<>>
     /\ "client" \in shut \/ cl = "gone"

DownEnds ==
  /\ down = "run" /\ DownFails
  /\ down' = "done"
  /\ UNCHANGED <<clientVars, pc, buffered, pre, shut, up, remoteVars>>

(* Mutant of Return: the tunnel is not closed.                             *)
ReturnClientOnly ==
  /\ pc = "splice" /\ (up = "done" \/ down = "done")
  /\ pc' = "closed" /\ shut' = {"client"}
  /\ UNCHANGED <<clientVars, buffered, pre, up, down, remoteVars>>

(* The handler returns when the first copy ends; the deferred calls close  *)
(* both connections.                                                       *)
Return ==
  /\ pc = "splice" /\ (up = "done" \/ down = "done")
  /\ pc' = "closed" /\ shut' = {"client", "remote"}
  /\ UNCHANGED <<clientVars, buffered, pre, up, down, remoteVars>>

Handle ==
  \/ Fill \/ SniffHeader \/ SniffRecord \/ BufferFull \/ HelloCut \/ Expire
  \/ Dial \/ FillReply \/ ReadGreeting \/ ReadReply \/ ReadAddress \/ DialFails
  \/ Return

Up == UpCopy \/ UpEnds
Down == DownCopy \/ DownEnds

(***************************************************************************)
(* The two ends.                                                           *)
(***************************************************************************)
ClientSends ==
  /\ cl = "open" /\ sent < Request
  /\ sent' = sent + 1 /\ c2p' = Append(c2p, sent + 1)
  /\ UNCHANGED <<kind, hello, cl, p2c, seen, proxyVars, remoteVars>>

ClientReads ==
  /\ cl # "gone" /\ p2c # <<>>
  /\ seen' = Append(seen, Head(p2c)) /\ p2c' = Tail(p2c)
  /\ UNCHANGED <<kind, hello, cl, sent, c2p, proxyVars, remoteVars>>

ClientEnds(how) ==
  /\ cl # "gone" /\ cl # how
  /\ cl' = how
  /\ UNCHANGED <<kind, hello, sent, c2p, p2c, seen, proxyVars, remoteVars>>

(* It answers the greeting; once asked it replies and passes on what the   *)
(* target sends, without waiting for the proxy.                            *)
SingBoxSends ==
  /\ \/ sb = "greeted" /\ answered = 0
     \/ sb = "asked" /\ answered < Reply + Answer
  /\ answered' = answered + 1 /\ s2p' = Append(s2p, answered + 1)
  /\ UNCHANGED <<clientVars, proxyVars, sb, p2s, got>>

SingBoxReads ==
  /\ sb # "gone" /\ p2s # <<>>
  /\ got' = Append(got, Head(p2s)) /\ p2s' = Tail(p2s)
  /\ UNCHANGED <<clientVars, proxyVars, sb, answered, s2p>>

SingBoxEnds(how) ==
  /\ sb \notin {"off", "gone", how}
  /\ sb' = how
  /\ UNCHANGED <<clientVars, proxyVars, answered, s2p, p2s, got>>

Ends ==
  \/ ClientSends \/ ClientReads \/ SingBoxSends \/ SingBoxReads
  \/ \E how \in {"fin", "gone"} : ClientEnds(how) \/ SingBoxEnds(how)

Next == Handle \/ Up \/ Down \/ Ends

Spec == Init /\ [][Next]_vars

(* The handler and the copies run on, and their deadlines expire; nothing  *)
(* is assumed of the two ends.                                             *)
FairSpec == Spec /\ WF_vars(Handle) /\ WF_vars(Up) /\ WF_vars(Down)

(***************************************************************************)
(* Properties.                                                             *)
(***************************************************************************)
(* The ClientHello is replayed and the rest spliced (proxy.go:8-10): what  *)
(* either end receives is what the other sent, from its first unit on,     *)
(* without gap or repetition, although the peeks and the SOCKS5 reader     *)
(* have taken the beginning of both streams.                               *)
InOrder ==
  /\ \A i \in DOMAIN got : got[i] = i
  /\ \A i \in DOMAIN seen : seen[i] = Reply + i

(* The copy that ends first, and with it the connection, has passed on all *)
(* that its source sent before it finished, unless an end is gone.         *)
FirstEndIsWhole ==
  pc = "splice" /\ "gone" \notin {cl, sb} =>
    /\ up = "done" => cl = "fin" /\ Len(got) + Len(p2s) = sent
    /\ down = "done" => sb = "fin" /\ Reply + Len(seen) + Len(p2c) = answered

(* No client holds a handler in the sniff or the dial for ever.            *)
Decided == pc \in Sniffing \cup Dialing ~> pc \in {"splice", "closed"}

(* When a connection is closed neither copy is left behind.                *)
CopiesEnd == pc = "closed" ~> up # "run" /\ down # "run"

(***************************************************************************)
(* The inductive invariant behind the safety properties.                   *)
(***************************************************************************)
(* s holds the units of a stream that follow the first k.                  *)
Follows(s, k) == \A i \in 1 .. Len(s) : s[i] = k + i

(* The client's stream, from what has arrived back to what is in flight.   *)
UpOrder ==
  /\ Follows(got, 0)
  /\ Follows(p2s, Len(got))
  /\ Follows(buffered, Len(got) + Len(p2s))
  /\ Follows(c2p, Len(got) + Len(p2s) + Len(buffered))
  /\ Len(got) + Len(p2s) + Len(buffered) + Len(c2p) = sent

(* How much of sing-box's stream the dial has consumed.                    *)
Taken ==
  IF pc = "reply" THEN 1 ELSE IF pc = "address" THEN 2 ELSE IF down = "off" THEN 0 ELSE Reply

(* sing-box's stream, until a failed dial gives it up.                     *)
DownOrder ==
  /\ down = "off" => seen = <<>> /\ p2c = <<>>
  /\ Follows(seen, Reply)
  /\ ~(pc = "closed" /\ down = "off") =>
       /\ Follows(p2c, Taken + Len(seen))
       /\ Follows(pre, Taken + Len(seen) + Len(p2c))
       /\ Follows(s2p, Taken + Len(seen) + Len(p2c) + Len(pre))
       /\ Taken + Len(seen) + Len(p2c) + Len(pre) + Len(s2p) = answered

(* The copies run from the splice on, and nothing is closed until then.    *)
CopiesFit ==
  /\ pc \in Sniffing \cup Dialing => up = "off" /\ down = "off" /\ shut = {}
  /\ pc = "splice" => up # "off" /\ down # "off" /\ shut = {}
  /\ up = "off" <=> down = "off"

(* While the other copy may still run, the one that ended left nothing.    *)
EndedEmpty ==
  pc = "splice" /\ "gone" \notin {cl, sb} =>
    /\ up = "done" => cl = "fin" /\ buffered = <<>> /\ c2p = <<>>
    /\ down = "done" => sb = "fin" /\ pre = <<>> /\ s2p = <<>>

IInv == TypeOK /\ UpOrder /\ DownOrder /\ CopiesFit /\ EndedEmpty
=============================================================================
