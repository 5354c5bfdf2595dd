------------------------ MODULE SniConnectionProofs ------------------------
(***************************************************************************)
(* Proofs about ClientHello, for messages of any length and any bytes, and *)
(* about the proxy and its parser put together: what is proved of each     *)
(* holds in the connection that contains both.                             *)
(***************************************************************************)
EXTENDS SniConnection, SniProxyProofs

USE HelloAssumption

(* What holds between the steps, without the case distinction on the label.*)
LEMMA Numbers ==
  ASSUME ParseInv
  PROVE  len \in Nat /\ cur \in Nat /\ end \in Nat /\ top \in Nat /\ end <= len /\ top <= len
BY DEF ParseInv, ParseTypeOK

(* An outcome other than a name or a panic needs nothing.                  *)
LEMMA Given ==
  ASSUME ParseInv, Give("error"), top' \in Nat, top' <= len
  PROVE  ParseInv'
BY DEF ParseInv, ParseTypeOK, Give, Labels, Outcomes, ReadsInside, NameInside

(* Skipping leads to a label whose need has been checked.                  *)
LEMMA Skipped ==
  ASSUME ParseInv,
         NEW to \in Nat, NEW need \in Nat, NEW next \in Labels \ {"head"},
         need = Needs[next], next = "session" => to = Fixed /\ end = len,
         Skip(to, need, next), top' \in Nat, top' <= to, top' <= len
  PROVE  ParseInv'
<1>1. CASE to + need > end
  BY <1>1 DEF ParseInv, ParseTypeOK, Skip, Labels, Outcomes, ReadsInside, NameInside
<1>2. CASE ~(to + need > end)
  <2>1. /\ at' = next /\ cur' = to /\ end' = end /\ len' = len /\ name' = name
        /\ cur' + need <= end' /\ top' <= cur'
    BY <1>2, Numbers DEF Skip
  <2>2. next # "name" /\ next # "panic" /\ next # "head"
    BY DEF Labels
  <2> QED
    BY <2>1, <2>2 DEF ParseInv, ParseTypeOK, ReadsInside, NameInside
<1> QED
  BY <1>1, <1>2

(* So does going into a part.                                              *)
LEMMA Entered ==
  ASSUME ParseInv,
         NEW from \in Nat, NEW n \in Nat, NEW next \in {"extension", "list", "names"},
         Enter(from, n, next), top' = from, from <= len
  PROVE  ParseInv'
<1>1. CASE from + n > end
  BY <1>1, Given DEF Enter
<1>2. CASE ~(from + n > end)
  <2>1. /\ at' = next /\ cur' = from /\ end' = from + n /\ len' = len /\ name' = name
        /\ end' \in Nat /\ end' <= len' /\ cur' <= end'
    BY <1>2, Numbers DEF Enter
  <2>2. next \in Labels /\ next \notin {"name", "panic", "head", "session"} /\ Needs[next] = 0
    BY DEF Labels, Needs
  <2> QED
    BY <2>1, <2>2 DEF ParseInv, ParseTypeOK, ReadsInside, NameInside
<1> QED
  BY <1>1, <1>2

LEMMA FoundName ==
  ASSUME ParseInv,
         NEW from \in Nat, NEW n \in Nat,
         Found(from, from + n), top' = from, from <= len
  PROVE  ParseInv'
<1>1. CASE from + n > end
  BY <1>1, Given DEF Found
<1>2. CASE ~(from + n > end)
  BY <1>2, Numbers DEF Found, ParseInv, ParseTypeOK, Labels, Outcomes, ReadsInside, NameInside
<1> QED
  BY <1>1, <1>2

LEMMA ParserBegins == ParseInit => ParseInv
BY DEF ParseInit, ParseInv, ParseTypeOK, Labels, Needs, ReadsInside, NameInside, NoName

LEMMA ParserKeeps == ParseInv /\ [Parse]_parseVars => ParseInv'
<1> SUFFICES ASSUME ParseInv, [Parse]_parseVars PROVE ParseInv'
  OBVIOUS
<1>0. /\ len \in Nat /\ cur \in Nat /\ end \in Nat /\ top \in Nat
      /\ end <= len /\ top <= len
  BY Numbers
<1>n. \A n : n \in Byte \cup Word => n \in Nat
  BY DEF Byte, Word
<1>l. at \in Labels => top <= cur /\ cur + Needs[at] <= end
  BY DEF ParseInv
<1>s. /\ {"session", "ciphers", "compressions", "extensions", "extension", "names"}
           \subseteq Labels \ {"head"}
      /\ Needs["session"] = 0 /\ Needs["ciphers"] = 2 /\ Needs["compressions"] = 1
      /\ Needs["extensions"] = 2 /\ Needs["extension"] = 0 /\ Needs["names"] = 0
  BY DEF Labels, Needs
<1>1. CASE ParseHead
  <2>1. CASE len < 4
    BY <1>0, <1>1, <2>1, Given DEF ParseHead
  <2>2. CASE ~(len < 4)
    <3>1. top' = 1 /\ (Give("error") \/ Skip(Fixed, 0, "session"))
      BY <1>1, <2>2 DEF ParseHead, Reads
    <3>2. cur = 0 /\ end = len
      BY <1>1 DEF ParseHead, ParseInv
    <3>3. CASE Give("error")
      BY <1>0, <2>2, <3>1, <3>3, Given
    <3>4. CASE Skip(Fixed, 0, "session")
      <4>1. Fixed \in Nat /\ top' \in Nat /\ top' <= Fixed /\ top' <= len
        BY <1>0, <2>2, <3>1 DEF Fixed
      <4> QED
        BY <1>s, <3>2, <3>4, <4>1, Skipped
    <3> QED
      BY <3>1, <3>3, <3>4
  <2> QED
    BY <2>1, <2>2
<1>2. CASE ParseSession
  <2>1. at = "session" /\ cur = Fixed /\ end = len /\ top <= cur /\ cur <= len
    BY <1>0, <1>2, <1>l DEF ParseSession, ParseInv, Labels, Needs
  <2>2. CASE cur = len
    BY <1>0, <1>2, <2>1, <2>2
      DEF ParseSession, ParseInv, ParseTypeOK, Give, Labels, Outcomes, ReadsInside, NameInside
  <2>3. CASE cur # len
    <3>1. PICK n \in Byte : top' = cur + 1 /\ Skip(cur + 1 + n, 2, "ciphers")
      BY <1>2, <2>3 DEF ParseSession, Reads
    <3>2. n \in Nat
      BY <1>n
    <3>3. cur + 1 + n \in Nat /\ top' \in Nat /\ top' <= cur + 1 + n /\ top' <= len
      BY <1>0, <2>1, <2>3, <3>1, <3>2
    <3> QED
      BY <1>s, <3>1, <3>3, Skipped
  <2> QED
    BY <2>2, <2>3
<1>3. CASE ParseCiphers
  <2>1. PICK n \in Word : top' = cur + 2 /\ Skip(cur + 2 + n, 1, "compressions")
    BY <1>3 DEF ParseCiphers, Reads
  <2>2. n \in Nat /\ cur + 2 <= end
    BY <1>3, <1>n, <1>l DEF ParseCiphers, Labels, Needs
  <2>3. cur + 2 + n \in Nat /\ top' \in Nat /\ top' <= cur + 2 + n /\ top' <= len
    BY <1>0, <2>1, <2>2
  <2> QED
    BY <1>s, <2>1, <2>3, Skipped
<1>4. CASE ParseCompressions
  <2>1. PICK n \in Byte : top' = cur + 1 /\ Skip(cur + 1 + n, 2, "extensions")
    BY <1>4 DEF ParseCompressions, Reads
  <2>2. n \in Nat /\ cur + 1 <= end
    BY <1>4, <1>n, <1>l DEF ParseCompressions, Labels, Needs
  <2>3. cur + 1 + n \in Nat /\ top' \in Nat /\ top' <= cur + 1 + n /\ top' <= len
    BY <1>0, <2>1, <2>2
  <2> QED
    BY <1>s, <2>1, <2>3, Skipped
<1>5. CASE ParseExtensions
  <2>1. PICK n \in Word : top' = cur + 2 /\ Enter(cur + 2, n, "extension")
    BY <1>5 DEF ParseExtensions, Reads
  <2>2. n \in Nat /\ cur + 2 <= end
    BY <1>5, <1>n, <1>l DEF ParseExtensions, Labels, Needs
  <2> QED
    BY <1>0, <2>1, <2>2, Entered
<1>6. CASE ParseExtension
  <2>1. CASE cur + 4 > end
    BY <1>0, <1>6, <2>1, Given DEF ParseExtension
  <2>2. CASE ~(cur + 4 > end)
    <3>1. PICK n \in Word :
            top' = cur + 4 /\ (Enter(cur + 4, n, "list") \/ Skip(cur + 4 + n, 0, "extension"))
      BY <1>6, <2>2 DEF ParseExtension, Reads
    <3>2. n \in Nat
      BY <1>n
    <3>3. CASE Enter(cur + 4, n, "list")
      BY <1>0, <2>2, <3>1, <3>2, <3>3, Entered
    <3>4. CASE Skip(cur + 4 + n, 0, "extension")
      <4>1. cur + 4 + n \in Nat /\ top' \in Nat /\ top' <= cur + 4 + n /\ top' <= len
        BY <1>0, <2>2, <3>1, <3>2
      <4> QED
        BY <1>s, <3>4, <4>1, Skipped
    <3> QED
      BY <3>1, <3>3, <3>4
  <2> QED
    BY <2>1, <2>2
<1>7. CASE ParseList
  <2>1. CASE cur + 2 > end
    BY <1>0, <1>7, <2>1, Given DEF ParseList
  <2>2. CASE ~(cur + 2 > end)
    <3>1. PICK n \in Word : top' = cur + 2 /\ Enter(cur + 2, n, "names")
      BY <1>7, <2>2 DEF ParseList, Reads
    <3>2. n \in Nat
      BY <1>n
    <3> QED
      BY <1>0, <2>2, <3>1, <3>2, Entered
  <2> QED
    BY <2>1, <2>2
<1>8. CASE ParseNames
  <2>1. CASE cur + 3 > end
    BY <1>0, <1>8, <2>1, Given DEF ParseNames
  <2>2. CASE ~(cur + 3 > end)
    <3>1. PICK n \in Word :
            top' = cur + 3 /\ (Found(cur + 3, cur + 3 + n) \/ Skip(cur + 3 + n, 0, "names"))
      BY <1>8, <2>2 DEF ParseNames, Reads
    <3>2. n \in Nat
      BY <1>n
    <3>3. CASE Found(cur + 3, cur + 3 + n)
      <4>1. cur + 3 \in Nat /\ cur + 3 <= len
        BY <1>0, <2>2
      <4> QED
        BY <3>1, <3>2, <3>3, <4>1, FoundName
    <3>4. CASE Skip(cur + 3 + n, 0, "names")
      <4>1. cur + 3 + n \in Nat /\ top' \in Nat /\ top' <= cur + 3 + n /\ top' <= len
        BY <1>0, <2>2, <3>1, <3>2
      <4> QED
        BY <1>s, <3>4, <4>1, Skipped
    <3> QED
      BY <3>1, <3>3, <3>4
  <2> QED
    BY <2>1, <2>2
<1>9. CASE UNCHANGED parseVars
  BY <1>9 DEF parseVars, ParseInv, ParseTypeOK, ReadsInside, NameInside
<1> QED
  BY <1>1, <1>2, <1>3, <1>4, <1>5, <1>6, <1>7, <1>8, <1>9 DEF Parse

(* Before each read the parser has checked what it needs.                  *)
THEOREM ParserInvariance == ParseSpec => []ParseInv
BY ParserBegins, ParserKeeps, PTL DEF ParseSpec

(* proxy.go:145-232 read no byte beyond the message, whatever it claims of *)
(* itself; only a message of exactly 38 bytes stops the program.           *)
THEOREM StaysInside == ParseSpec => []ReadsInside
<1>1. ParseInv => ReadsInside
  BY DEF ParseInv
<1> QED
  BY <1>1, ParserInvariance, PTL

(* The name handed to the dial is a slice of the list it was found in.     *)
THEOREM NamesAreInside == ParseSpec => []NameInside
<1>1. ParseInv => NameInside
  BY DEF ParseInv
<1> QED
  BY <1>1, ParserInvariance, PTL

-----------------------------------------------------------------------------
(***************************************************************************)
(* The connection.                                                         *)
(***************************************************************************)
(* Until the first record is settled, the proxy has not begun.             *)
ConnectionInv == IInv /\ ParseInv /\ (~parsed => Init)

LEMMA ConnectionBegins == ConnectionInit => ConnectionInv
BY Initially, ParserBegins DEF ConnectionInit, ConnectionInv

(* The parse moves the parser only.                                        *)
LEMMA ParseStepKeeps == ConnectionInv /\ ParseStep => ConnectionInv'
<1> SUFFICES ASSUME ConnectionInv, ParseStep PROVE ConnectionInv'
  OBVIOUS
<1>1. IInv'
  BY InvariantKept DEF ConnectionInv, ParseStep
<1>2. ParseInv'
  BY ParserKeeps DEF ConnectionInv, ParseStep
<1>3. Init'
  BY DEF ConnectionInv, ParseStep, Init, vars, clientVars, proxyVars, remoteVars
<1> QED
  BY <1>1, <1>2, <1>3 DEF ConnectionInv

(* What the record turns out to be is one of the kinds a connection may    *)
(* begin with.                                                             *)
LEMMA SettleKeeps == ConnectionInv /\ Settle => ConnectionInv'
<1>1. (Init => IInv)' /\ (ParseInit => ParseInv)'
  BY Initially, ParserBegins, PTL
<1> SUFFICES ASSUME ConnectionInv, Settle PROVE ConnectionInv'
  OBVIOUS
<1>2. Init'
  BY DEF ConnectionInv, Settle, Init, Kinds, proxyVars, remoteVars
<1>3. ParseInit'
  BY HelloAssumption DEF Settle, ParseInit
<1> QED
  BY <1>1, <1>2, <1>3 DEF ConnectionInv, Settle

(* A step of the connection leaves the parser alone.                       *)
LEMMA ConnectionKeeps == ConnectionInv /\ Connection => ConnectionInv'
BY InvariantKept, ParserKeeps DEF ConnectionInv, Connection

LEMMA ConnectionStep == ConnectionInv /\ [Parsing \/ Connection]_connectionVars => ConnectionInv'
<1>1. ConnectionInv /\ UNCHANGED connectionVars => ConnectionInv'
  <2> SUFFICES ASSUME ConnectionInv, UNCHANGED connectionVars PROVE ConnectionInv'
    OBVIOUS
  <2>1. IInv' /\ ParseInv'
    BY InvariantKept, ParserKeeps DEF ConnectionInv, connectionVars
  <2>2. ~parsed' => Init'
    BY DEF ConnectionInv, connectionVars, Init, vars, clientVars, proxyVars, remoteVars
  <2> QED
    BY <2>1, <2>2 DEF ConnectionInv
<1>2. ConnectionInv /\ (Parsing \/ Connection) => ConnectionInv'
  BY ParseStepKeeps, SettleKeeps, ConnectionKeeps, Zenon DEF Parsing
<1> QED
  BY <1>1, <1>2, Zenon

(* The invariants of the proxy and of the parser hold in every state of a  *)
(* connection whose first record is parsed.                                *)
THEOREM ConnectionInvariance == ConnectionSpec => []ConnectionInv
BY ConnectionBegins, ConnectionStep, PTL DEF ConnectionSpec

(* Whatever message opens the connection, both ends receive each other's   *)
(* bytes in order, and the direction that ends it is complete.             *)
THEOREM ConnectionIsFaithful == ConnectionSpec => [](InOrder /\ FirstEndIsWhole)
<1>1. ConnectionInv => InOrder /\ FirstEndIsWhole
  BY OrderFollows, WholeFollows DEF ConnectionInv
<1> QED
  BY <1>1, ConnectionInvariance, PTL

(* Whatever bytes the client sends, the parser stays inside the record,    *)
(* and so does the name that is dialled.                                   *)
THEOREM ConnectionParsesInside == ConnectionSpec => [](ReadsInside /\ NameInside)
<1>1. ConnectionInv => ReadsInside /\ NameInside
  BY DEF ConnectionInv, ParseInv
<1> QED
  BY <1>1, ConnectionInvariance, PTL
=============================================================================
