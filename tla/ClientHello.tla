---------------------------- MODULE ClientHello ----------------------------
(***************************************************************************)
(* parseClientHelloSNI and parseServerNameList of pkg/sni/proxy.go: the    *)
(* arithmetic on lengths with which the proxy looks for the server name in *)
(* a handshake message.                                                    *)
(*                                                                         *)
(* The parser only moves forward and reads no byte twice, so a message is  *)
(* its length and a free choice for every byte when it is read.            *)
(***************************************************************************)
EXTENDS Naturals

CONSTANTS
  LongestHello,    \* the longest message
  MaxByte, MaxWord \* values of lengths in one byte and in two

ASSUME HelloAssumption ==
  LongestHello \in Nat /\ MaxByte \in Nat /\ MaxWord \in Nat

VARIABLES
  len,      \* the length of the message
  at,       \* what the parser looks at next, or the outcome
  cur,      \* where it has got to
  end,      \* where what encloses that ends
  top,      \* where the bytes it has read end (history)
  name      \* the name it found: its first byte and the first one after it

parseVars == <<len, at, cur, end, top, name>>

Byte == 0 .. MaxByte
Word == 0 .. MaxWord

(* Type, length, version and random.                                       *)
Fixed == 4 + 2 + 32

Outcomes == {"name", "error", "panic"}
Labels == {"head", "session", "ciphers", "compressions", "extensions",
           "extension", "list", "names"}

NoName == [from |-> 0, to |-> 0]

ParseTypeOK ==
  /\ len \in 0 .. LongestHello
  /\ at \in Labels \cup Outcomes
  /\ cur \in Nat /\ end \in Nat /\ top \in Nat
  /\ name \in [from : Nat, to : Nat]

ParseInit ==
  /\ len \in 0 .. LongestHello
  /\ at = "head" /\ cur = 0 /\ end = len /\ top = 0 /\ name = NoName

(* The bytes up to `to` are read.                                          *)
Reads(to) == top' = to

Give(outcome) == at' = outcome /\ UNCHANGED <<len, cur, end, name>>

(* What lies before `to` is skipped; `need` bytes have to follow.          *)
Skip(to, need, next) ==
  /\ cur' = to
  /\ at' = IF to + need > end THEN "error" ELSE next
  /\ UNCHANGED <<len, end, name>>

(* Go into a part of n bytes that begins at `from`.                        *)
Enter(from, n, next) ==
  IF from + n > end THEN Give("error")
  ELSE /\ cur' = from /\ end' = from + n /\ at' = next
       /\ UNCHANGED <<len, name>>

ParseHead ==
  /\ at = "head"
  /\ IF len < 4 THEN Give("error") /\ UNCHANGED top
     ELSE Reads(1) /\ (Give("error") \/ Skip(Fixed, 0, "session"))

(* hs[cur] with cur = len(hs) stops the program.                           *)
ParseSession ==
  /\ at = "session"
  /\ IF cur = len THEN Give("panic") /\ UNCHANGED top
     ELSE Reads(cur + 1) /\ \E n \in Byte : Skip(cur + 1 + n, 2, "ciphers")

ParseCiphers ==
  /\ at = "ciphers"
  /\ Reads(cur + 2) /\ \E n \in Word : Skip(cur + 2 + n, 1, "compressions")

(* Mutant of ParseCompressions: only one byte has to follow.               *)
ParseCompressionsShort ==
  /\ at = "compressions"
  /\ Reads(cur + 1) /\ \E n \in Byte : Skip(cur + 1 + n, 1, "extensions")

ParseCompressions ==
  /\ at = "compressions"
  /\ Reads(cur + 1) /\ \E n \in Byte : Skip(cur + 1 + n, 2, "extensions")

ParseExtensions ==
  /\ at = "extensions"
  /\ Reads(cur + 2) /\ \E n \in Word : Enter(cur + 2, n, "extension")

(* The loop over the extensions; the first server_name decides.            *)
ParseExtension ==
  /\ at = "extension"
  /\ IF cur + 4 > end THEN Give("error") /\ UNCHANGED top
     ELSE /\ Reads(cur + 4)
          /\ \E n \in Word :
                Enter(cur + 4, n, "list") \/ Skip(cur + 4 + n, 0, "extension")

(* parseServerNameList: the loop ends with the first host_name.            *)
ParseList ==
  /\ at = "list"
  /\ IF cur + 2 > end THEN Give("error") /\ UNCHANGED top
     ELSE Reads(cur + 2) /\ \E n \in Word : Enter(cur + 2, n, "names")

(* Mutant of Found: the name's end is not checked.                         *)
FoundUnchecked(from, to) ==
  at' = "name" /\ name' = [from |-> from, to |-> to] /\ UNCHANGED <<len, cur, end>>

Found(from, to) ==
  IF to > end THEN Give("error")
  ELSE at' = "name" /\ name' = [from |-> from, to |-> to] /\ UNCHANGED <<len, cur, end>>

ParseNames ==
  /\ at = "names"
  /\ IF cur + 3 > end THEN Give("error") /\ UNCHANGED top
     ELSE /\ Reads(cur + 3)
          /\ \E n \in Word :
                Found(cur + 3, cur + 3 + n) \/ Skip(cur + 3 + n, 0, "names")

Parse ==
  \/ ParseHead \/ ParseSession \/ ParseCiphers \/ ParseCompressions
  \/ ParseExtensions \/ ParseExtension \/ ParseList \/ ParseNames

ParseSpec == ParseInit /\ [][Parse]_parseVars

-----------------------------------------------------------------------------
(* Whatever lengths a message claims, the parser reads no byte beyond its  *)
(* end.  It stops the program for one length only, that of a message which *)
(* ends where its session id should begin.                                 *)
ReadsInside == top <= len /\ (at = "panic" => len = Fixed)

(* The name the proxy dials is made of bytes that follow all it has read,  *)
(* and lies within the list, the extension and the message.                *)
NameInside ==
  at = "name" => name.from = top /\ name.from <= name.to /\ name.to <= end /\ end <= len

(* The inductive invariant: what each step needs has been checked before.  *)
Needs ==
  [head |-> 0, session |-> 0, ciphers |-> 2, compressions |-> 1, extensions |-> 2,
   extension |-> 0, list |-> 0, names |-> 0]

ParseInv ==
  /\ ParseTypeOK
  /\ end <= len /\ top <= len
  /\ at \in Labels => top <= cur /\ cur + Needs[at] <= end
  /\ at = "head" => cur = 0 /\ end = len
  /\ at = "session" => cur = Fixed /\ end = len
  /\ ReadsInside /\ NameInside
=============================================================================
