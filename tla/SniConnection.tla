--------------------------- MODULE SniConnection ---------------------------
(***************************************************************************)
(* A connection through the proxy together with the parse of its first     *)
(* record.  The parser looks at nothing but that record, so it comes first *)
(* here: its outcome is what the handler meets when the record is there.   *)
(***************************************************************************)
EXTENDS SniProxy, ClientHello

VARIABLE parsed \* what the first record is has been settled

connectionVars == <<vars, parseVars, parsed>>

ConnectionInit ==
  /\ Init /\ ParseInit
  /\ parsed = (kind = "notTLS")
  /\ IF parsed THEN len = 0 ELSE kind = "hello" /\ hello = 2

ParseStep == ~parsed /\ Parse /\ UNCHANGED <<vars, parsed>>

(* Only a name lets the handler go on.  A panic ends the process, and with *)
(* it the connection, which to the client is a close like any other.       *)
Settle ==
  /\ ~parsed /\ at \in Outcomes
  /\ parsed' = TRUE
  /\ kind' = IF at = "name" THEN "hello" ELSE "nameless"
  /\ hello' \in 2 .. Longest + 2
  /\ len' = 0 /\ at' = "head" /\ cur' = 0 /\ end' = 0 /\ top' = 0 /\ name' = NoName
  /\ UNCHANGED <<cl, sent, c2p, p2c, seen, proxyVars, remoteVars>>

Parsing == ParseStep \/ Settle

Connection == parsed /\ Next /\ UNCHANGED <<parseVars, parsed>>

ConnectionSpec == ConnectionInit /\ [][Parsing \/ Connection]_connectionVars

(* The fairness of the connection, and a parser that runs on.              *)
FairConnectionSpec ==
  /\ ConnectionSpec
  /\ WF_connectionVars(Parsing)
  /\ WF_connectionVars(parsed /\ Handle /\ UNCHANGED <<parseVars, parsed>>)
  /\ WF_connectionVars(parsed /\ Up /\ UNCHANGED <<parseVars, parsed>>)
  /\ WF_connectionVars(parsed /\ Down /\ UNCHANGED <<parseVars, parsed>>)
=============================================================================
