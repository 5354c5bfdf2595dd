------------------------------ MODULE AuditLog ------------------------------
(***************************************************************************)
(* pkg/admin/audit.go: the append-only file audit.jsonl, and with it the   *)
(* last part of every request of KiroAdmin, which records what was done.   *)
(*                                                                         *)
(* The file is the sequence of what was appended to it: an event with its  *)
(* newline, or a part of one.  What an event says does not matter, only    *)
(* which append it is.                                                     *)
(***************************************************************************)
EXTENDS KiroAdmin, Naturals, SequencesExt

CONSTANTS
  Free,   \* the log's mutex is unlocked
  MaxLog  \* appends the disk takes until the log is rotated

ASSUME LogAssumption == Free \notin Handlers /\ MaxLog \in Nat

VARIABLES
  log,    \* audit.jsonl
  there,  \* whether the file exists
  logMu   \* the holder of AuditLog.mu

logVars == <<log, there, logMu>>

Pieces == {"event", "part"}

LogTypeOK ==
  /\ log \in Seq(Pieces) /\ Len(log) <= MaxLog
  /\ there \in BOOLEAN
  /\ logMu \in Handlers \cup {Free}

(***************************************************************************)
(* Tail: the file line by line.  A line is what was appended up to a       *)
(* newline; it counts if it is one event and nothing else.                 *)
(***************************************************************************)
(* Mutant of NextPiece: a line that does not parse ends the read.          *)
NextPieceStrict(s, i) ==
  IF log[i] = "part" THEN [line |-> Append(s.line, i), events |-> <<>>]
  ELSE [line |-> <<>>, events |-> IF s.line = <<>> THEN Append(s.events, i) ELSE <<>>]

NextPiece(s, i) ==
  IF log[i] = "part" THEN [s EXCEPT !.line = Append(@, i)]
  ELSE [line |-> <<>>,
        events |-> IF s.line = <<>> THEN Append(s.events, i) ELSE s.events]

NoLine == [line |-> <<>>, events |-> <<>>]

AllEvents ==
  LET s[n \in 0 .. Len(log)] == IF n = 0 THEN NoLine ELSE NextPiece(s[n - 1], n)
  IN  s[Len(log)].events

(***************************************************************************)
(* Record.  Its error is dropped: a missing file (rotated away, and not    *)
(* created again), a full disk or a cut append does not fail the request.  *)
(***************************************************************************)
(* Mutant of Recorded: the newline is an append of its own.                *)
RecordedTwice ==
  /\ there /\ Len(log) < MaxLog
  /\ log' = log \o <<"event", "part">>

Recorded ==
  /\ there /\ Len(log) < MaxLog
  /\ log' = Append(log, "event")

Cut ==
  /\ there /\ Len(log) < MaxLog
  /\ log' = Append(log, "part")

(* Every outcome of a change and a delivered env file are recorded.        *)
Audited(h) == pc[h] = "done" \/ (pc[h] = "failed" /\ req[h].action # "env")

LockLog(h) ==
  /\ Audited(h) /\ logMu = Free
  /\ logMu' = h
  /\ UNCHANGED <<vars, log, there>>

Record(h) ==
  /\ logMu = h
  /\ Recorded \/ Cut \/ UNCHANGED log
  /\ logMu' = Free
  /\ Answer(h)
  /\ UNCHANGED there

AnswerUnaudited(h) ==
  /\ ~Audited(h)
  /\ Answer(h)
  /\ UNCHANGED logVars

Serve(g) ==
  /\ ChangeStore(g) \/ Render(g) \/ CheckConfig(g) \/ Reload(g) \/ Fail(g)
  /\ UNCHANGED logVars

Finish(h) == LockLog(h) \/ Record(h) \/ AnswerUnaudited(h)

(* NewAuditLog creates the file if it is not there.                        *)
BootWithLog == Boot /\ there' = TRUE /\ UNCHANGED <<log, logMu>>

CrashWithLog ==
  /\ Crash
  /\ logMu' = Free
  /\ (logMu # Free /\ Cut) \/ UNCHANGED log
  /\ UNCHANGED there

(* logrotate, as audit.go:71-72 has it, moves the file away.               *)
Rotate ==
  /\ there
  /\ there' = FALSE /\ log' = <<>>
  /\ UNCHANGED <<vars, logMu>>

AuditInit == Init /\ log = <<>> /\ there = FALSE /\ logMu = Free

AuditNext ==
  \/ \E h \in Handlers, r \in Request :
        (AcceptChange(h, r) \/ AcceptEnv(h, r)) /\ UNCHANGED logVars
  \/ \E g \in Goroutines : Serve(g)
  \/ \E h \in Handlers : Finish(h)
  \/ BootWithLog \/ CrashWithLog \/ Rotate
  \/ SingBox /\ UNCHANGED logVars

AuditSpec == AuditInit /\ [][AuditNext]_<<vars, logVars>>

FairAuditSpec ==
  /\ AuditSpec
  /\ \A g \in Goroutines : SF_<<vars, logVars>>(Serve(g) \/ (g # Main /\ Finish(g)))

-----------------------------------------------------------------------------
(* A cut append costs at most the event that is appended next: every other *)
(* event whose Record succeeded is found by Tail, once and in its order.   *)
(* Lines have no length here: one of more than 4 MB makes Tail return an   *)
(* error and no event at all (audit.go:84-86).                             *)
CutCostsOne ==
  /\ \A i, j \in DOMAIN AllEvents : i < j => AllEvents[i] < AllEvents[j]
  /\ \A i \in DOMAIN log :
        log[i] = "event" /\ ~Contains(AllEvents, i) => i > 1 /\ log[i - 1] # "event"
=============================================================================
