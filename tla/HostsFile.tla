----------------------------- MODULE HostsFile -----------------------------
(***************************************************************************)
(* pkg/hosts: the marked block that kiroctl keeps in the hosts file, line  *)
(* by line, while other programs add and remove lines of their own.        *)
(*                                                                         *)
(* Install and Uninstall read the file, compute the new one and write it:  *)
(* on Windows in place, where a power failure leaves a part of it, and     *)
(* elsewhere through a temporary file and a rename.  Nothing is locked.    *)
(***************************************************************************)
EXTENDS Naturals, SequencesExt, FiniteSetsExt

CONSTANTS
  Domains,          \* the entries of the block
  Others,           \* lines of other programs and of the user
  Blank,            \* an empty line
  BlockStart, BlockEnd,
  Nothing,          \* no file
  MaxLines          \* bounds what other programs add

ASSUME HostsAssumption ==
  /\ MaxLines \in Nat /\ IsFiniteSet(Domains)
  /\ Domains \cap Others = {}
  /\ {Blank, BlockStart, BlockEnd} \cap (Domains \cup Others) = {}
  /\ Blank # BlockStart /\ Blank # BlockEnd /\ BlockStart # BlockEnd

VARIABLES
  os,       \* the platform
  file,     \* the hosts file
  tmp,      \* the hosts file's .kiroctl.tmp
  pc,       \* the next step of the kiroctl command that edits
  goal,     \* the block it wants to be there, or <<>>
  draft,    \* the text it is about to write
  orig,     \* the text it read
  quiet     \* the file was changed by nobody else since (history)

vars == <<os, file, tmp, pc, goal, draft, orig, quiet>>

Line == Domains \cup Others \cup {Blank, BlockStart, BlockEnd}

buildBlock == <<BlockStart>> \o SetToSeq(Domains) \o <<BlockEnd>>

(***************************************************************************)
(* The loop of replaceBlock: what is kept, what was inside a block, and    *)
(* whether there was one.  An end outside a block is kept as it is.        *)
(***************************************************************************)
(* Mutant of ScanLine: the block is never left.                            *)
ScanLineOpen(s, line) ==
  IF line = BlockStart THEN [s EXCEPT !.in = TRUE, !.saw = TRUE]
  ELSE IF s.in THEN [s EXCEPT !.inside = Append(@, line)]
  ELSE [s EXCEPT !.kept = Append(@, line)]

ScanLine(s, line) ==
  IF line = BlockStart THEN [s EXCEPT !.in = TRUE, !.saw = TRUE]
  ELSE IF s.in /\ line = BlockEnd THEN [s EXCEPT !.in = FALSE]
  ELSE IF s.in THEN [s EXCEPT !.inside = Append(@, line)]
  ELSE [s EXCEPT !.kept = Append(@, line)]

Scanning == [in |-> FALSE, saw |-> FALSE, kept |-> <<>>, inside |-> <<>>]

Scan(text) ==
  LET s[n \in 0 .. Len(text)] ==
        IF n = 0 THEN Scanning ELSE ScanLine(s[n - 1], text[n])
  IN  s[Len(text)]

(* Mutant of TrimBlanks: the last line is dropped, blank or not.           *)
TrimLast(text) == IF text = <<>> THEN text ELSE Front(text)

(* Mutant of TrimBlanks: the loop leaves the last line alone.              *)
TrimNothing(text) == text

TrimBlanks(text) ==
  SubSeq(text, 1, Max({0} \cup {i \in DOMAIN text : text[i] # Blank}))

(* A text of blank lines only is not empty, and keeps one of them.         *)
Rest(text) ==
  IF Scan(text).kept = <<>> THEN <<>>
  ELSE IF TrimBlanks(Scan(text).kept) = <<>> THEN <<Blank>>
  ELSE TrimBlanks(Scan(text).kept)

(* Mutant of replaceBlock: the block is added to the text as it is.        *)
appendBlock(text, block) == text \o block

replaceBlock(text, block) ==
  LET gap == block # <<>> /\ ~Scan(text).saw /\ Rest(text) # <<>>
  IN  Rest(text) \o (IF gap THEN <<Blank>> ELSE <<>>) \o block

IsInstalled(text) == BlockStart \in ToSet(text)

(* The lines of a text that are among the given ones.                      *)
Only(lines, text) ==
  LET s[n \in 0 .. Len(text)] ==
        IF n = 0 THEN <<>>
        ELSE IF text[n] \in lines THEN Append(s[n - 1], text[n]) ELSE s[n - 1]
  IN  s[Len(text)]

ListInstalled(text) == Only(Line \ {Blank}, Scan(text).inside)

TypeOK ==
  /\ os \in {"windows", "unix"}
  /\ file \in Seq(Line)
  /\ tmp \in Seq(Line) \cup {Nothing}
  /\ pc \in {"idle", "open", "write", "rename", "done"}
  /\ goal \in {buildBlock, <<>>}
  /\ draft \in Seq(Line)
  /\ orig \in Seq(Line)
  /\ quiet \in BOOLEAN

Init ==
  /\ os \in {"windows", "unix"}
  /\ file = <<>>
  /\ tmp = Nothing
  /\ pc = "idle"
  /\ goal = <<>>
  /\ draft = <<>>
  /\ orig = <<>>
  /\ quiet = FALSE

(***************************************************************************)
(* Install (goal = the block) and Uninstall (goal = nothing).  A text that *)
(* is as it should be is not written.                                      *)
(***************************************************************************)
Read ==
  /\ pc = "idle"
  /\ goal' \in {buildBlock, <<>>}
  /\ draft' = replaceBlock(file, goal')
  /\ pc' = IF draft' = file THEN "done" ELSE "open"
  /\ orig' = file
  /\ quiet' = TRUE
  /\ UNCHANGED <<os, file, tmp>>

(* Text written over a file's beginning.                                   *)
Over(text, new) == new \o SubSeq(text, Len(new) + 1, Len(text))

(* Mutant of Truncate: the file is overwritten in place everywhere.        *)
TruncateAnywhere ==
  /\ pc = "open"
  /\ file' = <<>>
  /\ pc' = "write"
  /\ UNCHANGED <<os, tmp, goal, draft, orig, quiet>>

Truncate ==
  /\ pc = "open" /\ os = "windows"
  /\ file' = <<>>
  /\ pc' = "write"
  /\ UNCHANGED <<os, tmp, goal, draft, orig, quiet>>

WriteInPlace ==
  /\ pc = "write"
  /\ file' = Over(file, draft)
  /\ pc' = "done"
  /\ UNCHANGED <<os, tmp, goal, draft, orig, quiet>>

(* Mutant of WriteTmp: nothing is written.                                 *)
WriteNothing ==
  /\ pc = "open" /\ os = "unix"
  /\ pc' = "rename"
  /\ UNCHANGED <<os, file, tmp, goal, draft, orig, quiet>>

WriteTmp ==
  /\ pc = "open" /\ os = "unix"
  /\ tmp' = draft
  /\ pc' = "rename"
  /\ UNCHANGED <<os, file, goal, draft, orig, quiet>>

RenameTmp ==
  /\ pc = "rename"
  /\ file' = tmp
  /\ tmp' = Nothing
  /\ pc' = "done"
  /\ UNCHANGED <<os, goal, draft, orig, quiet>>

Stop ==
  /\ pc' = "idle"
  /\ goal' = <<>>
  /\ draft' = <<>>
  /\ orig' = <<>>
  /\ quiet' = FALSE
  /\ UNCHANGED <<os, tmp>>

(* A system call fails, or the command or the machine stops.  In place, a  *)
(* part of the text may have been written.                                 *)
Fail ==
  /\ pc \in {"open", "write", "rename"}
  /\ IF pc = "write" THEN \E part \in Prefixes(draft) : file' = Over(file, part)
                     ELSE UNCHANGED file
  /\ Stop

Return ==
  /\ pc = "done"
  /\ UNCHANGED file
  /\ Stop

(***************************************************************************)
(* The other writers of the file.  They leave the marked lines alone, as   *)
(* the marker asks, and add theirs at either end.                          *)
(***************************************************************************)
Edited ==
  /\ quiet' = FALSE
  /\ UNCHANGED <<os, tmp, pc, goal, draft, orig>>

AddLine ==
  /\ Len(file) < MaxLines
  /\ \E line \in (Others \ ToSet(file)) \cup {Blank} :
        file' = <<line>> \o file \/ file' = Append(file, line)
  /\ Edited

RemoveLine ==
  /\ \E i \in DOMAIN file :
        file[i] \in Others \cup {Blank} /\ file' = RemoveAt(file, i)
  /\ Edited

Next ==
  \/ Read \/ Truncate \/ WriteInPlace \/ WriteTmp \/ RenameTmp
  \/ Fail \/ Return
  \/ AddLine \/ RemoveLine

Spec == Init /\ [][Next]_vars

-----------------------------------------------------------------------------
Complete == pc = "done" /\ quiet

(* An edit that completes undisturbed has its effect, whatever interrupted *)
(* edits left in the file before: after Install there is one block, whole, *)
(* at the end, and the file lists the domains; after Uninstall, none.      *)
EditTakesEffect ==
  Complete =>
    /\ IsInstalled(file) = (goal # <<>>) /\ IsSuffix(goal, file)
    /\ ListInstalled(file) = Only(Domains, goal)

(* The lines that a block encloses: from a start up to the next end, or to *)
(* the end of the file.                                                    *)
Enclosed(text, i) ==
  \E j \in 1 .. i :
    /\ text[j] = BlockStart
    /\ \A k \in (j + 1) .. (i - 1) : text[k] # BlockEnd

OutsideOf(text) ==
  [k \in DOMAIN text |-> IF Enclosed(text, k) THEN Blank ELSE text[k]]

(* An undisturbed edit keeps every line of others that no block encloses,  *)
(* in its order.                                                           *)
OthersKept == Complete => Only(Others, file) = Only(Others, OutsideOf(orig))

(* What Install does to the file, whatever it holds, Uninstall undoes but  *)
(* for the blank lines at the end; a second Uninstall changes nothing, nor *)
(* does a third Install (the second removes the blank line before the      *)
(* block).                                                                 *)
EditsSettle ==
  LET Installed(text) == replaceBlock(text, buildBlock)
      Removed(text) == replaceBlock(text, <<>>)
      once == Installed(file)
      twice == Installed(once)
  IN  pc = "idle" =>
        /\ Removed(once) = Removed(file)
        /\ Removed(Removed(file)) = Removed(file)
        /\ Installed(twice) = twice

(* Where the file is replaced by a rename it lists all domains or none,    *)
(* whatever fails or stops between two steps, and whoever edits beside.    *)
AllOrNone ==
  os = "unix" =>
    ListInstalled(file) = IF IsInstalled(file) THEN Only(Domains, buildBlock) ELSE <<>>

(* Nor does a step of kiroctl there lose, add or move a line of others,    *)
(* unless somebody else has written since the file was read.               *)
NothingLost ==
  [][os = "unix" /\ pc' # pc /\ (quiet \/ pc = "idle")
       => Only(Others, file') = Only(Others, file)]_vars

-----------------------------------------------------------------------------
(* The inductive invariant: while nobody else has changed the file, it is  *)
(* what the edit has made of the text it read; and where the file is never *)
(* half written, lines of others enclose the block.                        *)
Drafted == pc # "idle" => draft = replaceBlock(orig, goal)

Staged == pc = "rename" => tmp = draft

Undisturbed ==
  quiet =>
    /\ pc \in {"open", "rename"} => file = orig
    /\ pc = "write" => file = <<>>
    /\ pc = "done" => file = draft
    /\ pc # "idle"

Foreign == Others \cup {Blank}

Whole(text) ==
  \E above \in Prefixes(text), below \in Suffixes(text), block \in {buildBlock, <<>>} :
    /\ text = above \o block \o below
    /\ ToSet(above) \cup ToSet(below) \subseteq Foreign

NeverTorn ==
  os = "unix" =>
    /\ Whole(file)
    /\ pc # "write"
    /\ pc \in {"open", "rename"} => Whole(draft)

IInv == TypeOK /\ Drafted /\ Staged /\ Undisturbed /\ NeverTorn
=============================================================================
