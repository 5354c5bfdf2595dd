----------------------------- MODULE Kubeconfig -----------------------------
(***************************************************************************)
(* pkg/config/kubeconfig.go and deployment.go with cmd/config.go: the      *)
(* contexts file ~/.kiro-proxy/config.json.                                *)
(*                                                                         *)
(* `kiroctl config` commands load the file, change the document and save   *)
(* it through the one temporary file config.json.tmp, without a lock; any  *)
(* two of them may run at once, fail at any system call or be interrupted. *)
(* `kiroctl enable` resolves the identity it gives to sing-box from the    *)
(* current context, or from the env file if there is none.                 *)
(***************************************************************************)
CONSTANTS
  Commands, \* invocations of set-user, use-context, delete-context
  Names, Creds, Absent,
  Unusable  \* the Creds that set-user takes and toDeployment refuses

ASSUME ContextAssumption ==
  /\ Absent \notin Names \cup Creds
  /\ Unusable \subseteq Creds

VARIABLES
  conf,     \* config.json
  tmp,      \* config.json.tmp
  env,      \* the identity in the env file, if there is one
  pc,       \* per command, its next step
  draft,    \* per command, the document it is about to save
  fd,       \* per command, the name its open temporary file has now
  enable,   \* the next step of kiroctl enable
  dep,      \* the deployment it loaded
  deployed, \* the identity in sing-box's config
  solo,     \* per command, no other was at work since it began (history)
  calm      \* no command and no change of env since enable's load (history)

bookVars == <<conf, tmp, pc, draft, fd, solo>>
enableVars == <<enable, dep, deployed>>
vars == <<bookVars, env, enableVars, calm>>

Contexts == INSTANCE ContextBook WITH book <- conf.doc

(* A file: missing, truncated, the mix of two writes, or a whole document. *)
File == [state : {"missing", "empty", "mixed", "whole"}, doc : Contexts!Book]

Broken(state) == [state |-> state, doc |-> Contexts!EmptyBook]
Whole(d) == [state |-> "whole", doc |-> d]

Readable(f) == f.state \in {"missing", "whole"}

TypeOK ==
  /\ conf \in File
  /\ tmp \in File
  /\ env \in Creds \cup {Absent}
  /\ pc \in [Commands -> {"idle", "open", "write", "rename", "done"}]
  /\ draft \in [Commands -> Contexts!Book]
  /\ fd \in [Commands -> {"closed", "tmp", "conf", "unlinked"}]
  /\ enable \in {"idle", "write", "done"}
  /\ dep \in (Creds \ Unusable) \cup {Absent}
  /\ deployed \in (Creds \ Unusable) \cup {Absent}
  /\ solo \in [Commands -> BOOLEAN]
  /\ calm \in BOOLEAN

Init ==
  /\ conf = Broken("missing")
  /\ tmp = Broken("missing")
  /\ env \in Creds \cup {Absent}
  /\ pc = [c \in Commands |-> "idle"]
  /\ draft = [c \in Commands |-> Contexts!EmptyBook]
  /\ fd = [c \in Commands |-> "closed"]
  /\ enable = "idle"
  /\ dep = Absent
  /\ deployed = Absent
  /\ solo = [c \in Commands |-> FALSE]
  /\ calm = FALSE

At(c, label) == pc[c] = label
Goto(c, label) == pc' = [pc EXCEPT ![c] = label]

Working(c) == pc[c] \notin {"idle", "done"}

(***************************************************************************)
(* A command loads the document (a missing file is an empty one) and       *)
(* changes it in memory.  A file that cannot be parsed or a name that does *)
(* not exist ends it here, with nothing changed.                           *)
(***************************************************************************)
LoadAndChange(c) ==
  /\ At(c, "idle")
  /\ Readable(conf)
  /\ \E d \in Contexts!Changes(conf.doc) : draft' = [draft EXCEPT ![c] = d]
  /\ Goto(c, "open")
  /\ solo' = [b \in Commands |-> b = c /\ ~\E a \in Commands : Working(a)]
  /\ calm' = FALSE
  /\ UNCHANGED <<conf, tmp, env, fd, enableVars>>

(***************************************************************************)
(* Save: open the temporary file (creating or truncating it), write, close,*)
(* rename.  The open file may lose its name to another command's rename.   *)
(* What is written over another text leaves a tail of it, unless it is at  *)
(* least as long.                                                          *)
(***************************************************************************)
Over(f, d) ==
  {Whole(d)} \cup
    (IF f.state = "empty" \/ f = Whole(d) THEN {} ELSE {Broken("mixed")})

(* Mutant of OpenTmp: write config.json in place.                          *)
OpenInPlace(c) ==
  /\ At(c, "open")
  /\ conf' = Broken("empty")
  /\ fd' = [fd EXCEPT ![c] = "conf"]
  /\ Goto(c, "write")
  /\ UNCHANGED <<tmp, draft, solo, env, enableVars, calm>>

OpenTmp(c) ==
  /\ At(c, "open")
  /\ tmp' = Broken("empty")
  /\ fd' = [fd EXCEPT ![c] = "tmp"]
  /\ Goto(c, "write")
  /\ UNCHANGED <<conf, draft, solo, env, enableVars, calm>>

WriteTmp(c) ==
  /\ At(c, "write")
  /\ \/ fd[c] = "tmp" /\ tmp' \in Over(tmp, draft[c]) /\ UNCHANGED conf
     \/ fd[c] = "conf" /\ conf' \in Over(conf, draft[c]) /\ UNCHANGED tmp
     \/ fd[c] = "unlinked" /\ UNCHANGED <<conf, tmp>>
  /\ fd' = [fd EXCEPT ![c] = "closed"]
  /\ Goto(c, "rename")
  /\ UNCHANGED <<draft, solo, env, enableVars, calm>>

AfterRename(name) ==
  IF name = "tmp" THEN "conf" ELSE IF name = "conf" THEN "unlinked" ELSE name

RenameTmp(c) ==
  /\ At(c, "rename")
  /\ tmp.state # "missing"
  /\ conf' = tmp
  /\ tmp' = Broken("missing")
  /\ fd' = [b \in Commands |-> AfterRename(fd[b])]
  /\ Goto(c, "done")
  /\ UNCHANGED <<draft, solo, env, enableVars, calm>>

Stop(c) ==
  /\ Goto(c, "idle")
  /\ draft' = [draft EXCEPT ![c] = Contexts!EmptyBook]
  /\ fd' = [fd EXCEPT ![c] = "closed"]
  /\ solo' = [solo EXCEPT ![c] = FALSE]
  /\ UNCHANGED <<conf, tmp, env, enableVars, calm>>

(* Mutant of Fail: the error of the save is not returned.                  *)
FailSilently(c) ==
  /\ Working(c)
  /\ fd' = [fd EXCEPT ![c] = "closed"]
  /\ Goto(c, "done")
  /\ UNCHANGED <<conf, tmp, draft, solo, env, enableVars, calm>>

(* A system call fails, the rename because another command has taken the   *)
(* file among others, or the user interrupts the command.                  *)
Fail(c) == Working(c) /\ Stop(c)

(* The command has said that it succeeded.                                 *)
Report(c) == At(c, "done") /\ Stop(c)

Command(c) ==
  LoadAndChange(c) \/ OpenTmp(c) \/ WriteTmp(c) \/ RenameTmp(c) \/ Fail(c) \/ Report(c)

(***************************************************************************)
(* enable.  Current's identity counts if there is one, usable or not; only *)
(* a book without a current context sends LoadDeployment to the env file.  *)
(***************************************************************************)
HasCurrent(d) == d.cur # Absent /\ Contexts!Has(d, d.cur)

Identity(d) == IF HasCurrent(d) THEN d.ctx[d.cur] ELSE env

(* Mutants of Resolves: toDeployment refuses nothing; any error about the  *)
(* contexts sends it to the env file.                                      *)
ResolvesUnchecked(c) ==
  /\ c # Absent
  /\ Readable(conf)
  /\ c = Identity(conf.doc)

ResolvesAnyhow(c) ==
  /\ c \notin Unusable \cup {Absent}
  /\ \/ Readable(conf) /\ c = Identity(conf.doc)
     \/ c = env

Resolves(c) ==
  /\ c \notin Unusable \cup {Absent}
  /\ Readable(conf)
  /\ c = Identity(conf.doc)

LoadDeployment ==
  /\ enable = "idle"
  /\ \E c \in Creds : Resolves(c) /\ dep' = c
  /\ enable' = "write"
  /\ calm' = ~\E c \in Commands : Working(c)
  /\ UNCHANGED <<bookVars, env, deployed>>

WriteConfig ==
  /\ enable = "write"
  /\ deployed' = dep
  /\ dep' = Absent
  /\ enable' = "done"
  /\ UNCHANGED <<bookVars, env, calm>>

(* enable ends, or is stopped before it wrote sing-box's config.           *)
EndEnable ==
  /\ enable # "idle"
  /\ enable' = "idle"
  /\ dep' = Absent
  /\ calm' = FALSE
  /\ UNCHANGED <<bookVars, env, deployed>>

(* The user puts another env file in place, or removes it.                 *)
EnvChanges ==
  /\ env' \in (Creds \cup {Absent}) \ {env}
  /\ calm' = FALSE
  /\ UNCHANGED <<bookVars, enableVars>>

Next ==
  \/ \E c \in Commands : Command(c)
  \/ LoadDeployment \/ WriteConfig \/ EndEnable
  \/ EnvChanges

Spec == Init /\ [][Next]_vars

-----------------------------------------------------------------------------
(* Every document there is has a current context that it defines, or none: *)
(* no order of set-user, use-context and delete-context, overlapping or    *)
(* cut short, leaves the current context dangling.                         *)
Sound(d) == d.cur = Absent \/ Contexts!Has(d, d.cur)

CurrentDefined ==
  /\ Sound(conf.doc) /\ Sound(tmp.doc)
  /\ \A c \in Commands : Sound(draft[c])

(* As long as no two commands overlap, config.json moves from one whole    *)
(* document to the next by exactly one command of the book, whatever files *)
(* earlier ones left behind and wherever this one fails.                   *)
Quiet == \A c \in Commands : Working(c) => solo[c]

AtomicWhenAlone ==
  [][Quiet /\ conf' # conf => conf'.state = "whole" /\ Contexts!Next]_vars

(* A command that says it succeeded, and was not disturbed until now, has  *)
(* its document in config.json.                                            *)
SavedWhenAlone ==
  \A c \in Commands : At(c, "done") /\ solo[c] => conf = Whole(draft[c])

(* When enable has written sing-box's config, and nothing it reads from    *)
(* changed meanwhile, sing-box gets the identity of the current context.   *)
(* It gets the env file's only if config.json says there is none, never    *)
(* because config.json or its current context is unusable.                 *)
EnableFollows ==
  enable = "done" /\ calm =>
    /\ Readable(conf)
    /\ deployed = Identity(conf.doc)

-----------------------------------------------------------------------------
(* The inductive invariant behind these, in parts.                         *)
IdleClosed ==
  \A c \in Commands :
    /\ ~At(c, "write") => fd[c] = "closed"
    /\ At(c, "idle") => ~solo[c]

SoloAlone ==
  \A c, d \in Commands : solo[c] /\ (Working(d) \/ solo[d]) => c = d

(* A command that is alone saves what it made of the book that is there.   *)
SoloSaves ==
  \A c \in Commands : solo[c] =>
    /\ Working(c) => Readable(conf) /\ draft[c] \in Contexts!Changes(conf.doc)
    /\ At(c, "write") => fd[c] = "tmp" /\ tmp = Broken("empty")
    /\ At(c, "rename") => tmp = Whole(draft[c])

BrokenEmpty ==
  \A f \in {conf, tmp} : f.state # "whole" => f.doc = Contexts!EmptyBook

EnableCalm ==
  calm =>
    /\ ~\E c \in Commands : Working(c)
    /\ enable = "write" => Readable(conf) /\ dep = Identity(conf.doc)
    /\ enable = "idle" => FALSE

IInv ==
  /\ TypeOK
  /\ CurrentDefined
  /\ IdleClosed
  /\ SoloAlone
  /\ SoloSaves
  /\ BrokenEmpty
  /\ EnableCalm
  /\ SavedWhenAlone
  /\ EnableFollows
=============================================================================
