----------------------------- MODULE KiroAdmin -----------------------------
(***************************************************************************)
(* The kiro-admin server: HTTP handlers that change the user directory,    *)
(* render sing-box's config.json from it and reload sing-box.              *)
(*                                                                         *)
(* The store is the UserDirectory that UserStore implements.  Its mutex    *)
(* protects the store only.  Rendering and reloading hold no lock: every   *)
(* handler reads the users, then the key, writes the one shared            *)
(* config.json.tmp, renames it, checks config.json and reloads, and the    *)
(* steps of several handlers interleave.                                   *)
(***************************************************************************)
EXTENDS FiniteSets

CONSTANTS
  Handlers, \* goroutines that serve HTTP requests
  Main,     \* the goroutine that renders once at startup
  Names, Keys, Blank,
  NoName    \* the target of a request about no user

ASSUME AdminAssumption ==
  /\ Main \notin Handlers
  /\ Blank \notin Keys
  /\ NoName \notin Names

VARIABLES
  dir, serverKey, issued, \* the store: users.json, server.key, the keys ever stored
  phase,    \* "down", "boot" (main renders), "up" (main serves)
  pc,       \* per goroutine, its next step
  req,      \* per goroutine, the request it serves
  doc,      \* per goroutine, what it read from the store
  fd,       \* per goroutine, the name its open temporary file has now
  tmp,      \* config.json.tmp
  conf,     \* config.json
  singbox,  \* the sing-box process: whether it runs, and on which config
  hup,      \* a reload was requested that sing-box has not carried out
  solo,     \* per goroutine, no change overlapped its request (history)
  settled   \* a change that ran alone was the last one (history)

storeVars == <<dir, serverKey, issued>>
fileVars == <<fd, tmp, conf>>
boxVars == <<singbox, hup>>
ghostVars == <<solo, settled>>
vars == <<storeVars, phase, pc, req, doc, fileVars, boxVars, ghostVars>>

Store == INSTANCE UserDirectory

Goroutines == Handlers \cup {Main}

Doc == [users : SUBSET Store!User, key : Keys \cup {Blank}]
NoDoc == [users |-> {}, key |-> Blank]

(* A config file: missing, truncated, the mix of two writes, or complete.  *)
Config == [state : {"missing", "empty", "mixed", "whole"}, doc : Doc]
MissingConfig == [state |-> "missing", doc |-> NoDoc]
EmptyConfig == [state |-> "empty", doc |-> NoDoc]
MixedConfig == [state |-> "mixed", doc |-> NoDoc]
WholeConfig(d) == [state |-> "whole", doc |-> d]

(* What sing-box accepts: JSON, with a server key of the method's length.  *)
Valid(c) == c.state = "whole" /\ c.doc.key # Blank

Request ==
  [action : {"create", "delete", "env"}, name : Names]
    \cup [action : {"rotate"}, name : {NoName}]
NoRequest == [action |-> "none", name |-> NoName]

PcLabels == {"idle", "store", "keyWrite", "list", "key", "open", "write",
             "rename", "check", "reload", "done", "failed"}

TypeOK ==
  /\ dir \in SUBSET Store!User
  /\ serverKey \in Keys \cup {Blank}
  /\ issued \in SUBSET Keys
  /\ phase \in {"down", "boot", "up"}
  /\ pc \in [Goroutines -> PcLabels]
  /\ req \in [Goroutines -> Request \cup {NoRequest}]
  /\ doc \in [Goroutines -> Doc]
  /\ fd \in [Goroutines -> {"closed", "tmp", "conf", "unlinked"}]
  /\ tmp \in Config
  /\ conf \in Config
  /\ singbox \in [up : BOOLEAN, doc : Doc]
  /\ hup \in BOOLEAN
  /\ solo \in [Goroutines -> BOOLEAN]
  /\ settled \in BOOLEAN

(***************************************************************************)
(* The store exists (NewStore made it, or was stopped between opening and  *)
(* writing server.key); config.json is the installer's placeholder, which  *)
(* has no usable key, and sing-box is stopped.                             *)
(***************************************************************************)
Init ==
  /\ dir = {}
  /\ \/ serverKey = Blank /\ issued = {}
     \/ \E k \in Keys : serverKey = k /\ issued = {k}
  /\ phase = "down"
  /\ pc = [g \in Goroutines |-> "idle"]
  /\ req = [g \in Goroutines |-> NoRequest]
  /\ doc = [g \in Goroutines |-> NoDoc]
  /\ fd = [g \in Goroutines |-> "closed"]
  /\ tmp = MissingConfig
  /\ conf = WholeConfig(NoDoc)
  /\ singbox = [up |-> FALSE, doc |-> NoDoc]
  /\ hup = FALSE
  /\ solo = [g \in Goroutines |-> FALSE]
  /\ settled = FALSE

At(g, label) == pc[g] = label
Goto(g, label) == pc' = [pc EXCEPT ![g] = label]

Changing(g) == pc[g] # "idle" /\ req[g].action \in {"create", "delete", "rotate"}

(* Mutant of MutexFree: render inside the mutex, which List takes again.   *)
RenderLocked == \A g \in Goroutines : pc[g] \notin {"keyWrite", "list"}

(* Store.mu.  A rotation holds it over two steps, the other operations are *)
(* one step of the directory.                                              *)
MutexFree == \A g \in Goroutines : ~At(g, "keyWrite")

(***************************************************************************)
(* Requests.  A download of a user's env file reads the store and changes  *)
(* nothing; the others end in applyAndReload.                              *)
(***************************************************************************)
(* Mutant of AcceptChange: the form value is not read.                     *)
AcceptNameless(h, r) ==
  /\ phase = "up" /\ At(h, "idle")
  /\ r.action # "env"
  /\ Goto(h, "store")
  /\ req' = [req EXCEPT ![h] = [r EXCEPT !.name = NoName]]
  /\ solo' = [g \in Goroutines |-> g = h /\ ~\E c \in Handlers : Changing(c)]
  /\ settled' = FALSE
  /\ UNCHANGED <<storeVars, phase, doc, fileVars, boxVars>>

AcceptChange(h, r) ==
  /\ phase = "up" /\ At(h, "idle")
  /\ r.action # "env"
  /\ Goto(h, "store")
  /\ req' = [req EXCEPT ![h] = r]
  /\ solo' = [g \in Goroutines |-> g = h /\ ~\E c \in Handlers : Changing(c)]
  /\ settled' = FALSE
  /\ UNCHANGED <<storeVars, phase, doc, fileVars, boxVars>>

AcceptEnv(h, r) ==
  /\ phase = "up" /\ At(h, "idle")
  /\ r.action = "env"
  /\ Goto(h, "list")
  /\ req' = [req EXCEPT ![h] = r]
  /\ solo' = [solo EXCEPT ![h] = settled]
  /\ UNCHANGED <<storeVars, phase, doc, fileVars, boxVars, settled>>

CreateUser(h) ==
  /\ At(h, "store") /\ req[h].action = "create" /\ MutexFree
  /\ \E k \in Keys : Store!Create(req[h].name, k)
  /\ Goto(h, "list")
  /\ UNCHANGED <<phase, req, doc, fileVars, boxVars, ghostVars>>

DeleteUser(h) ==
  /\ At(h, "store") /\ req[h].action = "delete" /\ MutexFree
  /\ \E u \in dir : u.name = req[h].name /\ Store!Delete(u)
  /\ Goto(h, "list")
  /\ UNCHANGED <<phase, req, doc, fileVars, boxVars, ghostVars>>

(* ErrExists, ErrNotFound: an error page, and nothing is rendered.         *)
Refuse(h) ==
  /\ At(h, "store") /\ MutexFree
  /\ \/ req[h].action = "create" /\ req[h].name \in Store!NamesOf(dir)
     \/ req[h].action = "delete" /\ req[h].name \notin Store!NamesOf(dir)
  /\ Goto(h, "failed")
  /\ UNCHANGED <<storeVars, phase, req, doc, fileVars, boxVars, ghostVars>>

OpenKey(h) ==
  /\ At(h, "store") /\ req[h].action = "rotate" /\ MutexFree
  /\ Store!LoseKey
  /\ Goto(h, "keyWrite")
  /\ UNCHANGED <<phase, req, doc, fileVars, boxVars, ghostVars>>

WriteKey(h) ==
  /\ At(h, "keyWrite")
  /\ \E k \in Keys : Store!SetKey(k)
  /\ Goto(h, "list")
  /\ UNCHANGED <<phase, req, doc, fileVars, boxVars, ghostVars>>

(***************************************************************************)
(* Reading the store: List under the mutex, then ServerKey without it.     *)
(***************************************************************************)
ListUsers(g) ==
  /\ At(g, "list") /\ req[g].action # "env" /\ MutexFree
  /\ doc' = [doc EXCEPT ![g].users = dir]
  /\ Goto(g, "key")
  /\ UNCHANGED <<storeVars, phase, req, fileVars, boxVars, ghostVars>>

(* Mutant of GetUser: go on although no user of that name was found.       *)
GetAnyUser(g) ==
  /\ At(g, "list") /\ req[g].action = "env" /\ MutexFree
  /\ doc' = [doc EXCEPT ![g].users = {u \in dir : u.name = req[g].name}]
  /\ Goto(g, "key")
  /\ UNCHANGED <<storeVars, phase, req, fileVars, boxVars, ghostVars>>

GetUser(g) ==
  /\ At(g, "list") /\ req[g].action = "env" /\ MutexFree
  /\ doc' = [doc EXCEPT ![g].users = {u \in dir : u.name = req[g].name}]
  /\ Goto(g, IF req[g].name \in Store!NamesOf(dir) THEN "key" ELSE "failed")
  /\ UNCHANGED <<storeVars, phase, req, fileVars, boxVars, ghostVars>>

ReadKey(g) ==
  /\ At(g, "key")
  /\ doc' = [doc EXCEPT ![g].key = serverKey]
  /\ Goto(g, IF req[g].action = "env" THEN "done" ELSE "open")
  /\ UNCHANGED <<storeVars, phase, req, fileVars, boxVars, ghostVars>>

(***************************************************************************)
(* Writing config.json: open the temporary file (creating or truncating    *)
(* it), write, close, rename.  A goroutine's open file may lose its name   *)
(* under it: another one's rename makes it config.json, a second rename    *)
(* makes it nobody's.  A write over another goroutine's text covers it if  *)
(* it is as long, and else leaves a tail of it; keys have one length, names*)
(* have any.  A write that fails has written nothing.                      *)
(***************************************************************************)
AsLong(d, e) ==
  /\ Store!NamesOf(e.users) \subseteq Store!NamesOf(d.users)
  /\ d.key = Blank => e.key = Blank

MayCover(c, d) == c.state = "whole" => AsLong(d, c.doc) \/ ~AsLong(c.doc, d)
MayMix(c, d) == c.state = "mixed" \/ (c.state = "whole" /\ ~AsLong(d, c.doc))

Over(c, d) ==
  {f \in {WholeConfig(d)} : MayCover(c, d)} \cup {f \in {MixedConfig} : MayMix(c, d)}

OpenTmp(g) ==
  /\ At(g, "open")
  /\ tmp' = EmptyConfig
  /\ fd' = [fd EXCEPT ![g] = "tmp"]
  /\ Goto(g, "write")
  /\ UNCHANGED <<storeVars, phase, req, doc, conf, boxVars, ghostVars>>

WriteTmp(g) ==
  /\ At(g, "write")
  /\ \/ fd[g] = "tmp" /\ tmp' \in Over(tmp, doc[g]) /\ UNCHANGED conf
     \/ fd[g] = "conf" /\ conf' \in Over(conf, doc[g]) /\ UNCHANGED tmp
     \/ fd[g] = "unlinked" /\ UNCHANGED <<tmp, conf>>
  /\ fd' = [fd EXCEPT ![g] = "closed"]
  /\ doc' = [doc EXCEPT ![g] = NoDoc]
  /\ Goto(g, "rename")
  /\ UNCHANGED <<storeVars, phase, req, boxVars, ghostVars>>

AfterRename(name) ==
  IF name = "tmp" THEN "conf" ELSE IF name = "conf" THEN "unlinked" ELSE name

RenameTmp(g) ==
  /\ At(g, "rename")
  /\ tmp # MissingConfig
  /\ conf' = tmp
  /\ tmp' = MissingConfig
  /\ fd' = [f \in Goroutines |-> AfterRename(fd[f])]
  /\ IF g = Main
       THEN phase' = "up" /\ Goto(g, "idle")
       ELSE UNCHANGED phase /\ Goto(g, "check")
  /\ UNCHANGED <<storeVars, req, doc, boxVars, ghostVars>>

(***************************************************************************)
(* ReloadSingBox: validate the file, then ask systemd for a reload.        *)
(***************************************************************************)
CheckConfig(h) ==
  /\ At(h, "check")
  /\ Goto(h, IF Valid(conf) THEN "reload" ELSE "failed")
  /\ UNCHANGED <<storeVars, phase, req, doc, fileVars, boxVars, ghostVars>>

Reload(h) ==
  /\ At(h, "reload")
  /\ hup' = TRUE
  /\ Goto(h, "done")
  /\ settled' = (settled \/ solo[h])
  /\ UNCHANGED <<storeVars, phase, req, doc, fileVars, singbox, solo>>

(* Mutant of Fail: reload although rendering failed.                       *)
FailIgnored(g) ==
  /\ pc[g] \notin {"idle", "done", "failed"}
  /\ pc[g] \in {"store", "list"} => MutexFree
  /\ fd' = [fd EXCEPT ![g] = "closed"]
  /\ doc' = [doc EXCEPT ![g] = NoDoc]
  /\ IF g = Main
       THEN phase' = "up" /\ Goto(g, "idle")
       ELSE UNCHANGED phase /\ Goto(g, "reload")
  /\ UNCHANGED <<storeVars, req, tmp, conf, boxVars, ghostVars>>

(* A system call or a command fails, or the rename finds no file because   *)
(* another goroutine has renamed it; a goroutine that waits for the mutex  *)
(* cannot fail.  The handler reports the error, main only warns and serves.*)
(* What was done before stays done.                                        *)
Fail(g) ==
  /\ pc[g] \notin {"idle", "done", "failed"}
  /\ pc[g] \in {"store", "list"} => MutexFree
  /\ fd' = [fd EXCEPT ![g] = "closed"]
  /\ doc' = [doc EXCEPT ![g] = NoDoc]
  /\ IF g = Main
       THEN phase' = "up" /\ Goto(g, "idle")
       ELSE UNCHANGED phase /\ Goto(g, "failed")
  /\ UNCHANGED <<storeVars, req, tmp, conf, boxVars, ghostVars>>

Answer(h) ==
  /\ pc[h] \in {"done", "failed"}
  /\ Goto(h, "idle")
  /\ req' = [req EXCEPT ![h] = NoRequest]
  /\ doc' = [doc EXCEPT ![h] = NoDoc]
  /\ solo' = [solo EXCEPT ![h] = FALSE]
  /\ UNCHANGED <<storeVars, phase, fileVars, boxVars, settled>>

(***************************************************************************)
(* kiro-admin starts, rendering once, and stops at any point.  The files   *)
(* and sing-box stay as they are.                                          *)
(***************************************************************************)
Boot ==
  /\ phase = "down"
  /\ phase' = "boot"
  /\ Goto(Main, "list")
  /\ UNCHANGED <<storeVars, req, doc, fileVars, boxVars, ghostVars>>

Crash ==
  /\ phase # "down"
  /\ phase' = "down"
  /\ pc' = [g \in Goroutines |-> "idle"]
  /\ req' = [g \in Goroutines |-> NoRequest]
  /\ doc' = [g \in Goroutines |-> NoDoc]
  /\ fd' = [g \in Goroutines |-> "closed"]
  /\ solo' = [g \in Goroutines |-> FALSE]
  /\ UNCHANGED <<storeVars, tmp, conf, boxVars, settled>>

(***************************************************************************)
(* sing-box and systemd.  A reload is carried out some time after it was   *)
(* asked for, with what config.json holds then; an invalid file leaves the *)
(* running process, or the stopped unit, as it was.                        *)
(***************************************************************************)
LoadConfig ==
  /\ hup
  /\ hup' = FALSE
  /\ singbox' = IF Valid(conf) THEN [up |-> TRUE, doc |-> conf.doc] ELSE singbox
  /\ UNCHANGED <<storeVars, phase, pc, req, doc, fileVars, ghostVars>>

SingBoxExits ==
  /\ singbox.up
  /\ singbox' = [up |-> FALSE, doc |-> NoDoc]
  /\ UNCHANGED <<storeVars, phase, pc, req, doc, fileVars, hup, ghostVars>>

SingBoxStarts ==
  /\ ~singbox.up
  /\ Valid(conf)
  /\ singbox' = [up |-> TRUE, doc |-> conf.doc]
  /\ UNCHANGED <<storeVars, phase, pc, req, doc, fileVars, hup, ghostVars>>

SingBox == LoadConfig \/ SingBoxExits \/ SingBoxStarts

-----------------------------------------------------------------------------
ChangeStore(h) ==
  CreateUser(h) \/ DeleteUser(h) \/ Refuse(h) \/ OpenKey(h) \/ WriteKey(h)

Render(g) ==
  ListUsers(g) \/ GetUser(g) \/ ReadKey(g) \/ OpenTmp(g) \/ WriteTmp(g) \/ RenameTmp(g)

Work(g) ==
  ChangeStore(g) \/ Render(g) \/ CheckConfig(g) \/ Reload(g) \/ Fail(g) \/ Answer(g)

Next ==
  \/ \E h \in Handlers, r \in Request : AcceptChange(h, r) \/ AcceptEnv(h, r)
  \/ \E g \in Goroutines : Work(g)
  \/ Boot
  \/ Crash
  \/ SingBox

(* A goroutine runs on, and the commands a handler waits for return.  One  *)
(* that waits for the mutex gets it although others come and go: Go's Mutex*)
(* hands itself over to a waiter that has starved, hence SF.               *)
Fairness == \A g \in Goroutines : SF_vars(Work(g))

Spec == Init /\ [][Next]_vars
FairSpec == Spec /\ Fairness

-----------------------------------------------------------------------------
(* After a change that ran alone was reloaded, and until the next change is*)
(* asked for, config.json holds exactly the store's users and key, and a   *)
(* running sing-box that has no reload outstanding serves them: whatever   *)
(* earlier overlapping or failed requests left behind, and through any     *)
(* restart of kiro-admin or of sing-box.                                   *)
Current(d) == d.users = dir /\ d.key = serverKey

SettledInForce ==
  settled =>
    /\ Valid(conf) /\ Current(conf.doc)
    /\ singbox.up /\ ~hup => Current(singbox.doc)

(* An env file handed out with success while no change was under way names *)
(* a user, a PSK and a server key that config.json admits.                 *)
EnvFileWorks ==
  \A h \in Handlers :
    At(h, "done") /\ req[h].action = "env" /\ solo[h] =>
      /\ doc[h].users # {} /\ doc[h].users \subseteq conf.doc.users
      /\ doc[h].key = conf.doc.key

(* A request that is accepted is answered, and a startup that begins comes *)
(* to serving, unless kiro-admin stops.                                    *)
Answered == \A g \in Goroutines : pc[g] # "idle" ~> pc[g] = "idle"

(* README.md:210: once a user was deleted, sing-box has reloaded and the   *)
(* user cannot connect.  At the least, when the deletion was answered with *)
(* success and no other request is under way, config.json must not list a  *)
(* user of that name that the store does not have.                         *)
DeleteTakesEffect ==
  \A h \in Handlers :
    /\ At(h, "done") /\ req[h].action = "delete"
    /\ req[h].name \notin Store!NamesOf(dir)
    /\ \A g \in Handlers \ {h} : At(g, "idle")
    => req[h].name \notin Store!NamesOf(conf.doc.users)

(* reload.go:8-10: the config is validated, and if it is not valid the     *)
(* service is not reloaded.                                                *)
ReloadsOnlyValid == [][\A h \in Handlers : Reload(h) => Valid(conf)]_vars

-----------------------------------------------------------------------------
(* The inductive invariant behind SettledInForce and EnvFileWorks.         *)
Phases ==
  /\ phase # "up" => \A h \in Handlers : At(h, "idle")
  /\ IF phase = "boot" THEN pc[Main] \in {"list", "key", "open", "write", "rename"}
                       ELSE At(Main, "idle")
  /\ req[Main] = NoRequest

Requests ==
  \A h \in Handlers :
    IF At(h, "idle") THEN req[h] = NoRequest /\ ~solo[h]
    ELSE /\ req[h] \in Request
         /\ req[h].action = "env" => pc[h] \in {"list", "key", "done", "failed"}

SoloAlone ==
  \A g, h \in Handlers : solo[g] /\ Changing(g) /\ Changing(h) => g = h

(* A change that runs alone, and main at startup: what it read is what the *)
(* store holds, what it wrote is what it read, and nobody touched it since.*)
Alone(g) ==
  \/ g = Main /\ phase = "boot"
  \/ g \in Handlers /\ solo[g] /\ Changing(g)

CurrentConfig == WholeConfig([users |-> dir, key |-> serverKey])

Rendered(g) ==
  /\ pc[g] \in {"key", "open", "write"} => doc[g].users = dir
  /\ pc[g] \in {"open", "write"} => doc[g].key = serverKey
  /\ At(g, "write") => fd[g] = "tmp" /\ tmp = EmptyConfig
  /\ At(g, "rename") => tmp = CurrentConfig
  /\ pc[g] \in {"check", "reload"} => conf = CurrentConfig
  /\ At(g, "reload") => Valid(conf)

AloneRenders == \A g \in Goroutines : Alone(g) => Rendered(g)

SettledQuiet ==
  settled => \A h \in Handlers : Changing(h) => pc[h] \in {"done", "failed"}

EnvCurrent ==
  \A h \in Handlers : solo[h] /\ req[h].action = "env" =>
    /\ settled
    /\ pc[h] \in {"key", "done"} =>
         doc[h].users # {} /\ doc[h].users \subseteq dir
    /\ At(h, "done") => doc[h].key = serverKey

IInv ==
  /\ TypeOK
  /\ Phases
  /\ Requests
  /\ SoloAlone
  /\ AloneRenders
  /\ SettledQuiet
  /\ SettledInForce
  /\ EnvCurrent
=============================================================================
