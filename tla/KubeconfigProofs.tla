-------------------------- MODULE KubeconfigProofs --------------------------
(***************************************************************************)
(* Proofs about Kubeconfig, for any commands, names and identities.        *)
(***************************************************************************)
EXTENDS Kubeconfig, TLAPS

USE ContextAssumption

(* set-user, use-context and delete-context each leave a book whose current*)
(* context is defined.                                                     *)
LEMMA ChangesKeepSound ==
  ASSUME NEW d \in Contexts!Book, Sound(d), NEW e \in Contexts!Changes(d)
  PROVE  e \in Contexts!Book /\ Sound(e)
<1>1. CASE \E n \in Names, c \in Creds : e = Contexts!SetUser(d, n, c)
  BY <1>1 DEF Contexts!Book, Contexts!SetUser, Sound, Contexts!Has
<1>2. CASE \E n \in Names : Contexts!Has(d, n) /\ e = Contexts!UseContext(d, n)
  BY <1>2 DEF Contexts!Book, Contexts!UseContext, Sound, Contexts!Has
<1>3. CASE \E n \in Names : e = Contexts!DeleteContext(d, n)
  BY <1>3 DEF Contexts!Book, Contexts!DeleteContext, Sound, Contexts!Has
<1> QED
  BY <1>1, <1>2, <1>3 DEF Contexts!Changes

LEMMA EmptyIsSound == Contexts!EmptyBook \in Contexts!Book /\ Sound(Contexts!EmptyBook)
BY DEF Contexts!EmptyBook, Contexts!Book, Sound

LEMMA Begins == Init => IInv
<1> SUFFICES ASSUME Init PROVE IInv
  OBVIOUS
<1>1. TypeOK
  BY EmptyIsSound DEF Init, TypeOK, File, Broken
<1>2. CurrentDefined /\ BrokenEmpty
  BY EmptyIsSound DEF Init, CurrentDefined, BrokenEmpty, Broken
<1>3. IdleClosed /\ SoloAlone /\ SoloSaves
  BY DEF Init, IdleClosed, SoloAlone, SoloSaves, Working, At
<1>4. EnableCalm /\ SavedWhenAlone /\ EnableFollows
  BY DEF Init, EnableCalm, SavedWhenAlone, EnableFollows, Working, At
<1> QED
  BY <1>1, <1>2, <1>3, <1>4 DEF IInv

LEMMA LoadKeeps ==
  ASSUME IInv, NEW c \in Commands, LoadAndChange(c)
  PROVE  IInv'
<1>1. PICK d \in Contexts!Changes(conf.doc) : draft' = [draft EXCEPT ![c] = d]
  BY DEF LoadAndChange
<1>2. d \in Contexts!Book /\ Sound(d)
  BY ChangesKeepSound DEF IInv, TypeOK, File, CurrentDefined
<1>3. /\ pc[c] = "idle" /\ pc' = [pc EXCEPT ![c] = "open"]
      /\ solo' = [b \in Commands |-> b = c /\ ~\E a \in Commands : Working(a)]
      /\ calm' = FALSE /\ Readable(conf)
      /\ UNCHANGED <<conf, tmp, env, fd, enableVars>>
  BY DEF LoadAndChange, At, Goto
<1>4. TypeOK'
  BY <1>1, <1>2, <1>3 DEF IInv, TypeOK, enableVars
<1>5. CurrentDefined' /\ BrokenEmpty'
  BY <1>1, <1>2, <1>3 DEF IInv, TypeOK, CurrentDefined, BrokenEmpty, Sound
<1>6. IdleClosed' /\ SoloAlone'
  BY <1>3 DEF IInv, TypeOK, IdleClosed, SoloAlone, Working, At
<1>7. SoloSaves'
  BY <1>1, <1>3 DEF IInv, TypeOK, SoloSaves, Working, At, Readable
<1>8. EnableCalm' /\ SavedWhenAlone' /\ EnableFollows'
  BY <1>3 DEF IInv, TypeOK, EnableCalm, SavedWhenAlone, EnableFollows, Working, At
<1> QED
  BY <1>4, <1>5, <1>6, <1>7, <1>8 DEF IInv

LEMMA OpenKeeps ==
  ASSUME IInv, NEW c \in Commands, OpenTmp(c)
  PROVE  IInv'
<1>1. /\ pc[c] = "open" /\ pc' = [pc EXCEPT ![c] = "write"]
      /\ tmp' = Broken("empty") /\ fd' = [fd EXCEPT ![c] = "tmp"]
      /\ UNCHANGED <<conf, draft, solo, env, enableVars, calm>>
  BY DEF OpenTmp, At, Goto
<1>2. TypeOK' /\ CurrentDefined' /\ BrokenEmpty'
  BY <1>1, EmptyIsSound DEF IInv, TypeOK, CurrentDefined, BrokenEmpty, File, Broken, enableVars
<1>3. IdleClosed' /\ SoloAlone'
  BY <1>1 DEF IInv, TypeOK, IdleClosed, SoloAlone, Working, At
<1>4. SoloSaves'
  BY <1>1 DEF IInv, TypeOK, SoloAlone, SoloSaves, Working, At
<1>5. EnableCalm' /\ SavedWhenAlone' /\ EnableFollows'
  BY <1>1 DEF IInv, TypeOK, EnableCalm, SavedWhenAlone, EnableFollows, Working, At, enableVars
<1> QED
  BY <1>2, <1>3, <1>4, <1>5 DEF IInv

(* A write leaves the file readable only if its text is the draft.         *)
LEMMA Overwritten ==
  ASSUME NEW f \in File, NEW d \in Contexts!Book, Sound(d), NEW g \in Over(f, d)
  PROVE  g \in File /\ Sound(g.doc) /\ (g.state # "whole" => g.doc = Contexts!EmptyBook)
BY EmptyIsSound DEF Over, File, Whole, Broken

LEMMA WriteKeeps ==
  ASSUME IInv, NEW c \in Commands, WriteTmp(c)
  PROVE  IInv'
<1>1. /\ pc[c] = "write" /\ pc' = [pc EXCEPT ![c] = "rename"]
      /\ fd' = [fd EXCEPT ![c] = "closed"]
      /\ UNCHANGED <<draft, solo, env, enableVars, calm>>
      /\ \/ fd[c] = "tmp" /\ tmp' \in Over(tmp, draft[c]) /\ UNCHANGED conf
         \/ fd[c] = "conf" /\ conf' \in Over(conf, draft[c]) /\ UNCHANGED tmp
         \/ fd[c] = "unlinked" /\ UNCHANGED <<conf, tmp>>
  BY DEF WriteTmp, At, Goto
<1>2. conf \in File /\ tmp \in File /\ draft[c] \in Contexts!Book /\ Sound(draft[c])
  BY DEF IInv, TypeOK, CurrentDefined
<1>3. /\ conf' \in File /\ tmp' \in File /\ Sound(conf'.doc) /\ Sound(tmp'.doc)
      /\ BrokenEmpty'
  BY <1>1, <1>2, Overwritten DEF IInv, CurrentDefined, BrokenEmpty
<1>4. TypeOK' /\ CurrentDefined'
  BY <1>1, <1>3 DEF IInv, TypeOK, CurrentDefined, enableVars
<1>5. IdleClosed' /\ SoloAlone'
  BY <1>1 DEF IInv, TypeOK, IdleClosed, SoloAlone, Working, At
<1>6. ASSUME NEW b \in Commands, solo[b]
      PROVE  b = c /\ tmp' = Whole(draft[c]) /\ conf' = conf
  <2>1. b = c
    BY <1>1, <1>6 DEF IInv, SoloAlone, Working
  <2>2. fd[c] = "tmp" /\ tmp = Broken("empty")
    BY <1>1, <1>6, <2>1 DEF IInv, SoloSaves, At
  <2> QED
    BY <1>1, <2>1, <2>2 DEF Over, Broken, Whole
<1>7. SoloSaves'
  BY <1>1, <1>6 DEF IInv, TypeOK, SoloSaves, Working, At
<1>8. ~calm
  BY <1>1 DEF IInv, EnableCalm, Working
<1>9. EnableCalm' /\ SavedWhenAlone' /\ EnableFollows'
  BY <1>1, <1>6, <1>8 DEF IInv, TypeOK, EnableCalm, SavedWhenAlone, EnableFollows, At
<1> QED
  BY <1>3, <1>4, <1>5, <1>7, <1>9 DEF IInv

LEMMA RenameKeeps ==
  ASSUME IInv, NEW c \in Commands, RenameTmp(c)
  PROVE  IInv'
<1>1. /\ pc[c] = "rename" /\ pc' = [pc EXCEPT ![c] = "done"]
      /\ conf' = tmp /\ tmp' = Broken("missing")
      /\ fd' = [b \in Commands |-> AfterRename(fd[b])]
      /\ UNCHANGED <<draft, solo, env, enableVars, calm>>
  BY DEF RenameTmp, At, Goto
<1>2. /\ pc' \in [Commands -> {"idle", "open", "write", "rename", "done"}]
      /\ fd' \in [Commands -> {"closed", "tmp", "conf", "unlinked"}]
  BY <1>1 DEF IInv, TypeOK, AfterRename
<1>3. TypeOK' /\ CurrentDefined' /\ BrokenEmpty'
  BY <1>1, <1>2, EmptyIsSound
    DEF IInv, TypeOK, CurrentDefined, BrokenEmpty, File, Broken, enableVars
<1>4. IdleClosed' /\ SoloAlone'
  <2>1. fd[c] = "closed"
    BY <1>1 DEF IInv, IdleClosed, At
  <2> QED
    BY <1>1, <2>1 DEF IInv, TypeOK, IdleClosed, SoloAlone, Working, At, AfterRename
<1>5. ASSUME NEW b \in Commands, solo[b]
      PROVE  b = c /\ conf' = Whole(draft[c])
  BY <1>1, <1>5 DEF IInv, SoloAlone, SoloSaves, Working, At
<1>6. SoloSaves'
  BY <1>1, <1>5 DEF IInv, TypeOK, SoloSaves, Working, At
<1>7. ~calm
  BY <1>1 DEF IInv, EnableCalm, Working
<1>8. EnableCalm' /\ SavedWhenAlone' /\ EnableFollows'
  BY <1>1, <1>5, <1>7 DEF IInv, TypeOK, EnableCalm, SavedWhenAlone, EnableFollows, At
<1> QED
  BY <1>3, <1>4, <1>6, <1>8 DEF IInv

LEMMA StopKeeps ==
  ASSUME IInv, NEW c \in Commands, pc[c] # "idle", Stop(c)
  PROVE  IInv'
<1>1. /\ pc' = [pc EXCEPT ![c] = "idle"]
      /\ draft' = [draft EXCEPT ![c] = Contexts!EmptyBook]
      /\ fd' = [fd EXCEPT ![c] = "closed"] /\ solo' = [solo EXCEPT ![c] = FALSE]
      /\ UNCHANGED <<conf, tmp, env, enableVars, calm>>
  BY DEF Stop, Goto
<1>2. TypeOK' /\ CurrentDefined' /\ BrokenEmpty'
  BY <1>1, EmptyIsSound DEF IInv, TypeOK, CurrentDefined, BrokenEmpty, enableVars
<1>3. IdleClosed' /\ SoloAlone'
  BY <1>1 DEF IInv, TypeOK, IdleClosed, SoloAlone, Working, At
<1>4. SoloSaves'
  BY <1>1 DEF IInv, TypeOK, SoloSaves, Working, At
<1>5. SavedWhenAlone'
  BY <1>1 DEF IInv, TypeOK, SavedWhenAlone, At
<1>6. \A b \in Commands : Working(b)' => Working(b)
  BY <1>1 DEF IInv, TypeOK, Working
<1>7. EnableCalm' /\ EnableFollows'
  BY <1>1, <1>6 DEF IInv, EnableCalm, EnableFollows, enableVars, Readable, Identity, HasCurrent
<1> QED
  BY <1>2, <1>3, <1>4, <1>5, <1>7 DEF IInv

(* What enable and the env file's owner do leaves the book alone.          *)
LEMMA BookUntouched ==
  ASSUME IInv, UNCHANGED bookVars, env' \in Creds \cup {Absent},
         enable' \in {"idle", "write", "done"},
         dep' \in (Creds \ Unusable) \cup {Absent},
         deployed' \in (Creds \ Unusable) \cup {Absent}, calm' \in BOOLEAN,
         EnableCalm', EnableFollows'
  PROVE  IInv'
<1>1. TypeOK' /\ CurrentDefined' /\ BrokenEmpty'
  BY DEF bookVars, IInv, TypeOK, CurrentDefined, BrokenEmpty
<1>2. IdleClosed' /\ SoloAlone' /\ SoloSaves' /\ SavedWhenAlone'
  BY DEF bookVars, IInv, IdleClosed, SoloAlone, SoloSaves, SavedWhenAlone, Working, At
<1> QED
  BY <1>1, <1>2 DEF IInv

LEMMA Keeps == IInv /\ [Next]_vars => IInv'
<1> SUFFICES ASSUME IInv, [Next]_vars PROVE IInv'
  OBVIOUS
<1>1. ASSUME NEW c \in Commands, Command(c) PROVE IInv'
  <2>1. CASE Fail(c) \/ Report(c)
    BY <2>1, StopKeeps DEF Fail, Report, Working, At
  <2> QED
    BY <1>1, <2>1, LoadKeeps, OpenKeeps, WriteKeeps, RenameKeeps DEF Command
<1>2. CASE LoadDeployment
  <2>1. PICK i \in Creds : Resolves(i) /\ dep' = i
    BY <1>2 DEF LoadDeployment
  <2>2. /\ enable' = "write" /\ UNCHANGED <<bookVars, env, deployed>>
        /\ calm' = ~\E c \in Commands : Working(c)
    BY <1>2 DEF LoadDeployment
  <2>3. EnableCalm' /\ EnableFollows'
    BY <2>1, <2>2 DEF EnableCalm, EnableFollows, Resolves, Working, bookVars,
                      Readable, Identity, HasCurrent
  <2> QED
    BY <2>1, <2>2, <2>3, BookUntouched DEF IInv, TypeOK, Resolves
<1>3. CASE WriteConfig
  <2>1. /\ enable = "write" /\ enable' = "done" /\ deployed' = dep /\ dep' = Absent
        /\ UNCHANGED <<bookVars, env, calm>>
    BY <1>3 DEF WriteConfig
  <2>2. EnableCalm' /\ EnableFollows'
    BY <2>1 DEF IInv, EnableCalm, EnableFollows, Working, bookVars,
                Readable, Identity, HasCurrent
  <2> QED
    BY <2>1, <2>2, BookUntouched DEF IInv, TypeOK
<1>4. CASE EndEnable \/ EnvChanges
  <2>1. /\ calm' = FALSE /\ UNCHANGED bookVars /\ UNCHANGED deployed
        /\ enable' \in {enable, "idle"} /\ dep' \in {dep, Absent}
        /\ env' \in Creds \cup {Absent}
    BY <1>4 DEF EndEnable, EnvChanges, enableVars, IInv, TypeOK
  <2>2. EnableCalm' /\ EnableFollows'
    BY <2>1 DEF EnableCalm, EnableFollows
  <2> QED
    BY <2>1, <2>2, BookUntouched DEF IInv, TypeOK
<1>5. CASE UNCHANGED vars
  <2>1. EnableCalm' /\ EnableFollows'
    BY <1>5 DEF vars, bookVars, enableVars, IInv, EnableCalm, EnableFollows, Working,
                Readable, Identity, HasCurrent
  <2> QED
    BY <1>5, <2>1, BookUntouched DEF vars, enableVars, IInv, TypeOK
<1> QED
  BY <1>1, <1>2, <1>3, <1>4, <1>5 DEF Next

(* The invariant of the contexts file and of all who use it.               *)
THEOREM Invariance == Spec => []IInv
BY Begins, Keeps, PTL DEF Spec

(* The variables keep their types, for any number of commands.             *)
THEOREM TypeCorrect == Spec => []TypeOK
<1>1. IInv => TypeOK
  BY DEF IInv
<1> QED
  BY <1>1, Invariance, PTL

(* No document on disk or in a command has a dangling current context.     *)
THEOREM NeverDangling == Spec => []CurrentDefined
<1>1. IInv => CurrentDefined
  BY DEF IInv
<1> QED
  BY <1>1, Invariance, PTL

(* A success that was not disturbed is in config.json.                     *)
THEOREM SavesAreKept == Spec => []SavedWhenAlone
<1>1. IInv => SavedWhenAlone
  BY DEF IInv
<1> QED
  BY <1>1, Invariance, PTL

(* enable deploys the identity that config.json, and only without a current*)
(* context the env file, stands for.                                       *)
THEOREM EnableIsFaithful == Spec => []EnableFollows
<1>1. IInv => EnableFollows
  BY DEF IInv
<1> QED
  BY <1>1, Invariance, PTL

(* While no two commands overlap, config.json changes by whole commands.   *)
LEMMA QuietStep ==
  ASSUME IInv, Next, Quiet, conf' # conf
  PROVE  conf'.state = "whole" /\ Contexts!Next
<1>1. ASSUME NEW c \in Commands, Command(c)
      PROVE  conf'.state = "whole" /\ Contexts!Next
  <2>1. CASE WriteTmp(c)
    <3>1. pc[c] = "write" /\ solo[c]
      BY <2>1 DEF WriteTmp, At, Quiet, Working
    <3>2. fd[c] = "tmp"
      BY <3>1 DEF IInv, SoloSaves, At
    <3> QED
      BY <2>1, <3>2 DEF WriteTmp
  <2>2. CASE RenameTmp(c)
    <3>1. pc[c] = "rename" /\ solo[c] /\ conf' = tmp
      BY <2>2 DEF RenameTmp, At, Quiet, Working
    <3>2. tmp = Whole(draft[c]) /\ draft[c] \in Contexts!Changes(conf.doc)
      BY <3>1 DEF IInv, SoloSaves, Working, At
    <3> QED
      BY <3>1, <3>2 DEF Whole, Contexts!Next
  <2>3. CASE ~WriteTmp(c) /\ ~RenameTmp(c)
    BY <1>1, <2>3 DEF Command, LoadAndChange, OpenTmp, Fail, Report, Stop
  <2> QED
    BY <2>1, <2>2, <2>3
<1>2. ~(LoadDeployment \/ WriteConfig \/ EndEnable \/ EnvChanges)
  BY DEF LoadDeployment, WriteConfig, EndEnable, EnvChanges, bookVars
<1> QED
  BY <1>1, <1>2 DEF Next

(* kubeconfig.go:85 "writes atomically" holds while commands do not overlap*)
THEOREM AtomicAlone == Spec => AtomicWhenAlone
<1>1. IInv /\ [Next]_vars => [Quiet /\ conf' # conf => conf'.state = "whole" /\ Contexts!Next]_vars
  BY QuietStep DEF vars
<1> QED
  BY <1>1, Invariance, PTL DEF Spec, AtomicWhenAlone

(* One command at a time, however often it fails or is interrupted, makes  *)
(* config.json the abstract book.                                          *)
THEOREM ImplementsBook ==
  ASSUME \A c, d \in Commands : c = d
  PROVE  Spec => Contexts!Spec
<1>1. Init => Quiet /\ Contexts!Init
  BY DEF Init, Quiet, Working, Contexts!Init, Broken
<1>2. IInv /\ Quiet /\ [Next]_vars => Quiet'
  <2> SUFFICES ASSUME IInv, Quiet, [Next]_vars PROVE Quiet'
    OBVIOUS
  <2>1. ASSUME NEW c \in Commands, Command(c) PROVE Quiet'
    <3>1. CASE LoadAndChange(c)
      <4>1. ~\E a \in Commands : Working(a)
        BY <3>1 DEF LoadAndChange, Working, At
      <4>2. solo'[c] = TRUE
        BY <3>1, <4>1 DEF LoadAndChange
      <4> QED
        BY <4>2 DEF Quiet
    <3>2. CASE ~LoadAndChange(c)
      <4>1. UNCHANGED solo \/ pc'[c] = "idle"
        BY <2>1, <3>2 DEF Command, OpenTmp, WriteTmp, RenameTmp, Fail, Report, Stop, Goto, IInv, TypeOK
      <4>2. Working(c)' => Working(c)
        BY <2>1, <3>2 DEF Command, OpenTmp, WriteTmp, RenameTmp, Fail, Report, Stop, Goto, At,
                          Working, IInv, TypeOK
      <4> QED
        BY <4>1, <4>2 DEF Quiet, Working
    <3> QED
      BY <3>1, <3>2
  <2>2. CASE UNCHANGED bookVars
    BY <2>2 DEF Quiet, Working, bookVars
  <2> QED
    BY <2>1, <2>2 DEF Next, vars, bookVars, LoadDeployment, WriteConfig, EndEnable, EnvChanges
<1>3. IInv /\ Quiet /\ [Next]_vars => [Contexts!Next]_(conf.doc)
  BY QuietStep DEF vars, bookVars
<1> QED
  BY <1>1, <1>2, <1>3, Invariance, PTL DEF Spec, Contexts!Spec
=============================================================================
