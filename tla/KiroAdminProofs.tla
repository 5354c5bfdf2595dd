-------------------------- MODULE KiroAdminProofs --------------------------
(***************************************************************************)
(* Theorems about KiroAdmin, for any number of handlers, names and keys.   *)
(* The argument: a change that no other change overlaps works alone (the   *)
(* handlers beside it only read), so what it read, wrote, renamed, checked *)
(* and reloaded is what the store holds, whatever was left behind before;  *)
(* afterwards nothing but a new change, which ends the claim, and main's   *)
(* own render, which writes the same again, touches config.json.           *)
(***************************************************************************)
EXTENDS AuditLog, SequenceInduction

(* The initial states satisfy the invariant: nothing is in flight.         *)
LEMMA InitIInv == Init => IInv
<1>. SUFFICES ASSUME Init PROVE IInv
  OBVIOUS
<1>. USE AdminAssumption DEF Init
<1>1. NoDoc \in Doc
  BY DEF NoDoc, Doc
<1>2. TypeOK
  BY <1>1 DEF TypeOK, Config, WholeConfig, MissingConfig, PcLabels, Goroutines
<1>3. Phases /\ Requests /\ SoloAlone /\ AloneRenders
  BY DEF Phases, Requests, SoloAlone, AloneRenders, Alone, Rendered, Changing,
         At, Goroutines
<1>4. SettledQuiet /\ SettledInForce /\ EnvCurrent
  BY DEF SettledQuiet, SettledInForce, EnvCurrent, Goroutines
<1>. QED
  BY <1>2, <1>3, <1>4 DEF IInv

(* An overwritten file is whole or mixed; an empty one becomes whole.      *)
LEMMA OverSound ==
  ASSUME NEW c \in Config, NEW d \in Doc
  PROVE  /\ Over(c, d) \subseteq Config
         /\ Over(EmptyConfig, d) = {WholeConfig(d)}
<1>1. WholeConfig(d) \in Config /\ MixedConfig \in Config
  BY DEF Config, WholeConfig, MixedConfig, NoDoc, Doc
<1>2. MayCover(EmptyConfig, d) /\ ~MayMix(EmptyConfig, d)
  BY DEF MayCover, MayMix, EmptyConfig
<1>. QED
  BY <1>1, <1>2 DEF Over

(* Every step keeps the variables in their types.                          *)
LEMMA TypeStep == IInv /\ [Next]_vars => TypeOK'
<1>. SUFFICES ASSUME TypeOK, Phases, Requests, [Next]_vars PROVE TypeOK'
  BY DEF IInv
<1>. USE AdminAssumption DEF TypeOK, At, Goto, storeVars, fileVars, boxVars, ghostVars
<1>1. NoDoc \in Doc /\ EmptyConfig \in Config /\ MissingConfig \in Config
  BY DEF NoDoc, Doc, Config, EmptyConfig, MissingConfig
<1>2. ASSUME NEW h \in Handlers, NEW r \in Request, AcceptChange(h, r) \/ AcceptEnv(h, r)
      PROVE  TypeOK'
  <2>1. CASE AcceptChange(h, r)
    BY <2>1 DEF AcceptChange, PcLabels, Goroutines
  <2>2. CASE AcceptEnv(h, r)
    BY <2>2 DEF AcceptEnv, PcLabels, Goroutines
  <2>. QED
    BY <1>2, <2>1, <2>2
<1>3. ASSUME NEW g \in Goroutines, Work(g) PROVE TypeOK'
  <2>1. CASE CreateUser(g)
    <3>1. req[g].name \in Names
      BY <2>1 DEF CreateUser, Request, NoRequest
    <3>. QED
      BY <2>1, <3>1 DEF CreateUser, Store!Create, Store!User, PcLabels
  <2>2. CASE DeleteUser(g)
    BY <2>2 DEF DeleteUser, Store!Delete, PcLabels
  <2>3. CASE Refuse(g)
    BY <2>3 DEF Refuse, PcLabels
  <2>4. CASE OpenKey(g)
    BY <2>4 DEF OpenKey, Store!LoseKey, PcLabels
  <2>5. CASE WriteKey(g)
    BY <2>5 DEF WriteKey, Store!SetKey, PcLabels
  <2>6. CASE ListUsers(g)
    BY <2>6 DEF ListUsers, PcLabels, Doc
  <2>7. CASE GetUser(g)
    BY <2>7 DEF GetUser, PcLabels, Doc
  <2>8. CASE ReadKey(g)
    BY <2>8 DEF ReadKey, PcLabels, Doc
  <2>9. CASE OpenTmp(g)
    BY <1>1, <2>9 DEF OpenTmp, PcLabels
  <2>10. CASE WriteTmp(g)
    <3>1. tmp' \in Config /\ conf' \in Config
      BY <2>10, OverSound DEF WriteTmp
    <3>. QED
      BY <1>1, <2>10, <3>1 DEF WriteTmp, PcLabels
  <2>11. CASE RenameTmp(g)
    BY <1>1, <2>11 DEF RenameTmp, AfterRename, PcLabels
  <2>12. CASE CheckConfig(g)
    BY <2>12 DEF CheckConfig, PcLabels
  <2>13. CASE Reload(g)
    BY <2>13 DEF Reload, PcLabels
  <2>14. CASE Fail(g)
    BY <1>1, <2>14 DEF Fail, PcLabels
  <2>15. CASE Answer(g)
    BY <1>1, <2>15 DEF Answer, PcLabels
  <2>. QED
    BY <1>3, <2>1, <2>2, <2>3, <2>4, <2>5, <2>6, <2>7, <2>8, <2>9, <2>10,
       <2>11, <2>12, <2>13, <2>14, <2>15 DEF Work, ChangeStore, Render
<1>4. CASE Boot
  BY <1>4 DEF Boot, PcLabels, Goroutines
<1>5. CASE Crash
  BY <1>1, <1>5 DEF Crash, PcLabels
<1>6. CASE SingBox
  <2>1. singbox' \in [up : BOOLEAN, doc : Doc]
    <3>1. \/ singbox' = singbox
          \/ singbox' = [up |-> FALSE, doc |-> NoDoc]
          \/ singbox' = [up |-> TRUE, doc |-> conf.doc]
      BY <1>6 DEF SingBox, LoadConfig, SingBoxExits, SingBoxStarts
    <3>2. conf.doc \in Doc
      BY DEF Config
    <3>3. \A b \in BOOLEAN, d \in Doc : [up |-> b, doc |-> d] \in [up : BOOLEAN, doc : Doc]
      OBVIOUS
    <3>4. singbox \in [up : BOOLEAN, doc : Doc] /\ TRUE \in BOOLEAN /\ FALSE \in BOOLEAN
      OBVIOUS
    <3>. QED
      BY <1>1, <3>1, <3>2, <3>3, <3>4, Zenon
  <2>2. hup' \in BOOLEAN
    BY <1>6 DEF SingBox, LoadConfig, SingBoxExits, SingBoxStarts
  <2>. QED
    BY <1>6, <2>1, <2>2 DEF SingBox, LoadConfig, SingBoxExits, SingBoxStarts
<1>7. CASE UNCHANGED vars
  BY <1>7 DEF vars
<1>. QED
  BY <1>2, <1>3, <1>4, <1>5, <1>6, <1>7 DEF Next

-----------------------------------------------------------------------------
(* A working goroutine changes no other one's program counter, request,    *)
(* reads or claim to run alone, and keeps its own request to the end.      *)
LEMMA WorkOwn ==
  ASSUME TypeOK, Phases, NEW g \in Goroutines, Work(g)
  PROVE  /\ ~At(g, "idle")
         /\ \A x \in Goroutines \ {g} :
              pc'[x] = pc[x] /\ req'[x] = req[x] /\ doc'[x] = doc[x] /\ solo'[x] = solo[x]
         /\ IF pc'[g] = "idle" /\ g # Main
              THEN req'[g] = NoRequest /\ ~solo'[g]
              ELSE req'[g] = req[g] /\ solo'[g] = solo[g]
         /\ IF pc'[g] = "idle" /\ g = Main THEN phase' = "up" ELSE phase' = phase
<1>. USE AdminAssumption DEF TypeOK, At, Goto, storeVars, fileVars, boxVars,
                             ghostVars, Phases, Goroutines
<1>1. CASE CreateUser(g) \/ DeleteUser(g)
  BY <1>1 DEF CreateUser, DeleteUser
<1>2. CASE Refuse(g)
  BY <1>2 DEF Refuse
<1>3. CASE OpenKey(g) \/ WriteKey(g)
  BY <1>3 DEF OpenKey, WriteKey
<1>4. CASE ListUsers(g)
  BY <1>4 DEF ListUsers
<1>5. CASE GetUser(g)
  BY <1>5 DEF GetUser
<1>6. CASE ReadKey(g)
  BY <1>6 DEF ReadKey
<1>7. CASE OpenTmp(g)
  BY <1>7 DEF OpenTmp
<1>8. CASE WriteTmp(g)
  BY <1>8 DEF WriteTmp
<1>9. CASE RenameTmp(g)
  BY <1>9 DEF RenameTmp
<1>10. CASE CheckConfig(g) \/ Reload(g)
  BY <1>10 DEF CheckConfig, Reload
<1>11. CASE Fail(g)
  BY <1>11 DEF Fail
<1>12. CASE Answer(g)
  BY <1>12 DEF Answer
<1>. QED
  BY <1>1, <1>2, <1>3, <1>4, <1>5, <1>6, <1>7, <1>8, <1>9, <1>10, <1>11, <1>12
  DEF Work, ChangeStore, Render

(* Main renders only while it boots, and handlers work only when it is up. *)
LEMMA PhasesStep == IInv /\ [Next]_vars => Phases'
<1>. SUFFICES ASSUME TypeOK, Phases, Requests, [Next]_vars PROVE Phases'
  BY DEF IInv
<1>. USE AdminAssumption DEF TypeOK, At, Goto, storeVars, fileVars, boxVars,
                             ghostVars, Phases
<1>1. ASSUME NEW h \in Handlers, NEW r \in Request, AcceptChange(h, r) \/ AcceptEnv(h, r)
      PROVE  Phases'
  BY <1>1 DEF AcceptChange, AcceptEnv, Goroutines
<1>2. ASSUME NEW h \in Handlers, Work(h) PROVE Phases'
  BY <1>2, WorkOwn DEF Goroutines
<1>3. CASE Work(Main)
  <2>1. phase = "boot" /\ \A h \in Handlers : pc'[h] = "idle"
    BY <1>3, WorkOwn DEF Goroutines
  <2>2. req'[Main] = NoRequest
    BY <1>3, WorkOwn DEF Goroutines
  <2>3. pc'[Main] \in {"list", "key", "open", "write", "rename", "idle"}
    BY <1>3, <2>1 DEF Work, ChangeStore, Render, CreateUser, DeleteUser, Refuse,
       OpenKey, WriteKey, ListUsers, GetUser, ReadKey, OpenTmp, WriteTmp,
       RenameTmp, CheckConfig, Reload, Fail, Answer, NoRequest, Goroutines
  <2>. QED
    BY <1>3, <2>1, <2>2, <2>3, WorkOwn DEF Goroutines
<1>4. CASE Boot
  BY <1>4 DEF Boot, Goroutines
<1>5. CASE Crash
  BY <1>5 DEF Crash, Goroutines
<1>6. CASE SingBox
  BY <1>6 DEF SingBox, LoadConfig, SingBoxExits, SingBoxStarts
<1>7. CASE UNCHANGED vars
  BY <1>7 DEF vars
<1>. QED
  BY <1>1, <1>2, <1>3, <1>4, <1>5, <1>6, <1>7 DEF Next, Goroutines

(* A handler serves one request from start to end; one that serves an env  *)
(* download only reads.                                                    *)
LEMMA RequestsStep == IInv /\ [Next]_vars => Requests'
<1>. SUFFICES ASSUME TypeOK, Phases, Requests, [Next]_vars PROVE Requests'
  BY DEF IInv
<1>. USE AdminAssumption DEF TypeOK, At, Goto, storeVars, fileVars, boxVars,
                             ghostVars, Requests
<1>1. ASSUME NEW h \in Handlers, NEW r \in Request, AcceptChange(h, r) \/ AcceptEnv(h, r)
      PROVE  Requests'
  BY <1>1 DEF AcceptChange, AcceptEnv, Goroutines
<1>2. ASSUME NEW g \in Goroutines, Work(g) PROVE Requests'
  <2>1. ASSUME g \in Handlers, req[g].action = "env", pc'[g] # "idle"
        PROVE  pc'[g] \in {"list", "key", "done", "failed"}
    BY <1>2, <2>1 DEF Work, ChangeStore, Render, CreateUser, DeleteUser, Refuse,
       OpenKey, WriteKey, ListUsers, GetUser, ReadKey, OpenTmp, WriteTmp,
       RenameTmp, CheckConfig, Reload, Fail, Answer
  <2>. QED
    BY <1>2, <2>1, WorkOwn DEF Goroutines
<1>3. CASE Boot
  BY <1>3 DEF Boot, Goroutines
<1>4. CASE Crash
  BY <1>4 DEF Crash, Goroutines
<1>5. CASE SingBox
  BY <1>5 DEF SingBox, LoadConfig, SingBoxExits, SingBoxStarts
<1>6. CASE UNCHANGED vars
  BY <1>6 DEF vars
<1>. QED
  BY <1>1, <1>2, <1>3, <1>4, <1>5, <1>6 DEF Next, Goroutines

(* The claim to run alone is true: a change that would overlap takes the   *)
(* claim from every other request.                                         *)
LEMMA SoloStep == IInv /\ [Next]_vars => SoloAlone'
<1>. SUFFICES ASSUME TypeOK, Phases, Requests, SoloAlone, [Next]_vars PROVE SoloAlone'
  BY DEF IInv
<1>. USE AdminAssumption DEF TypeOK, At, Goto, storeVars, fileVars, boxVars,
                             ghostVars, SoloAlone, Changing
<1>1. ASSUME NEW h \in Handlers, NEW r \in Request, AcceptChange(h, r)
      PROVE  SoloAlone'
  BY <1>1 DEF AcceptChange, Goroutines
<1>2. ASSUME NEW h \in Handlers, NEW r \in Request, AcceptEnv(h, r)
      PROVE  SoloAlone'
  BY <1>2 DEF AcceptEnv, Goroutines
<1>3. ASSUME NEW g \in Goroutines, Work(g) PROVE SoloAlone'
  BY <1>3, WorkOwn DEF Goroutines, NoRequest
<1>4. CASE Boot
  BY <1>4 DEF Boot, Goroutines
<1>5. CASE Crash
  BY <1>5 DEF Crash, Goroutines
<1>6. CASE SingBox
  BY <1>6 DEF SingBox, LoadConfig, SingBoxExits, SingBoxStarts
<1>7. CASE UNCHANGED vars
  BY <1>7 DEF vars
<1>. QED
  BY <1>1, <1>2, <1>3, <1>4, <1>5, <1>6, <1>7 DEF Next, Goroutines

-----------------------------------------------------------------------------
(* A handler that serves a download, or has ended its work, changes        *)
(* nothing that others see.                                                *)
LEMMA ReaderWork ==
  ASSUME IInv, NEW h \in Handlers, Work(h),
         Changing(h) => pc[h] \in {"done", "failed"}
  PROVE  UNCHANGED <<dir, serverKey, tmp, conf, singbox, hup, settled>>
<1>1. \/ req[h].action = "env" /\ pc[h] \in {"list", "key", "done", "failed"}
      \/ pc[h] \in {"done", "failed"}
  BY WorkOwn DEF IInv, Requests, Changing, Request, At, Goroutines, TypeOK
<1>2. GetUser(h) \/ ReadKey(h) \/ Fail(h) \/ Answer(h)
  BY <1>1 DEF Work, ChangeStore, Render, CreateUser, DeleteUser, Refuse,
     OpenKey, WriteKey, ListUsers, OpenTmp, WriteTmp, RenameTmp, CheckConfig,
     Reload, At
<1>. QED
  BY <1>2 DEF GetUser, ReadKey, Fail, Answer, storeVars, fileVars, boxVars, ghostVars

(* Beside a goroutine that is alone, the others only read.                 *)
LEMMA Bystander ==
  ASSUME IInv, NEW x \in Goroutines, Alone(x),
         NEW h \in Goroutines, h # x, Work(h)
  PROVE  /\ UNCHANGED <<dir, serverKey, tmp, conf>>
         /\ fd'[x] = fd[x]
<1>. USE AdminAssumption
<1>1. h \in Handlers /\ ~Changing(h)
  BY WorkOwn DEF IInv, Alone, Phases, SoloAlone, Changing, Goroutines, At
<1>2. req[h].action = "env" /\ pc[h] \in {"list", "key", "done", "failed"}
  BY <1>1, WorkOwn DEF IInv, Requests, Changing, Request, At, Goroutines, TypeOK
<1>3. GetUser(h) \/ ReadKey(h) \/ Fail(h) \/ Answer(h)
  BY <1>2 DEF Work, ChangeStore, Render, CreateUser, DeleteUser, Refuse,
     OpenKey, WriteKey, ListUsers, OpenTmp, WriteTmp, RenameTmp, CheckConfig,
     Reload, At
<1>. QED
  BY <1>1, <1>3 DEF GetUser, ReadKey, Fail, Answer, storeVars, fileVars,
     boxVars, ghostVars, IInv, TypeOK

(* A goroutine that is alone renders what the store holds, step by step.   *)
LEMMA RendersItself ==
  ASSUME IInv, NEW g \in Goroutines, Alone(g), Work(g)
  PROVE  Rendered(g)'
<1>. USE AdminAssumption DEF At, Goto, storeVars, fileVars, boxVars, ghostVars
<1>1. Rendered(g) /\ TypeOK /\ pc[g] # "idle" /\ req[g].action # "env"
  BY WorkOwn DEF IInv, AloneRenders, Alone, Changing, Phases, NoRequest, Goroutines
<1>2. CASE ChangeStore(g)
  BY <1>1, <1>2 DEF ChangeStore, CreateUser, DeleteUser, Refuse, OpenKey,
     WriteKey, TypeOK, Rendered
<1>3. CASE ListUsers(g)
  BY <1>1, <1>3 DEF ListUsers, TypeOK, Rendered
<1>4. CASE GetUser(g)
  BY <1>1, <1>4 DEF GetUser
<1>5. CASE ReadKey(g)
  BY <1>1, <1>5 DEF ReadKey, TypeOK, Rendered
<1>6. CASE OpenTmp(g)
  BY <1>1, <1>6 DEF OpenTmp, TypeOK, Rendered
<1>7. CASE WriteTmp(g)
  <2>1. fd[g] = "tmp" /\ tmp = EmptyConfig /\ doc[g] = [users |-> dir, key |-> serverKey]
    BY <1>1, <1>7 DEF WriteTmp, Rendered, TypeOK, Doc
  <2>2. tmp' = CurrentConfig
    BY <1>1, <1>7, <2>1, OverSound DEF WriteTmp, CurrentConfig, TypeOK
  <2>. QED
    BY <1>1, <1>7, <2>2 DEF WriteTmp, Rendered, TypeOK, CurrentConfig
<1>8. CASE RenameTmp(g)
  BY <1>1, <1>8 DEF RenameTmp, Rendered, TypeOK, CurrentConfig
<1>9. CASE CheckConfig(g)
  BY <1>1, <1>9 DEF CheckConfig, Rendered, TypeOK, CurrentConfig, Valid
<1>10. CASE Reload(g)
  BY <1>1, <1>10 DEF Reload, Rendered, TypeOK
<1>11. CASE Fail(g) \/ Answer(g)
  BY <1>1, <1>11 DEF Fail, Answer, Rendered, TypeOK
<1>. QED
  BY <1>2, <1>3, <1>4, <1>5, <1>6, <1>7, <1>8, <1>9, <1>10, <1>11 DEF Work, Render

(* What a goroutine that is alone has rendered stays what the store holds. *)
LEMMA RendersStep == IInv /\ [Next]_vars => AloneRenders'
<1>. SUFFICES ASSUME IInv, [Next]_vars, NEW x \in Goroutines, Alone(x)'
              PROVE  Rendered(x)'
  BY DEF AloneRenders, Goroutines
<1>. USE AdminAssumption DEF At, Goto, storeVars, fileVars, boxVars, ghostVars
<1>. USE DEF IInv, TypeOK
<1>1. ASSUME NEW h \in Handlers, NEW r \in Request, AcceptChange(h, r)
      PROVE  Rendered(x)'
  <2>1. x = h
    BY <1>1 DEF AcceptChange, Alone, Goroutines
  <2>. QED
    BY <1>1, <2>1 DEF AcceptChange, Rendered
<1>2. ASSUME NEW h \in Handlers, NEW r \in Request, AcceptEnv(h, r)
      PROVE  Rendered(x)'
  <2>1. x # h /\ Alone(x)
    BY <1>2 DEF AcceptEnv, Alone, Changing, Goroutines
  <2>. QED
    BY <1>2, <2>1 DEF AcceptEnv, AloneRenders, Rendered, Goroutines, CurrentConfig, Valid
<1>3. ASSUME NEW g \in Goroutines, Work(g) PROVE Rendered(x)'
  <2>1. Alone(x)
    BY <1>3, WorkOwn DEF Alone, Changing, Goroutines, NoRequest, Phases
  <2>2. CASE g = x
    BY <1>3, <2>1, <2>2, RendersItself
  <2>3. CASE g # x
    <3>1. UNCHANGED <<dir, serverKey, tmp, conf>> /\ fd'[x] = fd[x]
      BY <1>3, <2>1, <2>3, Bystander
    <3>2. pc'[x] = pc[x] /\ doc'[x] = doc[x]
      BY <1>3, <2>3, WorkOwn
    <3>. QED
      BY <2>1, <3>1, <3>2 DEF AloneRenders, Rendered, CurrentConfig, Valid
  <2>. QED
    BY <2>2, <2>3
<1>4. CASE Boot
  BY <1>4 DEF Boot, Alone, Changing, Rendered, Phases, Goroutines
<1>5. CASE Crash
  BY <1>5 DEF Crash, Alone, Changing, Goroutines
<1>6. CASE SingBox
  <2>1. Alone(x)
    BY <1>6 DEF SingBox, LoadConfig, SingBoxExits, SingBoxStarts, Alone, Changing
  <2>. QED
    BY <1>6, <2>1 DEF SingBox, LoadConfig, SingBoxExits, SingBoxStarts,
       AloneRenders, Rendered, CurrentConfig, Valid
<1>7. CASE UNCHANGED vars
  BY <1>7 DEF vars, AloneRenders, Alone, Changing, Rendered, CurrentConfig, Valid
<1>. QED
  BY <1>1, <1>2, <1>3, <1>4, <1>5, <1>6, <1>7 DEF Next

-----------------------------------------------------------------------------
(* Once a change has settled, whoever works does not change the store.     *)
LEMMA SettledWork ==
  ASSUME IInv, settled, NEW g \in Goroutines, Work(g)
  PROVE  /\ settled'
         /\ UNCHANGED <<dir, serverKey, singbox, hup>>
         /\ conf' = conf
<1>1. CASE g \in Handlers
  BY <1>1, ReaderWork DEF IInv, SettledQuiet
<1>2. CASE g = Main
  <2>1. phase = "boot" /\ Alone(g) /\ req[g] = NoRequest
    BY <1>2, WorkOwn DEF IInv, Phases, Alone
  <2>2. ListUsers(g) \/ ReadKey(g) \/ OpenTmp(g) \/ WriteTmp(g) \/ RenameTmp(g) \/ Fail(g)
    <3>1. pc[g] \in {"list", "key", "open", "write", "rename"} /\ req[g].action # "env"
      BY <1>2, <2>1 DEF IInv, Phases, NoRequest
    <3>. QED
      BY <3>1
      DEF Work, ChangeStore, Render, CreateUser, DeleteUser, Refuse, OpenKey,
          WriteKey, GetUser, CheckConfig, Reload, Answer, At
  <2>3. UNCHANGED <<dir, serverKey, singbox, hup, settled>>
    BY <2>2 DEF ListUsers, ReadKey, OpenTmp, WriteTmp, RenameTmp, Fail, storeVars,
       boxVars, ghostVars
  <2>4. conf = CurrentConfig
    BY DEF IInv, SettledInForce, Current, Valid, CurrentConfig, WholeConfig,
       TypeOK, Config, Doc
  <2>5. conf' = conf
    <3>1. Rendered(g)
      BY <2>1 DEF IInv, AloneRenders
    <3>2. CASE WriteTmp(g)
      BY <3>1, <3>2 DEF WriteTmp, Rendered, At
    <3>3. CASE RenameTmp(g)
      BY <2>4, <3>1, <3>3 DEF RenameTmp, Rendered, At
    <3>. QED
      BY <2>2, <3>2, <3>3 DEF ListUsers, ReadKey, OpenTmp, Fail, fileVars
  <2>. QED
    BY <2>3, <2>5
<1>. QED
  BY <1>1, <1>2 DEF Goroutines

(* While settled, every change in flight has done its work.                *)
LEMMA QuietStep == IInv /\ [Next]_vars => SettledQuiet'
<1>. SUFFICES ASSUME IInv, [Next]_vars, settled', NEW h \in Handlers, Changing(h)'
              PROVE  pc'[h] \in {"done", "failed"}
  BY DEF SettledQuiet
<1>. USE AdminAssumption DEF At, Goto, storeVars, fileVars, boxVars, ghostVars
<1>. USE DEF IInv, TypeOK, Changing, Goroutines
<1>1. ASSUME NEW c \in Handlers, NEW r \in Request, AcceptChange(c, r) PROVE FALSE
  BY <1>1 DEF AcceptChange
<1>2. ASSUME NEW c \in Handlers, NEW r \in Request, AcceptEnv(c, r)
      PROVE  pc'[h] \in {"done", "failed"}
  BY <1>2 DEF AcceptEnv, SettledQuiet
<1>3. ASSUME NEW g \in Goroutines, Work(g) PROVE pc'[h] \in {"done", "failed"}
  <2>1. Changing(h)
    BY <1>3, WorkOwn DEF NoRequest
  <2>2. CASE settled
    <3>1. pc[h] \in {"done", "failed"}
      BY <2>1, <2>2 DEF SettledQuiet
    <3>2. CASE g = h
      BY <1>3, <3>1, <3>2 DEF Work, ChangeStore, Render, CreateUser, DeleteUser,
         Refuse, OpenKey, WriteKey, ListUsers, GetUser, ReadKey, OpenTmp, WriteTmp,
         RenameTmp, CheckConfig, Reload, Fail, Answer
    <3>. QED
      BY <1>3, <3>1, <3>2, WorkOwn
  <2>3. CASE ~settled
    <3>1. Reload(g) /\ solo[g]
      BY <1>3, <2>3 DEF Work, ChangeStore, Render, CreateUser, DeleteUser,
         Refuse, OpenKey, WriteKey, ListUsers, GetUser, ReadKey, OpenTmp, WriteTmp,
         RenameTmp, CheckConfig, Reload, Fail, Answer
    <3>2. g \in Handlers /\ Changing(g)
      BY <3>1 DEF Reload, Phases, Requests, Request
    <3>3. g = h
      BY <2>1, <3>1, <3>2 DEF SoloAlone
    <3>. QED
      BY <3>1, <3>3 DEF Reload
  <2>. QED
    BY <2>2, <2>3
<1>4. CASE Boot
  BY <1>4 DEF Boot, SettledQuiet
<1>5. CASE Crash
  BY <1>5 DEF Crash
<1>6. CASE SingBox
  BY <1>6 DEF SingBox, LoadConfig, SingBoxExits, SingBoxStarts, SettledQuiet
<1>7. CASE UNCHANGED vars
  BY <1>7 DEF vars, SettledQuiet
<1>. QED
  BY <1>1, <1>2, <1>3, <1>4, <1>5, <1>6, <1>7 DEF Next

(* What a settled change put in force stays in force.                      *)
LEMMA InForceStep == IInv /\ [Next]_vars => SettledInForce'
<1>. SUFFICES ASSUME IInv, [Next]_vars, settled' PROVE SettledInForce'
  BY DEF SettledInForce
<1>. USE DEF storeVars, fileVars, boxVars, ghostVars, Current, Valid
<1>1. ASSUME NEW h \in Handlers, NEW r \in Request, AcceptChange(h, r) PROVE FALSE
  BY <1>1 DEF AcceptChange
<1>2. ASSUME NEW h \in Handlers, NEW r \in Request, AcceptEnv(h, r)
      PROVE  SettledInForce'
  BY <1>2 DEF AcceptEnv, IInv, SettledInForce
<1>3. ASSUME NEW g \in Goroutines, Work(g) PROVE SettledInForce'
  <2>1. CASE settled
    BY <1>3, <2>1, SettledWork DEF IInv, SettledInForce
  <2>2. CASE ~settled
    <3>1. Reload(g) /\ solo[g]
      BY <1>3, <2>2 DEF Work, ChangeStore, Render, CreateUser, DeleteUser,
         Refuse, OpenKey, WriteKey, ListUsers, GetUser, ReadKey, OpenTmp, WriteTmp,
         RenameTmp, CheckConfig, Reload, Fail, Answer
    <3>2. g \in Handlers /\ Changing(g)
      BY <3>1, AdminAssumption
      DEF Reload, At, IInv, Phases, Requests, Request, Changing, Goroutines
    <3>3. conf = CurrentConfig /\ Valid(conf)
      BY <3>1, <3>2 DEF IInv, AloneRenders, Alone, Rendered, Reload, At
    <3>. QED
      BY <3>1, <3>3 DEF Reload, SettledInForce, CurrentConfig, WholeConfig
  <2>. QED
    BY <2>1, <2>2
<1>4. CASE Boot
  BY <1>4 DEF Boot, IInv, SettledInForce
<1>5. CASE Crash
  BY <1>5 DEF Crash, IInv, SettledInForce
<1>6. CASE SingBox
  <2>1. CASE LoadConfig
    BY <2>1 DEF LoadConfig, IInv, SettledInForce
  <2>2. CASE SingBoxExits
    BY <2>2 DEF SingBoxExits, IInv, SettledInForce
  <2>3. CASE SingBoxStarts
    BY <2>3 DEF SingBoxStarts, IInv, SettledInForce
  <2>. QED
    BY <1>6, <2>1, <2>2, <2>3 DEF SingBox
<1>7. CASE UNCHANGED vars
  BY <1>7 DEF vars, IInv, SettledInForce
<1>. QED
  BY <1>1, <1>2, <1>3, <1>4, <1>5, <1>6, <1>7 DEF Next

(* A download that no change overlapped read what the store holds.         *)
LEMMA EnvStep == IInv /\ [Next]_vars => EnvCurrent'
<1>. SUFFICES ASSUME IInv, [Next]_vars, NEW h \in Handlers,
                     solo'[h], req'[h].action = "env"
              PROVE  /\ settled'
                     /\ pc'[h] \in {"key", "done"} =>
                          doc'[h].users # {} /\ doc'[h].users \subseteq dir'
                     /\ pc'[h] = "done" => doc'[h].key = serverKey'
  BY DEF EnvCurrent, At
<1>. DEFINE P == /\ settled'
                 /\ pc'[h] \in {"key", "done"} =>
                      doc'[h].users # {} /\ doc'[h].users \subseteq dir'
                 /\ pc'[h] = "done" => doc'[h].key = serverKey'
<1>. USE AdminAssumption DEF At, Goto, storeVars, fileVars, boxVars, ghostVars
<1>. USE DEF IInv, TypeOK, Goroutines, EnvCurrent
<1>1. ASSUME NEW c \in Handlers, NEW r \in Request, AcceptChange(c, r) PROVE FALSE
  BY <1>1 DEF AcceptChange
<1>2. ASSUME NEW c \in Handlers, NEW r \in Request, AcceptEnv(c, r) PROVE P
  BY <1>2 DEF AcceptEnv
<1>3. ASSUME NEW g \in Goroutines, Work(g) PROVE P
  <2>1. solo[h] /\ req[h].action = "env" /\ settled
    BY <1>3, WorkOwn DEF NoRequest
  <2>2. settled' /\ UNCHANGED <<dir, serverKey>>
    BY <1>3, <2>1, SettledWork
  <2>3. CASE g # h
    BY <1>3, <2>1, <2>2, <2>3, WorkOwn
  <2>4. CASE g = h
    <3>1. pc[h] # "idle" /\ pc[h] \in {"list", "key", "done", "failed"}
      BY <1>3, <2>1, <2>4, WorkOwn DEF Requests
    <3>2. GetUser(h) \/ ReadKey(h) \/ Fail(h) \/ Answer(h)
      BY <1>3, <2>1, <2>4, <3>1
      DEF Work, ChangeStore, Render, CreateUser, DeleteUser, Refuse, OpenKey,
          WriteKey, ListUsers, OpenTmp, WriteTmp, RenameTmp, CheckConfig, Reload
    <3>3. CASE GetUser(h)
      <4>1. doc'[h].users = {u \in dir : u.name = req[h].name}
        BY <3>3 DEF GetUser, Doc
      <4>2. pc'[h] = "key" => doc'[h].users # {}
        BY <3>3, <4>1 DEF GetUser, Store!NamesOf
      <4>. QED
        BY <2>2, <3>3, <4>1, <4>2 DEF GetUser
    <3>4. CASE ReadKey(h)
      BY <2>1, <2>2, <3>4 DEF ReadKey, Doc
    <3>5. CASE Fail(h) \/ Answer(h)
      BY <2>2, <3>5 DEF Fail, Answer
    <3>. QED
      BY <3>2, <3>3, <3>4, <3>5
  <2>. QED
    BY <2>3, <2>4
<1>4. CASE Boot
  BY <1>4 DEF Boot
<1>5. CASE Crash
  BY <1>5 DEF Crash
<1>6. CASE SingBox
  BY <1>6 DEF SingBox, LoadConfig, SingBoxExits, SingBoxStarts
<1>7. CASE UNCHANGED vars
  BY <1>7 DEF vars
<1>. QED
  BY <1>1, <1>2, <1>3, <1>4, <1>5, <1>6, <1>7 DEF Next

-----------------------------------------------------------------------------
(* IInv holds in every state kiro-admin can reach.                         *)
THEOREM Invariance == Spec => []IInv
<1>1. IInv /\ [Next]_vars => IInv'
  BY TypeStep, PhasesStep, RequestsStep, SoloStep, RendersStep, QuietStep,
     InForceStep, EnvStep DEF IInv
<1>. QED
  BY InitIInv, <1>1, PTL DEF Spec

(* Type correctness.                                                       *)
THEOREM TypeCorrect == Spec => []TypeOK
<1>1. IInv => TypeOK
  BY DEF IInv
<1>. QED
  BY <1>1, Invariance, PTL

(* A change that ran alone repairs whatever overlapping or failed requests *)
(* and restarts left behind: config.json and sing-box follow the store.    *)
THEOREM ChangesSettle == Spec => []SettledInForce
<1>1. IInv => SettledInForce
  BY DEF IInv
<1>. QED
  BY <1>1, Invariance, PTL

(* An env file downloaded while no change is under way works.              *)
THEOREM DownloadsWork == Spec => []EnvFileWorks
<1>1. IInv => EnvFileWorks
  BY DEF IInv, EnvFileWorks, EnvCurrent, SettledInForce, Current, At
<1>. QED
  BY <1>1, Invariance, PTL

(* Handlers, startup, crashes and sing-box change the store by nothing but *)
(* the operations of the directory, which UserStore is proved to implement.*)
THEOREM StoreIsDirectory == Spec => [][Store!Next]_storeVars
<1>1. TypeOK /\ [Next]_vars => [Store!Next]_storeVars
  <2>. SUFFICES ASSUME TypeOK, [Next]_vars PROVE Store!Next \/ UNCHANGED storeVars
    OBVIOUS
  <2>1. ASSUME NEW g \in Goroutines, ChangeStore(g) PROVE Store!Next \/ UNCHANGED storeVars
    <3>1. CASE CreateUser(g)
      <4>1. req[g].name \in Names
        BY <3>1 DEF CreateUser, TypeOK, Request, NoRequest
      <4>2. PICK k \in Keys : Store!Create(req[g].name, k)
        BY <3>1 DEF CreateUser
      <4>. QED
        BY <4>1, <4>2 DEF Store!Next
    <3>2. CASE DeleteUser(g)
      BY <3>2 DEF DeleteUser, Store!Next
    <3>3. CASE Refuse(g)
      BY <3>3 DEF Refuse
    <3>4. CASE OpenKey(g)
      BY <3>4 DEF OpenKey, Store!Next
    <3>5. CASE WriteKey(g)
      BY <3>5 DEF WriteKey, Store!Next
    <3>. QED
      BY <2>1, <3>1, <3>2, <3>3, <3>4, <3>5 DEF ChangeStore
  <2>2. ASSUME NEW g \in Goroutines,
               Render(g) \/ CheckConfig(g) \/ Reload(g) \/ Fail(g) \/ Answer(g)
        PROVE  UNCHANGED storeVars
    BY <2>2 DEF Render, ListUsers, GetUser, ReadKey, OpenTmp, WriteTmp, RenameTmp,
                CheckConfig, Reload, Fail, Answer
  <2>3. ASSUME NEW h \in Handlers, NEW r \in Request, AcceptChange(h, r) \/ AcceptEnv(h, r)
        PROVE  UNCHANGED storeVars
    BY <2>3 DEF AcceptChange, AcceptEnv
  <2>4. CASE Boot \/ Crash \/ SingBox \/ UNCHANGED vars
    BY <2>4 DEF Boot, Crash, SingBox, LoadConfig, SingBoxExits, SingBoxStarts, vars
  <2>. QED
    BY <2>1, <2>2, <2>3, <2>4 DEF Next, Work
<1>. QED
  BY <1>1, TypeCorrect, PTL DEF Spec

-----------------------------------------------------------------------------
(***************************************************************************)
(* The audit log keeps its type, and it only adds to what the handlers do: *)
(* every behaviour of AuditLog is one of KiroAdmin, so that the theorems   *)
(* about the change pipeline hold with the log in place.                   *)
(***************************************************************************)
(* A log without an append is one.                                         *)
LEMMA EmptyLog == <<>> \in Seq(Pieces) /\ Len(<<>>) <= MaxLog
<1>1. <<>> \in Seq(Pieces) /\ Len(<<>>) = 0
  OBVIOUS
<1>2. 0 <= MaxLog
  BY LogAssumption
<1>. QED
  BY <1>1, <1>2

(* An append within the bound keeps the type of the log.                   *)
LEMMA AppendKeeps ==
  ASSUME LogTypeOK, Recorded \/ Cut \/ UNCHANGED log
  PROVE  log' \in Seq(Pieces) /\ Len(log') <= MaxLog
<1>1. CASE Recorded
  BY <1>1, LogAssumption DEF LogTypeOK, Recorded, Pieces
<1>2. CASE Cut
  BY <1>2, LogAssumption DEF LogTypeOK, Cut, Pieces
<1>3. CASE UNCHANGED log
  BY <1>3 DEF LogTypeOK
<1>. QED
  BY <1>1, <1>2, <1>3

(* Every step keeps the log's type.                                        *)
LEMMA LogStep == LogTypeOK /\ [AuditNext]_<<vars, logVars>> => LogTypeOK'
<1>. SUFFICES ASSUME LogTypeOK, [AuditNext]_<<vars, logVars>> PROVE LogTypeOK'
  OBVIOUS
<1>1. CASE UNCHANGED logVars
  BY <1>1 DEF LogTypeOK, logVars
<1>2. ASSUME NEW h \in Handlers, Finish(h) PROVE LogTypeOK'
  <2>1. CASE LockLog(h)
    BY <2>1 DEF LogTypeOK, LockLog
  <2>2. CASE Record(h)
    BY <2>2, AppendKeeps DEF LogTypeOK, Record
  <2>3. CASE AnswerUnaudited(h)
    BY <2>3, <1>1 DEF AnswerUnaudited
  <2>. QED
    BY <1>2, <2>1, <2>2, <2>3 DEF Finish
<1>3. CASE BootWithLog
  BY <1>3 DEF LogTypeOK, BootWithLog
<1>4. CASE CrashWithLog
  BY <1>4, AppendKeeps DEF LogTypeOK, CrashWithLog
<1>5. CASE Rotate
  BY <1>5, EmptyLog DEF LogTypeOK, Rotate
<1>. QED
  BY <1>1, <1>2, <1>3, <1>4, <1>5 DEF AuditNext, Serve, logVars

(* The log holds whole and cut appends only, never more than the disk      *)
(* takes, and its mutex belongs to a handler or to nobody.                 *)
THEOREM LogTypeCorrect == AuditSpec => []LogTypeOK
<1>1. AuditInit => LogTypeOK
  BY EmptyLog DEF AuditInit, LogTypeOK
<1>. QED
  BY <1>1, LogStep, PTL DEF AuditSpec

(* Each step with the log is a step of KiroAdmin or leaves it as it is.    *)
LEMMA StepMaps == [AuditNext]_<<vars, logVars>> => [Next]_vars
<1>. SUFFICES ASSUME [AuditNext]_<<vars, logVars>> PROVE [Next]_vars
  OBVIOUS
<1>1. CASE UNCHANGED vars
  BY <1>1
<1>2. CASE \E h \in Handlers, r \in Request : AcceptChange(h, r) \/ AcceptEnv(h, r)
  BY <1>2 DEF Next
<1>3. ASSUME NEW g \in Goroutines, Serve(g) PROVE Next
  <2>1. Work(g)
    BY <1>3 DEF Serve, Work
  <2>. QED
    BY <2>1 DEF Next
<1>4. ASSUME NEW h \in Handlers, Finish(h) PROVE [Next]_vars
  <2>1. Answer(h) => Next
    BY DEF Next, Work, Goroutines
  <2>. QED
    BY <1>1, <1>4, <2>1 DEF Finish, LockLog, Record, AnswerUnaudited
<1>5. CASE BootWithLog \/ CrashWithLog \/ SingBox
  BY <1>5 DEF BootWithLog, CrashWithLog, Next
<1>6. CASE Rotate
  BY <1>1, <1>6 DEF Rotate
<1>. QED
  BY <1>1, <1>2, <1>3, <1>4, <1>5, <1>6 DEF AuditNext

(* The handlers with their audit log implement the handlers without it: a  *)
(* missing or full log, a cut append and the log's mutex change nothing in *)
(* how the store is put in force.                                          *)
THEOREM LogIsTransparent == AuditSpec => Spec
<1>1. AuditInit => Init
  BY DEF AuditInit
<1>. QED
  BY <1>1, StepMaps, PTL DEF AuditSpec, Spec

(* So the promises of the change pipeline hold with the log in place.      *)
THEOREM PromisesWithLog == AuditSpec => [](SettledInForce /\ EnvFileWorks)
<1>. QED
  BY LogIsTransparent, ChangesSettle, DownloadsWork, PTL

(***************************************************************************)
(* Tail, one append at a time.                                             *)
(***************************************************************************)
Reading == [line : Seq(Nat), events : Seq(Nat)]

LEMMA NextReads ==
  ASSUME NEW s \in Reading, NEW i \in Nat
  PROVE  NextPiece(s, i) \in Reading
<1>1. Append(s.line, i) \in Seq(Nat) /\ Append(s.events, i) \in Seq(Nat) /\ <<>> \in Seq(Nat)
  BY AppendProperties, EmptySeq DEF Reading
<1> QED
  BY <1>1 DEF NextPiece, Reading

ReadStep == [x \in Reading \X Nat |-> NextPiece(x[1], x[2])]

Appends == [i \in 1 .. Len(log) |-> i]

(* AllEvents is what the loop over the appends ends with.                  *)
LEMMA EventsAreRead ==
  ASSUME log \in Seq(Pieces)
  PROVE  \E f \in [0 .. Len(log) -> Reading] :
            /\ f[0] = NoLine
            /\ \A n \in 1 .. Len(log) : f[n] = NextPiece(f[n - 1], n)
            /\ AllEvents = f[Len(log)].events
<1> DEFINE N == Len(log)
           Body(g) == [n \in 0 .. Len(log) |->
                         IF n = 0 THEN NoLine ELSE NextPiece(g[n - 1], n)]
           s == CHOOSE g : g = Body(g)
<1>1. N \in Nat /\ Appends \in Seq(Nat) /\ Len(Appends) = N /\ \A n \in 1 .. N : Appends[n] = n
  BY LenProperties DEF Appends
<1>2. IsLoop(ReadStep, NoLine, Reading, Nat)
  BY NextReads, EmptySeq DEF IsLoop, ReadStep, Reading, NoLine
<1>3. PICK f \in [0 .. N -> Reading] : IsRun(f, ReadStep, NoLine, Appends)
  BY <1>1, <1>2, RunExists
<1>4. f[0] = NoLine /\ \A n \in 1 .. N : f[n] = NextPiece(f[n - 1], n)
  <2>1. ASSUME NEW n \in 1 .. N PROVE f[n] = NextPiece(f[n - 1], n)
    <3>1. n \in Nat /\ n - 1 \in 0 .. N /\ Appends[n] = n
      BY <1>1
    <3>2. f[n - 1] \in Reading /\ f[n] = ReadStep[<<f[n - 1], n>>]
      BY <1>1, <1>3, <3>1 DEF IsRun, RunsTo
    <3> QED
      BY <3>1, <3>2 DEF ReadStep
  <2> QED
    BY <1>1, <1>3, <2>1 DEF IsRun, RunsTo
<1>5. f = Body(f)
  <2>1. \A n \in 0 .. N : f[n] = IF n = 0 THEN NoLine ELSE NextPiece(f[n - 1], n)
    BY <1>1, <1>4
  <2> QED
    BY <2>1
<1>6. s = Body(s)
  <2> HIDE DEF Body
  <2> QED
    BY <1>5
<1>7. AllEvents = s[N].events
  BY DEF AllEvents
<1>8. s[0] = NoLine /\ \A n \in 1 .. N : s[n] = NextPiece(s[n - 1], n)
  <2> HIDE DEF s
  <2>1. \A g, n : n \in 0 .. N => Body(g)[n] = IF n = 0 THEN NoLine ELSE NextPiece(g[n - 1], n)
    OBVIOUS
  <2> HIDE DEF Body
  <2>2. \A n \in 0 .. N : s[n] = IF n = 0 THEN NoLine ELSE NextPiece(s[n - 1], n)
    BY <1>6, <2>1
  <2> QED
    BY <1>1, <2>2
<1> HIDE DEF s
<1> DEFINE P == {n \in 0 .. N : s[n] = f[n]}
<1>9. 0 \in P
  BY <1>1, <1>4, <1>8
<1>10. ASSUME NEW n \in 0 .. N - 1, n \in P PROVE n + 1 \in P
  <2>1. n + 1 \in 1 .. N /\ (n + 1) - 1 = n
    BY <1>1
  <2>2. s[n + 1] = NextPiece(s[n], n + 1) /\ f[n + 1] = NextPiece(f[n], n + 1)
    BY <1>4, <1>8, <2>1
  <2> QED
    BY <1>10, <2>1, <2>2
<1>11. 0 .. N \subseteq P
  <2> HIDE DEF P
  <2> QED
    BY <1>1, <1>9, <1>10, IntervalInduction
<1>12. s[N] = f[N]
  BY <1>1, <1>11
<1> QED
  BY <1>3, <1>4, <1>7, <1>12

(* What the loop has found after the first n appends.                      *)
Found(s, n) ==
  /\ s.line = <<>> <=> n = 0 \/ log[n] = "event"
  /\ \A i \in 1 .. Len(s.events) : s.events[i] \in 1 .. n
  /\ \A i, j \in 1 .. Len(s.events) : i < j => s.events[i] < s.events[j]
  /\ \A k \in 1 .. n :
        log[k] = "event" /\ ~(\E i \in 1 .. Len(s.events) : s.events[i] = k) =>
          k > 1 /\ log[k - 1] = "part"

LEMMA FindsNext ==
  ASSUME NEW s \in Reading, NEW n \in Nat, n + 1 \in 1 .. Len(log), log \in Seq(Pieces),
         Found(s, n)
  PROVE  Found(NextPiece(s, n + 1), n + 1)
<1>1. /\ Len(log) \in Nat /\ log[n + 1] \in {"event", "part"}
      /\ n # 0 => log[n] \in {"event", "part"}
  BY LenProperties, ElementOfSeq DEF Pieces
<1>2. CASE log[n + 1] = "part"
  <2>1. Append(s.line, n + 1) # <<>>
    <3>1. n + 1 \in Nat /\ s.line \in Seq(Nat)
      BY DEF Reading
    <3>2. Append(s.line, n + 1) \in Seq(Nat) /\ Len(Append(s.line, n + 1)) = Len(s.line) + 1
      BY <3>1, AppendProperties
    <3>3. Len(s.line) \in Nat /\ Len(<<>>) = 0
      BY <3>1, LenProperties, EmptySeq
    <3> QED
      BY <3>2, <3>3, SMTT(30)
  <2>2. NextPiece(s, n + 1).line # <<>> /\ NextPiece(s, n + 1).events = s.events
    BY <1>2, <2>1 DEF NextPiece, Reading
  <2>3. \A i \in 1 .. Len(s.events) : s.events[i] \in 1 .. n + 1
    BY DEF Found
  <2>4. \A k \in 1 .. n + 1 : log[k] = "event" => k \in 1 .. n
    BY <1>2
  <2>5. \A k \in 1 .. n + 1 :
           log[k] = "event" /\ ~(\E i \in 1 .. Len(s.events) : s.events[i] = k) =>
             k > 1 /\ log[k - 1] = "part"
    BY <2>4 DEF Found
  <2>6. \A i, j \in 1 .. Len(s.events) : i < j => s.events[i] < s.events[j]
    BY DEF Found
  <2> DEFINE t == NextPiece(s, n + 1)
  <2>7. t.line # <<>> /\ t.events = s.events /\ ~(n + 1 = 0 \/ log[n + 1] = "event")
    BY <1>2, <2>2
  <2> HIDE DEF t
  <2>8. Found(t, n + 1)
    BY <2>3, <2>5, <2>6, <2>7 DEF Found
  <2> QED
    BY <2>8 DEF t
<1>3. CASE log[n + 1] = "event" /\ s.line # <<>>
  <2>1. NextPiece(s, n + 1).line = <<>> /\ NextPiece(s, n + 1).events = s.events
    BY <1>3 DEF NextPiece, Reading
  <2>2. n # 0 /\ log[n] = "part"
    BY <1>1, <1>3 DEF Found
  <2> DEFINE t == NextPiece(s, n + 1)
  <2>3. t.line = <<>> /\ t.events = s.events
    BY <2>1
  <2> HIDE DEF t
  <2>4. \A i \in 1 .. Len(t.events) : t.events[i] \in 1 .. n + 1
    BY <2>3 DEF Found
  <2>5. \A i, j \in 1 .. Len(t.events) : i < j => t.events[i] < t.events[j]
    BY <2>3 DEF Found
  <2>6. ASSUME NEW k \in 1 .. n + 1, log[k] = "event",
               ~(\E i \in 1 .. Len(t.events) : t.events[i] = k)
        PROVE  k > 1 /\ log[k - 1] = "part"
    <3>1. CASE k = n + 1
      BY <2>2, <3>1
    <3>2. CASE k # n + 1
      BY <2>3, <2>6, <3>2 DEF Found
    <3> QED
      BY <3>1, <3>2
  <2>7. Found(t, n + 1)
    BY <1>3, <2>3, <2>4, <2>5, <2>6 DEF Found
  <2> QED
    BY <2>7 DEF t
<1>4. CASE log[n + 1] = "event" /\ s.line = <<>>
  <2> DEFINE e == s.events
             f == Append(e, n + 1)
  <2>1. NextPiece(s, n + 1).line = <<>> /\ NextPiece(s, n + 1).events = f
    BY <1>4 DEF NextPiece, Reading
  <2>2. /\ Len(e) \in Nat /\ Len(f) = Len(e) + 1 /\ f[Len(e) + 1] = n + 1
        /\ \A i \in 1 .. Len(e) : f[i] = e[i]
    BY AppendProperties, LenProperties DEF Reading
  <2>7. /\ \A i \in 1 .. Len(e) : e[i] \in 1 .. n
        /\ \A i, j \in 1 .. Len(e) : i < j => e[i] < e[j]
    BY DEF Found
  <2> HIDE DEF e, f
  <2>3. \A i \in 1 .. Len(f) : i \in 1 .. Len(e) \/ i = Len(e) + 1
    BY <2>2
  <2>4. \A i \in 1 .. Len(f) : f[i] \in 1 .. n + 1
    BY <2>2, <2>3, <2>7
  <2>5. \A i, j \in 1 .. Len(f) : i < j => f[i] < f[j]
    BY <2>2, <2>3, <2>7
  <2>6. ASSUME NEW k \in 1 .. n + 1, log[k] = "event", ~(\E i \in 1 .. Len(f) : f[i] = k)
        PROVE  k > 1 /\ log[k - 1] = "part"
    <3>1. k # n + 1
      BY <2>2, <2>6
    <3>2. k \in 1 .. n /\ ~(\E i \in 1 .. Len(e) : e[i] = k)
      BY <2>2, <2>6, <3>1
    <3> QED
      BY <2>6, <3>2 DEF Found, e
  <2> QED
    BY <1>4, <2>1, <2>4, <2>5, <2>6 DEF Found
<1> QED
  BY <1>1, <1>2, <1>3, <1>4

(* However the log was written, Tail finds every whole event but those     *)
(* that a cut append precedes.                                             *)
LEMMA TailFinds == log \in Seq(Pieces) => CutCostsOne
<1> SUFFICES ASSUME log \in Seq(Pieces) PROVE CutCostsOne
  OBVIOUS
<1> DEFINE N == Len(log)
<1>1. PICK f \in [0 .. N -> Reading] :
         /\ f[0] = NoLine
         /\ \A n \in 1 .. N : f[n] = NextPiece(f[n - 1], n)
         /\ AllEvents = f[N].events
  BY EventsAreRead
<1>2. N \in Nat /\ DOMAIN log = 1 .. N
  BY LenProperties
<1> DEFINE P == {n \in 0 .. N : Found(f[n], n)}
<1>3. 0 \in P
  BY <1>1, <1>2, EmptySeq DEF Found, NoLine
<1>4. ASSUME NEW n \in 0 .. N - 1, n \in P PROVE n + 1 \in P
  <2>1. n \in Nat /\ n \in 0 .. N /\ n + 1 \in 1 .. N /\ n + 1 \in 0 .. N /\ (n + 1) - 1 = n
    BY <1>2
  <2>2. f[n] \in Reading /\ f[n + 1] = NextPiece(f[n], n + 1)
    BY <1>1, <2>1
  <2>3. Found(f[n + 1], n + 1)
    BY <1>4, <2>1, <2>2, FindsNext
  <2> QED
    BY <2>1, <2>3
<1>5. 0 .. N \subseteq P
  <2> HIDE DEF P, N
  <2> QED
    BY <1>2, <1>3, <1>4, IntervalInduction
<1>6. Found(f[N], N) /\ AllEvents \in Seq(Nat)
  BY <1>1, <1>2, <1>5 DEF Reading
<1>7. DOMAIN AllEvents = 1 .. Len(AllEvents)
  BY <1>6, LenProperties
<1> QED
  BY <1>1, <1>2, <1>6, <1>7 DEF Found, CutCostsOne, Contains

(* A cut append costs at most the event that is appended next.             *)
THEOREM CutsCostOne == AuditSpec => []CutCostsOne
<1>1. LogTypeOK => CutCostsOne
  BY TailFinds DEF LogTypeOK
<1> QED
  BY <1>1, LogTypeCorrect, PTL
=============================================================================
