-------------------------- MODULE KiroClientProofs --------------------------
(***************************************************************************)
(* Proofs about KiroClient, for any platforms and rivals for the ports.    *)
(***************************************************************************)
EXTENDS KiroClient, TLAPS

(* What the invariant says of the commands' variables.                     *)
CommandInv ==
  /\ StepsFit /\ WritingOpenly /\ EditLasts /\ ConfigWritten /\ EarlyUnlocked
  /\ KeepsPromise /\ FailureUnlocks

(* Initially the invariant holds.                                          *)
LEMMA InitIInv == Init => IInv
  BY ServiceAssumption
  DEF Init, IInv, TypeOK, CommandTypeOK, ServiceTypeOK, ServiceInit, StepsFit, WritingOpenly,
      EditLasts, ConfigWritten, EarlyUnlocked, ChildBelongs, KeepsPromise,
      FailureUnlocks, NoNewLock, HostsStates, Labels, Commands, NoPorts, Early,
      Enabling, Registering, Creating, Goal

(* The end of the process keeps the service's types and leaves no child.   *)
LEMMA ProcessGoneFits ==
  ASSUME ServiceTypeOK, ProcessGone
  PROVE  /\ srv' = "none" /\ sb' = "none" /\ orphan' \in BOOLEAN
         /\ ports' \in [Ports -> {"none", "bound", "failed", "lost"}]
         /\ stop' \in BOOLEAN /\ cancelled' \in BOOLEAN
         /\ status' \in {"Stopped", "StartPending", "Running", "StopPending"}
         /\ job' \in {"absent", "loaded", "leaving"}
  BY DEF ProcessGone, ServiceTypeOK, NoPorts

(* What the service does by itself keeps its types and its hold on the     *)
(* child.                                                                  *)
LEMMA ServiceMoves ==
  ASSUME ServiceTypeOK, ChildBelongs, Serve \/ Surroundings
  PROVE  ServiceTypeOK' /\ ChildBelongs' /\ UNCHANGED os
  <1> USE DEF ServiceTypeOK, ChildBelongs, regVars, procVars
  <1>1. CASE Boot
    <2>1. CASE os = "darwin" /\ stop
      BY <1>1, <2>1, ProcessGoneFits DEF Boot
    <2>2. CASE ~(os = "darwin" /\ stop)
      BY <1>1, <2>2 DEF Boot
    <2> QED BY <2>1, <2>2
  <1>2. CASE ReportRunning
    BY <1>2 DEF ReportRunning
  <1>3. CASE TakeStop
    BY <1>3 DEF TakeStop
  <1>4. CASE Leave
    BY <1>4, ProcessGoneFits DEF Leave
  <1>5. CASE Spawn
    BY <1>5 DEF Spawn
  <1>6. CASE ContextKills
    BY <1>6 DEF ContextKills
  <1>7. CASE Settle
    BY <1>7 DEF Settle
  <1>8. CASE SniDied
    BY <1>8 DEF SniDied
  <1>9. CASE BeginClose
    BY <1>9 DEF BeginClose
  <1>10. CASE EndClose
    BY <1>10 DEF EndClose
  <1>11. ASSUME NEW p \in Ports, Listen(p) PROVE ServiceTypeOK' /\ ChildBelongs' /\ UNCHANGED os
    BY <1>11 DEF Listen
  <1>12. CASE SingBoxExits
    BY <1>12, ZenonT(40) DEF SingBoxExits
  <1>13. CASE AcceptFails
    BY <1>13 DEF AcceptFails, Ports
  <1>14. CASE ProcessDies
    BY <1>14, ProcessGoneFits DEF ProcessDies
  <1>15. CASE Relaunch
    BY <1>15 DEF Relaunch, StartProcess
  <1>16. ASSUME NEW p \in Rivals, ForeignBinds(p) PROVE ServiceTypeOK' /\ ChildBelongs' /\ UNCHANGED os
    BY <1>16 DEF ForeignBinds
  <1>17. ASSUME NEW p \in Rivals, ForeignCloses(p) PROVE ServiceTypeOK' /\ ChildBelongs' /\ UNCHANGED os
    BY <1>17 DEF ForeignCloses
  <1> QED
    BY <1>1, <1>2, <1>3, <1>4, <1>5, <1>6, <1>7, <1>8, <1>9, <1>10, <1>11, <1>12,
       <1>13, <1>14, <1>15, <1>16, <1>17 DEF Serve, Surroundings

(* A stop request is a truth value.                                        *)
LEMMA StopFits ==
  ASSUME ServiceTypeOK, AskToStop
  PROVE  stop' \in BOOLEAN
  <1>1. CASE os = "darwin"
    BY <1>1 DEF AskToStop
  <1>2. CASE os # "darwin"
    BY <1>2 DEF AskToStop
  <1> QED BY <1>1, <1>2

(* A bootout keeps the types of what it changes.                           *)
LEMMA BootoutFits ==
  ASSUME ServiceTypeOK, Bootout
  PROVE  /\ stop' \in BOOLEAN /\ relaunch' \in BOOLEAN
         /\ job' \in {"absent", "loaded", "leaving"}
  <1>1. CASE AskToStop /\ DropJob /\ relaunch' = FALSE
    BY <1>1, StopFits DEF DropJob
  <1>2. CASE UNCHANGED <<stop, job, relaunch>>
    BY <1>2 DEF ServiceTypeOK
  <1> QED BY <1>1, <1>2 DEF Bootout

(* What commands do to the service keeps its types and its hold on the     *)
(* child.                                                                  *)
LEMMA CommandMovesService ==
  ASSUME TypeOK, ChildBelongs, Command
  PROVE  ServiceTypeOK' /\ ChildBelongs' /\ UNCHANGED os
  <1>0. ServiceTypeOK
    BY DEF TypeOK
  <1>1. CASE UNCHANGED serviceVars
    <2>1. /\ os' = os /\ foreign' = foreign
          /\ job' = job /\ status' = status /\ relaunch' = relaunch
          /\ srv' = srv /\ sb' = sb /\ orphan' = orphan /\ ports' = ports
          /\ stop' = stop /\ cancelled' = cancelled
      BY <1>1 DEF serviceVars, regVars, procVars
    <2> QED BY <1>0, <2>1 DEF ServiceTypeOK, ChildBelongs
  <1> USE DEF ServiceTypeOK, ChildBelongs, regVars, procVars
  <1>2. CASE BootoutOld
    BY <1>0, <1>2, BootoutFits DEF BootoutOld
  <1>3. CASE Register("bootstrap", "kickstart") \/ Register("create", "start")
    BY <1>0, <1>3 DEF Register
  <1>4. CASE Launch("kickstart", "flush") \/ Launch("start", "wait")
    BY <1>0, <1>4 DEF Launch, StartProcess
  <1>5. CASE Unregister
    <2>1. stop' \in BOOLEAN
      BY <1>0, <1>5, StopFits DEF Unregister
    <2>2. job' \in {"absent", "loaded", "leaving"}
      BY <1>0, <1>5 DEF Unregister, DropJob
    <2> QED BY <1>0, <1>5, <2>1, <2>2 DEF Unregister
  <1>6. CASE StopService
    <2>1. CASE os = "darwin" /\ plist
      BY <1>0, <1>6, <2>1, BootoutFits DEF StopService
    <2>2. CASE os = "darwin" /\ ~plist
      BY <1>0, <1>6, <2>2 DEF StopService
    <2>3. CASE os # "darwin"
      BY <1>0, <1>6, <2>3, StopFits DEF StopService
    <2> QED BY <2>1, <2>2, <2>3
  <1>7. CASE \/ EditHosts \/ WriteSome \/ WriteHosts \/ Load \/ Probe \/ OpenCfg \/ WriteCfg \/ WritePlist
             \/ SeeRunning \/ Flush("flush", "locked") \/ Flush("flushBack", "open")
             \/ Flush("unflush", "open") \/ Fail \/ AskHosts \/ AskService \/ AskClash
    BY <1>1, <1>7 DEF EditHosts, WriteSome, WriteHosts, Load, Probe, OpenCfg, WriteCfg, WritePlist,
                      SeeRunning, Flush, Fail, AskHosts, AskService, AskClash
  <1> QED
    BY <1>2, <1>3, <1>4, <1>5, <1>6, <1>7 DEF Command

(* The three edits and their goals.                                        *)
LEMMA GoalFits ==
  /\ DOMAIN Goal = {"hosts", "rollback", "unhosts"}
  /\ Goal["hosts"] = "locked" /\ Goal["rollback"] = "open" /\ Goal["unhosts"] = "open"
  BY DEF Goal

(* Where the commands begin.                                               *)
LEMMA FirstFits ==
  First["enable"] = "load" /\ First["disable"] = "stop" /\ First["status"] = "askHosts"
  BY DEF First

(* Every step of a command preserves the invariant of the commands.        *)
LEMMA CommandStep ==
  ASSUME TypeOK, CommandInv, Command, os' = os
  PROVE  CommandTypeOK' /\ CommandInv'
  <1> USE TypeOK, CommandInv, GoalFits
      DEF CommandTypeOK, CommandInv, StepsFit, WritingOpenly, EditLasts, ConfigWritten,
          EarlyUnlocked, KeepsPromise, FailureUnlocks, NoNewLock, HostsStates, Early, Late,
          Enabling, Registering, Creating, Labels, Goto, EndDone, pastVars, shownVars, fileVars
  <1>0. CommandTypeOK /\ os \in {"darwin", "windows"}
    BY ServiceAssumption DEF TypeOK, ServiceTypeOK
  <1>1. CASE EditHosts
    <2>1. /\ ~writing /\ dns' = dns /\ cfg' = cfg /\ plist' = plist /\ was' = was /\ last' = last
          /\ cmd' = cmd /\ retry' = retry /\ seen' = seen /\ said' = said
          /\ pc \in DOMAIN Goal
      BY <1>1 DEF EditHosts
    <2>2. CASE writing' = TRUE /\ pc' = pc
      <3>1. CASE os = "windows"
        <4>1. hosts' = "torn" /\ promise' = "none" /\ flushed' = FALSE
          BY <1>1, <2>1, <2>2, <3>1 DEF EditHosts, Withdraw
        <4>2. EarlyUnlocked'
          BY <2>2, <3>1, os' = os
        <4>3. pc \notin Enabling \cup {"flushBack", "unflush", "idle"}
          BY <2>1
        <4>4. CommandTypeOK'
          <5>1. writing' \in BOOLEAN /\ flushed' \in BOOLEAN
            BY <2>2, <4>1
          <5>2. pc' \in Labels /\ cmd' \in Commands /\ retry' \in BOOLEAN
            BY <1>0, <2>1, <2>2
          <5> QED BY <1>0, <2>1, <4>1, <5>1, <5>2
        <4>5. StepsFit' /\ WritingOpenly'
          BY <1>0, <2>1, <2>2, <4>1
        <4>6. EditLasts' /\ ConfigWritten' /\ KeepsPromise' /\ FailureUnlocks'
          BY <1>0, <2>1, <2>2, <4>1, <4>3
        <4> QED BY <4>2, <4>4, <4>5, <4>6
      <3>2. CASE os = "darwin"
        <4>1. hosts' = hosts /\ promise' = promise /\ flushed' = flushed
          BY <1>1, <2>1, <2>2, <3>2 DEF EditHosts
        <4> QED BY <1>0, <2>1, <2>2, <3>2, <4>1
      <3> QED BY <1>0, <3>1, <3>2
    <2>3. CASE /\ NothingToEdit /\ pc' = AfterEdit /\ writing' = writing
               /\ hosts' = hosts /\ promise' = promise /\ flushed' = flushed
      <3>1. CASE pc = "hosts"
        BY <1>0, <2>1, <2>3, <3>1 DEF NothingToEdit, AfterEdit
      <3>2. CASE pc = "rollback"
        BY <1>0, <2>1, <2>3, <3>2 DEF NothingToEdit, AfterEdit
      <3>3. CASE pc = "unhosts"
        BY <1>0, <2>1, <2>3, <3>3 DEF NothingToEdit, AfterEdit
      <3> QED BY <1>1, <3>1, <3>2, <3>3 DEF EditHosts
    <2> QED BY <1>1, <2>2, <2>3 DEF EditHosts
  <1>2. CASE WriteSome
    <2>1. /\ writing /\ os = "windows" /\ promise = "none" /\ pc \in DOMAIN Goal
          /\ dns' = dns /\ cfg' = cfg /\ plist' = plist /\ was' = was /\ last' = last
          /\ promise' = promise /\ flushed' = flushed /\ cmd' = cmd /\ pc' = pc
          /\ writing' = writing /\ retry' = retry /\ seen' = seen /\ said' = said
      BY <1>2 DEF WriteSome, cmdVars
    <2>2. hosts' \in {"partly", "locked", "open"}
      BY <1>2 DEF WriteSome
    <2> QED BY <1>0, <2>1, <2>2
  <1>3. CASE WriteHosts
    <2>1. /\ writing /\ writing' \in BOOLEAN /\ ~writing' /\ retry' = retry /\ cmd' = cmd
          /\ dns' = dns /\ cfg' = cfg /\ plist' = plist /\ was' = was /\ last' = last
          /\ seen' = seen /\ said' = said
      BY <1>3 DEF WriteHosts
    <2>2. \/ promise' = "none" /\ flushed' = FALSE
          \/ promise' = promise /\ flushed' = flushed /\ hosts' = hosts
      BY <1>3 DEF WriteHosts, Withdraw
    <2>3. /\ promise' \in {"none", "locked", "open"} /\ flushed' \in BOOLEAN
          /\ promise' = "locked" => hosts' = "locked" /\ (flushed' => dns' # "real")
          /\ promise' = "open" => hosts' \in {"open", "torn"} /\ (flushed' => dns' # "local")
      <3>1. CASE promise' = "none" /\ flushed' = FALSE
        BY <3>1
      <3>2. CASE promise' = promise /\ flushed' = flushed /\ hosts' = hosts
        BY <1>0, <2>1, <3>2
      <3> QED BY <2>2, <3>1, <3>2
    <2>4. CASE pc = "hosts"
      <3>1. hosts' = "locked"
        BY <1>3, <2>4 DEF WriteHosts
      <3>2. (os = "darwin" /\ pc' = "plist") \/ (os = "windows" /\ pc' = "unregister")
        BY <1>0, <1>3, <2>4 DEF WriteHosts, AfterEdit
      <3> QED BY <1>0, <2>1, <2>4, <2>3, <3>1, <3>2
    <2>5. CASE pc = "rollback"
      <3>1. hosts' = "open" /\ pc' = "flushBack"
        BY <1>3, <2>5 DEF WriteHosts, AfterEdit
      <3> QED BY <1>0, <2>1, <2>5, <2>3, <3>1
    <2>6. CASE pc = "unhosts"
      <3>1. hosts' = "open" /\ pc' = "unflush"
        BY <1>3, <2>6 DEF WriteHosts, AfterEdit
      <3> QED BY <1>0, <2>1, <2>6, <2>3, <3>1
    <2> QED BY <1>3, <2>4, <2>5, <2>6 DEF WriteHosts
  <1>4. CASE Load \/ Probe
    BY <1>0, <1>4 DEF Load, Probe
  <1>5. CASE OpenCfg
    BY <1>0, <1>5 DEF OpenCfg
  <1>6. CASE WriteCfg
    BY <1>0, <1>6 DEF WriteCfg
  <1>7. CASE WritePlist
    BY <1>0, <1>7 DEF WritePlist
  <1>8. CASE BootoutOld
    BY <1>0, <1>8 DEF BootoutOld
  <1>9. CASE Register("bootstrap", "kickstart") \/ Register("create", "start")
    BY <1>0, <1>9 DEF Register
  <1>10. CASE Launch("kickstart", "flush") \/ Launch("start", "wait")
    BY <1>0, <1>10 DEF Launch
  <1>11. CASE Unregister
    BY <1>0, <1>11 DEF Unregister
  <1>12. CASE SeeRunning
    BY <1>0, <1>12 DEF SeeRunning
  <1>13. CASE Flush("flush", "locked")
    BY <1>0, <1>13 DEF Flush
  <1>14. CASE Flush("flushBack", "open")
    <2>1. /\ hosts' = hosts /\ cfg' = cfg /\ plist' = plist /\ was' = was /\ cmd' = cmd
          /\ seen' = seen /\ said' = said /\ writing' \in BOOLEAN /\ ~writing' /\ retry' \in BOOLEAN
          /\ pc = "flushBack" /\ promise' = "open" /\ flushed' = (dns' = "none")
          /\ (dns' = "none" \/ dns' = dns) /\ ~retry'
      BY <1>14 DEF Flush, EndFailed
    <2>2. pc' \in {"load", "idle"} /\ last' \in {"stuck", "failed"}
      BY <1>14, <2>1, FirstFits DEF Flush, EndFailed
    <2> QED BY <1>0, <2>1, <2>2
  <1>15. CASE Flush("unflush", "open")
    BY <1>0, <1>15 DEF Flush
  <1>16. CASE StopService
    BY <1>0, <1>16 DEF StopService
  <1>17. CASE Fail
    <2>1. /\ hosts' = hosts /\ dns' = dns /\ cfg' = cfg /\ plist' = plist
          /\ was' = was /\ promise' = promise /\ flushed' = flushed
          /\ seen' = seen /\ said' = said
      BY <1>17 DEF Fail
    <2>2. CASE pc \in Late
      BY <1>0, <1>17, <2>2 DEF Fail
    <2>3. CASE pc \in Early \cup {"rollback", "unhosts"}
      <3>1. cmd' = cmd /\ retry' \in BOOLEAN /\ ~retry' /\ writing' \in BOOLEAN /\ ~writing'
        BY <1>17, <2>3 DEF Fail, EndFailed
      <3>2. \/ last' = "stuck"
            \/ last # "stuck" /\ pc # "rollback" /\ last' = Outcome
        BY <1>17, <2>3 DEF Fail, EndFailed
      <3>3. pc' = IF retry THEN First[cmd] ELSE "idle"
        BY <1>17, <2>3 DEF Fail, EndFailed
      <3>4. First[cmd] = IF cmd = "enable" THEN "load" ELSE "stop"
        BY <2>3, FirstFits
      <3>5. CASE writing /\ os = "windows"
        <4>1. pc' = "idle" /\ last' \in {"stuck", "halfway"}
          BY <3>2, <3>3, <3>5 DEF Outcome
        <4> QED BY <1>0, <2>1, <2>3, <3>1, <3>5, <4>1
      <3>6. CASE ~(writing /\ os = "windows")
        <4>1. \/ last' = "stuck"
              \/ last # "stuck" /\ pc # "rollback" /\ last' = "failed"
          BY <3>2, <3>6 DEF Outcome
        <4>2. CASE pc = "unhosts"
          BY <1>0, <2>1, <3>1, <3>3, <3>4, <3>6, <4>1, <4>2
        <4>3. CASE pc \in Early \cup {"rollback"}
          BY <1>0, <2>1, <3>1, <3>3, <3>4, <3>6, <4>1, <4>3
        <4> QED BY <2>3, <4>2, <4>3
      <3> QED BY <3>5, <3>6
    <2>4. CASE pc = "askHosts"
      <3>1. /\ cmd' = cmd /\ cmd = "status" /\ retry' \in BOOLEAN /\ ~retry'
            /\ writing' \in BOOLEAN /\ ~writing' /\ pc' \in {"idle", "askHosts"}
            /\ last' \in {"stuck", "halfway", "failed"}
        BY <1>17, <2>4, FirstFits DEF Fail, EndFailed, Outcome
      <3> QED BY <1>0, <2>1, <2>4, <3>1
    <2> QED BY <1>17, <2>2, <2>3, <2>4 DEF Fail
  <1>18. CASE AskHosts \/ AskService
    BY <1>0, <1>18 DEF AskHosts, AskService, ServiceLine
  <1>19. CASE AskClash
    BY <1>0, <1>19 DEF AskClash
  <1> QED
    BY <1>1, <1>2, <1>3, <1>4, <1>5, <1>6, <1>7, <1>8, <1>9, <1>10, <1>11, <1>12,
       <1>13, <1>14, <1>15, <1>16, <1>17, <1>18, <1>19 DEF Command

(* So does everything around a command.                                    *)
LEMMA SurroundingStep ==
  ASSUME TypeOK, CommandInv, os' = os,
         \/ \E c \in Commands : Begin(c)
         \/ Interrupt \/ Lookup \/ CacheExpires \/ Reboot
         \/ UNCHANGED <<fileVars, cmdVars, pastVars, shownVars>>
  PROVE  CommandTypeOK' /\ CommandInv'
  <1> USE TypeOK, CommandInv, GoalFits
      DEF CommandTypeOK, CommandInv, StepsFit, WritingOpenly, EditLasts, ConfigWritten,
          EarlyUnlocked, KeepsPromise, FailureUnlocks, NoNewLock, HostsStates, Early,
          Enabling, Registering, Creating, Labels, pastVars, shownVars, fileVars, cmdVars
  <1>0. CommandTypeOK /\ os \in {"darwin", "windows"}
    BY ServiceAssumption DEF TypeOK, ServiceTypeOK
  <1>1. ASSUME NEW c \in Commands, Begin(c) PROVE CommandTypeOK' /\ CommandInv'
    <2>1. /\ cmd' = c /\ pc' = First[c] /\ was' = hosts /\ retry' \in BOOLEAN
          /\ last' = "none" /\ seen' = "none" /\ said' = "none"
          /\ hosts' = hosts /\ dns' = dns /\ cfg' = cfg /\ plist' = plist
          /\ writing' = writing /\ promise' = promise /\ flushed' = flushed
          /\ (retry' => os = "darwin")
      BY <1>1 DEF Begin
    <2>2. ~writing
      BY <1>1 DEF Begin
    <2>3. CASE c = "enable"
      BY <1>0, <2>1, <2>2, <2>3, FirstFits
    <2>4. CASE c = "disable"
      BY <1>0, <2>1, <2>2, <2>4, FirstFits
    <2>5. CASE c = "status"
      BY <1>0, <2>1, <2>2, <2>5, FirstFits
    <2> QED BY <2>3, <2>4, <2>5 DEF Commands
  <1>2. CASE Interrupt
    <2>1. /\ pc' = "idle" /\ writing' \in BOOLEAN /\ ~writing' /\ retry' \in BOOLEAN
          /\ last' = "interrupted" /\ cmd' = cmd /\ was' = was /\ promise' = promise
          /\ flushed' = flushed /\ ~retry'
          /\ hosts' = hosts /\ dns' = dns /\ cfg' = cfg /\ plist' = plist
          /\ seen' = seen /\ said' = said
      BY <1>2 DEF Interrupt
    <2> QED BY <1>0, <2>1
  <1>3. CASE Lookup
    BY <1>0, <1>3 DEF Lookup
  <1>4. CASE CacheExpires
    BY <1>0, <1>4 DEF CacheExpires, EmptyCache
  <1>5. CASE Reboot
    <2>1. /\ pc' = "idle" /\ writing' \in BOOLEAN /\ ~writing' /\ retry' \in BOOLEAN
          /\ cmd' = cmd /\ was' = was /\ promise' = promise /\ ~retry'
          /\ hosts' = hosts /\ dns' = "none" /\ cfg' = cfg /\ plist' = plist
          /\ seen' = seen /\ said' = said /\ flushed' = (promise # "none")
      BY <1>5 DEF Reboot, EmptyCache
    <2>2. last' = "interrupted" \/ (pc = "idle" /\ last' = last)
      BY <1>5 DEF Reboot
    <2> QED BY <1>0, <2>1, <2>2
  <1>6. CASE UNCHANGED <<fileVars, cmdVars, pastVars, shownVars>>
    BY <1>0, <1>6
  <1> QED BY <1>1, <1>2, <1>3, <1>4, <1>5, <1>6

(* A reboot leaves the service in a state of its type, without a child.    *)
LEMMA RebootFits ==
  ASSUME TypeOK, Reboot
  PROVE  ServiceTypeOK' /\ ChildBelongs'
  <1>1. job' \in {"absent", "loaded", "leaving"}
    BY DEF Reboot, TypeOK, ServiceTypeOK
  <1> QED
    BY <1>1 DEF Reboot, TypeOK, ServiceTypeOK, ChildBelongs, NoPorts

(* The invariant is inductive.                                             *)
LEMMA InductiveStep == IInv /\ [Next]_vars => IInv'
  <1> SUFFICES ASSUME IInv, [Next]_vars PROVE IInv'
    OBVIOUS
  <1>1. TypeOK /\ ServiceTypeOK /\ CommandTypeOK /\ CommandInv /\ ChildBelongs
    BY DEF IInv, CommandInv, TypeOK
  <1>2. CASE Command
    BY <1>1, <1>2, CommandMovesService, CommandStep DEF IInv, CommandInv, TypeOK
  <1>3. CASE Reboot
    <2>1. os' = os
      BY <1>3 DEF Reboot
    <2> QED
      BY <1>1, <1>3, <2>1, RebootFits, SurroundingStep DEF IInv, CommandInv, TypeOK
  <1>4. CASE Service \/ (Surroundings /\ UNCHANGED <<fileVars, cmdVars, pastVars, shownVars>>)
    <2>1. Serve \/ Surroundings
      BY <1>4 DEF Service
    <2>2. ServiceTypeOK' /\ ChildBelongs' /\ os' = os
      BY <1>1, <2>1, ServiceMoves
    <2>3. UNCHANGED <<fileVars, cmdVars, pastVars, shownVars>>
      BY <1>4 DEF Service
    <2> QED
      BY <1>1, <2>2, <2>3, SurroundingStep DEF IInv, CommandInv, TypeOK
  <1>5. CASE (\E c \in Commands : Begin(c)) \/ Interrupt \/ Lookup \/ CacheExpires \/ UNCHANGED vars
    <2>1. UNCHANGED serviceVars
      BY <1>5 DEF Begin, Interrupt, Lookup, CacheExpires, vars
    <2>2. /\ os' = os /\ foreign' = foreign
          /\ job' = job /\ status' = status /\ relaunch' = relaunch
          /\ srv' = srv /\ sb' = sb /\ orphan' = orphan /\ ports' = ports
          /\ stop' = stop /\ cancelled' = cancelled
      BY <2>1 DEF serviceVars, regVars, procVars
    <2>3. ServiceTypeOK' /\ ChildBelongs'
      BY <1>1, <2>2 DEF ServiceTypeOK, ChildBelongs
    <2>4. CommandTypeOK' /\ CommandInv'
      BY <1>1, <1>5, <2>2, SurroundingStep DEF vars
    <2> QED
      BY <2>3, <2>4 DEF IInv, CommandInv, TypeOK
  <1> QED
    BY <1>2, <1>3, <1>4, <1>5 DEF Next

(* The invariant holds in every state the machine reaches.                 *)
THEOREM Invariance == Spec => []IInv
  BY InitIInv, InductiveStep, PTL DEF Spec

(* Every variable keeps its type (KiroService, KiroClient).                *)
THEOREM TypeCorrect == Spec => []TypeOK
  <1>1. IInv => TypeOK
    BY DEF IInv
  <1> QED BY <1>1, Invariance, PTL

(* What a completed enable, disable or rollback said of the hosts file     *)
(* stays true whatever fails, and once the resolver's cache has been       *)
(* emptied its answers agree, although FlushDNS may fail and every edit    *)
(* may be a rewrite (enable.go, disable.go, hosts.go).                     *)
THEOREM PromiseKept == Spec => []KeepsPromise
  <1>1. IInv => KeepsPromise
    BY DEF IInv
  <1> QED BY <1>1, Invariance, PTL

(* A failed enable leaves no lock of its own, unless its rollback failed   *)
(* or, on Windows, writing the hosts file did (enable.go, 74-98).          *)
THEOREM FailuresUnlock == Spec => []FailureUnlocks
  <1>1. IInv => FailureUnlocks
    BY DEF IInv
  <1> QED BY <1>1, Invariance, PTL

(* serveCore does not return with its sing-box running (serve.go, 97-150). *)
THEOREM NoChildLeft == Spec => []ChildEnds
  <1>1. IInv => ChildEnds
    BY DEF IInv, ChildBelongs, ChildEnds
  <1> QED BY <1>1, Invariance, PTL
=============================================================================
