---------------------------- MODULE KiroClient -----------------------------
(***************************************************************************)
(* kiroctl enable, disable and status on one machine, with the service     *)
(* they manage (KiroService), the hosts file, the resolver's cache and     *)
(* sing-box's config file.                                                 *)
(*                                                                         *)
(* Commands are given one after the other; while one runs, every step may  *)
(* fail, it may be interrupted, the service moves, other programs take and *)
(* leave the ports, names are looked up and the machine may lose power.    *)
(***************************************************************************)
EXTENDS KiroService

CONSTANT Answers  \* what lookups may bring in: "local" and "real", or none

VARIABLES
  hosts,    \* the hosts file: "locked" lists all allowed domains, "open"
            \* none; a write in place that stopped leaves a "torn" file
            \* without any of them or a "partly" one with some
  dns,      \* what the resolver has cached for an allowed domain
  cfg,      \* sing-box.json
  plist,    \* macOS: the launchd plist exists
  cmd, pc,  \* the command and its next step
  writing,  \* writeHosts has opened its file
  retry,    \* macOS: the parent runs sudo a second time on exit code 1
  was,      \* the hosts file when the command began (history)
  last,     \* how the last command ended, "none" while it runs (history)
  promise,  \* what the last completed edit of the hosts file said (history)
  flushed,  \* the resolver's cache was emptied since then (history)
  seen,     \* the service line of the last status
  said      \* its conclusion

fileVars == <<hosts, dns, cfg, plist>>
cmdVars == <<cmd, pc, writing, retry>>
pastVars == <<was, last, promise, flushed>>
shownVars == <<seen, said>>
vars == <<serviceVars, fileVars, cmdVars, pastVars, shownVars>>

Commands == {"enable", "disable", "status"}
First == [enable |-> "load", disable |-> "stop", status |-> "askHosts"]

Labels ==
  {"idle", "load", "probe", "openCfg", "writeCfg", "hosts",
   "plist", "bootout", "bootstrap", "kickstart",
   "unregister", "create", "start", "wait", "flush",
   "rollback", "flushBack", "stop", "unhosts", "unflush",
   "askHosts", "askService", "askClash"}

HostsStates == {"open", "locked", "torn", "partly"}

CommandTypeOK ==
  /\ hosts \in HostsStates
  /\ dns \in {"none", "real", "local"}
  /\ cfg \in {"missing", "torn", "whole"}
  /\ plist \in BOOLEAN
  /\ cmd \in Commands /\ pc \in Labels
  /\ writing \in BOOLEAN /\ retry \in BOOLEAN
  /\ was \in HostsStates
  /\ last \in {"none", "done", "failed", "halfway", "stuck", "interrupted"}
  /\ promise \in {"none", "locked", "open"} /\ flushed \in BOOLEAN
  /\ seen \in {"none", "running", "notRunning", "unknown"}
  /\ said \in {"none", "notLocked", "warned", "forced"}

TypeOK == ServiceTypeOK /\ CommandTypeOK

Init ==
  /\ ServiceInit
  /\ hosts = "open" /\ cfg = "missing" /\ plist = FALSE
  /\ dns \in {"none"} \cup (Answers \cap {"real"})
  /\ cmd = "disable" /\ pc = "idle" /\ writing = FALSE /\ retry = FALSE
  /\ was = "open" /\ last = "none" /\ promise = "none" /\ flushed = FALSE
  /\ seen = "none" /\ said = "none"

Goto(l) == pc' = l /\ UNCHANGED <<cmd, writing, retry>>

(* Mutant of Begin: the command starts at a step of its own name.          *)
BeginByName(c) ==
  /\ pc = "idle"
  /\ cmd' = c /\ pc' = c /\ was' = hosts
  /\ retry' \in {FALSE, os = "darwin" /\ c # "status"}
  /\ last' = "none" /\ seen' = "none" /\ said' = "none"
  /\ UNCHANGED <<serviceVars, fileVars, writing, promise, flushed>>

(* A command starts with its elevated process; on macOS a user who is not  *)
(* root gets it through sudo -n, and a second time if it exits with 1.     *)
Begin(c) ==
  /\ pc = "idle"
  /\ cmd' = c /\ pc' = First[c] /\ was' = hosts
  /\ retry' \in {FALSE, os = "darwin" /\ c # "status"}
  /\ last' = "none" /\ seen' = "none" /\ said' = "none"
  /\ UNCHANGED <<serviceVars, fileVars, writing, promise, flushed>>

(* mustRun: the process exits with 1, and mustElevate takes that for a     *)
(* missing sudo rule and runs the command once more.  Both runs print      *)
(* their error, so a failed rollback stays reported.                       *)
EndFailed(how) ==
  /\ pc' = IF retry THEN First[cmd] ELSE "idle"
  /\ retry' = FALSE /\ writing' = FALSE
  /\ last' = IF last = "stuck" THEN last ELSE how
  /\ UNCHANGED cmd

EndDone == Goto("idle") /\ last' = "done"

(***************************************************************************)
(* The hosts file, as enable (step "hosts"), its rollback and disable edit *)
(* it: read, replace the block, and if that changes anything write it.  On *)
(* macOS a temporary file is renamed; Windows truncates the file itself    *)
(* and writes the text, of which a part may be all that gets there.        *)
(***************************************************************************)
Goal == [hosts |-> "locked", rollback |-> "open", unhosts |-> "open"]

AfterEdit ==
  IF pc = "hosts" THEN IF os = "darwin" THEN "plist" ELSE "unregister"
  ELSE IF pc = "rollback" THEN "flushBack" ELSE "unflush"

(* Mutant of NothingToEdit: Install leaves a block alone that IsInstalled  *)
(* has found, whole or not.                                                *)
NothingIfInstalled ==
  \/ hosts = Goal[pc]
  \/ Goal[pc] = "open" /\ hosts = "torn"
  \/ Goal[pc] = "locked" /\ hosts = "partly"

(* The text may be the one the edit makes of it.  It need not be: a second *)
(* Install moves the block, and either edit drops blank lines at the end.  *)
NothingToEdit ==
  \/ hosts = Goal[pc]
  \/ Goal[pc] = "open" /\ hosts = "torn"

Withdraw == promise' = "none" /\ flushed' = FALSE

EditHosts ==
  /\ pc \in DOMAIN Goal /\ ~writing
  /\ \/ NothingToEdit /\ Goto(AfterEdit) /\ UNCHANGED <<hosts, promise, flushed>>
     \/ /\ writing' = TRUE /\ UNCHANGED <<cmd, pc, retry>>
        /\ IF os = "windows"
           THEN hosts' = "torn" /\ Withdraw
           ELSE UNCHANGED <<hosts, promise, flushed>>
  /\ UNCHANGED <<serviceVars, dns, cfg, plist, was, last, shownVars>>

(* A part of the text is in the file: some of the names, or all of them,   *)
(* and the write may still fail.                                           *)
WriteSome ==
  /\ writing /\ os = "windows" /\ hosts = "torn"
  /\ hosts' \in IF Goal[pc] = "locked" THEN {"partly", "locked"} ELSE {"open"}
  /\ UNCHANGED <<serviceVars, dns, cfg, plist, cmdVars, pastVars, shownVars>>

WriteHosts ==
  /\ pc \in DOMAIN Goal /\ writing
  /\ hosts' = Goal[pc]
  /\ IF hosts = Goal[pc] THEN UNCHANGED <<promise, flushed>> ELSE Withdraw
  /\ pc' = AfterEdit /\ writing' = FALSE
  /\ UNCHANGED <<serviceVars, dns, cfg, plist, cmd, retry, was, last, shownVars>>

(***************************************************************************)
(* enable.                                                                 *)
(***************************************************************************)
(* The deployment, the sing-box binary and the directories are there.      *)
Load ==
  /\ pc = "load" /\ Goto("probe")
  /\ UNCHANGED <<serviceVars, fileVars, pastVars, shownVars>>

(* ProbePorts: both addresses can be bound at this moment.                 *)
Probe ==
  /\ pc = "probe" /\ \A p \in Ports : Free(p)
  /\ Goto("openCfg")
  /\ UNCHANGED <<serviceVars, fileVars, pastVars, shownVars>>

OpenCfg ==
  /\ pc = "openCfg" /\ Goto("writeCfg")
  /\ cfg' = "torn"
  /\ UNCHANGED <<serviceVars, hosts, dns, plist, pastVars, shownVars>>

WriteCfg ==
  /\ pc = "writeCfg" /\ Goto("hosts")
  /\ cfg' = "whole"
  /\ UNCHANGED <<serviceVars, hosts, dns, plist, pastVars, shownVars>>

WritePlist ==
  /\ pc = "plist" /\ Goto("bootout")
  /\ plist' = TRUE
  /\ UNCHANGED <<serviceVars, hosts, dns, cfg, pastVars, shownVars>>

(* launchctl bootout, of enable and, if there is a plist, of disable.  Its *)
(* error is dropped.                                                       *)
Bootout ==
  \/ job = "loaded" /\ AskToStop /\ DropJob /\ relaunch' = FALSE
  \/ UNCHANGED <<stop, job, relaunch>>

BootoutOld ==
  /\ pc = "bootout" /\ Goto("bootstrap")
  /\ Bootout
  /\ UNCHANGED <<os, foreign, status, srv, sb, orphan, ports, cancelled,
                 fileVars, pastVars, shownVars>>

(* launchctl refuses to load a job that is loaded or not gone yet, the SCM *)
(* to create a service that is marked for deletion.                        *)
Register(from, to) ==
  /\ pc = from /\ job = "absent"
  /\ job' = "loaded" /\ Goto(to)
  /\ UNCHANGED <<os, foreign, status, relaunch, procVars,
                 fileVars, pastVars, shownVars>>

Launch(from, to) ==
  /\ pc = from /\ job = "loaded" /\ srv = "none"
  /\ StartProcess /\ Goto(to)
  /\ UNCHANGED <<os, foreign, job, sb, orphan, ports, stop, cancelled,
                 fileVars, pastVars, shownVars>>

(* Stop and Delete of an earlier registration, and the pause after them.   *)
(* Their errors are dropped.                                               *)
Unregister ==
  /\ pc = "unregister" /\ Goto("create")
  /\ (job # "absent" /\ AskToStop) \/ UNCHANGED stop
  /\ (job # "absent" /\ DropJob) \/ UNCHANGED job
  /\ UNCHANGED <<os, foreign, status, relaunch, srv, sb, orphan, ports, cancelled,
                 fileVars, pastVars, shownVars>>

(* waitUntilRunning returns nil.                                           *)
SeeRunning ==
  /\ pc = "wait" /\ status = "Running"
  /\ Goto("flush")
  /\ UNCHANGED <<serviceVars, fileVars, pastVars, shownVars>>

(* FlushDNS, with which enable, its rollback and disable end.  Whether it  *)
(* emptied the cache or failed, its callers go on to their message.        *)
Flush(from, kept) ==
  /\ pc = from
  /\ dns' \in {"none", dns} /\ flushed' = (dns' = "none")
  /\ promise' = kept
  /\ IF from = "flushBack" THEN EndFailed("failed") ELSE EndDone
  /\ UNCHANGED <<serviceVars, hosts, cfg, plist, was, shownVars>>

(***************************************************************************)
(* disable.                                                                *)
(***************************************************************************)
StopService ==
  /\ pc = "stop" /\ Goto("unhosts")
  /\ IF os = "darwin"
     THEN IF plist THEN Bootout ELSE UNCHANGED <<stop, job, relaunch>>
     ELSE (AskToStop \/ UNCHANGED stop) /\ UNCHANGED <<job, relaunch>>
  /\ UNCHANGED <<os, foreign, status, srv, sb, orphan, ports, cancelled,
                 fileVars, pastVars, shownVars>>

(***************************************************************************)
(* Errors.  Before and in hosts.Install enable just returns them, even if  *)
(* it has begun to write the file in place; once the file is edited it     *)
(* rolls it back; an error of the rollback is reported with its cause.     *)
(* MayFail has the calls that fail certainly or not at all and the loop    *)
(* that gives up; others may fail at any time.                             *)
(***************************************************************************)
Early == {"load", "probe", "openCfg", "writeCfg", "hosts"}
Late == {"plist", "bootstrap", "kickstart", "unregister", "create", "start", "wait"}

(* Mutant of MayFail: waitUntilRunning has no deadline.                    *)
MayFailStopped ==
  /\ pc = "probe" => \E p \in Ports : ~Free(p)
  /\ pc = "wait" => status = "Stopped"

MayFail ==
  /\ pc = "probe" => \E p \in Ports : ~Free(p)
  /\ pc = "wait" => status # "Running"

Outcome == IF writing /\ os = "windows" THEN "halfway" ELSE "failed"

(* Mutant of Fail: enable returns the errors of InstallService.            *)
FailWithoutRollback ==
  /\ pc \in Early \cup Late \cup {"unhosts", "askHosts"} /\ MayFail
  /\ EndFailed(Outcome)
  /\ UNCHANGED <<serviceVars, fileVars, was, promise, flushed, shownVars>>

Fail ==
  /\ MayFail
  /\ \/ pc \in Early \cup {"unhosts", "askHosts"} /\ EndFailed(Outcome)
     \/ pc \in Late /\ Goto("rollback") /\ UNCHANGED last
     \/ pc = "rollback" /\ EndFailed("stuck")
  /\ UNCHANGED <<serviceVars, fileVars, was, promise, flushed, shownVars>>

(***************************************************************************)
(* status.  It looks for the START marker, with which a torn file may end. *)
(* serviceStatusLine never returns the empty string Status compares it     *)
(* with, so its conclusion rests on the hosts file and on the Clash API,   *)
(* which any sing-box answers, or not within half a second.                *)
(***************************************************************************)
AskHosts ==
  /\ pc = "askHosts" /\ Goto("askService")
  /\ said' \in IF hosts = "open" THEN {"notLocked"}
              ELSE IF hosts = "torn" THEN {"notLocked", "warned"} ELSE {"warned"}
  /\ UNCHANGED <<serviceVars, fileVars, pastVars, seen>>

ServiceLine ==
  IF os = "darwin"
  THEN IF srv # "none" THEN "running" ELSE "unknown"
  ELSE IF job = "absent" \/ status = "Stopped" THEN "notRunning"
       ELSE IF status = "Running" THEN "running" ELSE "unknown"

AskService ==
  /\ pc = "askService" /\ Goto("askClash")
  /\ seen' = ServiceLine
  /\ UNCHANGED <<serviceVars, fileVars, pastVars, said>>

AskClash ==
  /\ pc = "askClash" /\ EndDone
  /\ \/ UNCHANGED said
     \/ said = "warned" /\ (sb = "up" \/ orphan) /\ said' = "forced"
  /\ UNCHANGED <<serviceVars, fileVars, was, promise, flushed, seen>>

Command ==
  \/ EditHosts \/ WriteSome \/ WriteHosts
  \/ Load \/ Probe \/ OpenCfg \/ WriteCfg
  \/ WritePlist \/ BootoutOld \/ Register("bootstrap", "kickstart") \/ Launch("kickstart", "flush")
  \/ Unregister \/ Register("create", "start") \/ Launch("start", "wait") \/ SeeRunning
  \/ Flush("flush", "locked") \/ Flush("flushBack", "open") \/ Flush("unflush", "open")
  \/ StopService \/ Fail
  \/ AskHosts \/ AskService \/ AskClash

(***************************************************************************)
(* The surroundings of a command.                                          *)
(***************************************************************************)
(* A name that the hosts file does not list is asked of the servers.       *)
Lookup ==
  /\ dns = "none"
  /\ dns' \in Answers
  /\ \/ dns' = "local" /\ hosts \in {"locked", "partly"}
     \/ dns' = "real" /\ hosts # "locked"
  /\ UNCHANGED <<serviceVars, hosts, cfg, plist, cmdVars, pastVars, shownVars>>

EmptyCache == dns' = "none" /\ flushed' = (promise # "none")

CacheExpires ==
  /\ dns # "none"
  /\ EmptyCache
  /\ UNCHANGED <<serviceVars, hosts, cfg, plist, cmdVars, was, last, promise, shownVars>>

Interrupt ==
  /\ pc # "idle"
  /\ pc' = "idle" /\ writing' = FALSE /\ retry' = FALSE
  /\ last' = "interrupted"
  /\ UNCHANGED <<serviceVars, fileVars, cmd, was, promise, flushed, shownVars>>

(* launchd loads the plist at boot but does not start the job (RunAtLoad   *)
(* is false); the Windows service is registered for manual start.          *)
Reboot ==
  /\ srv' = "none" /\ sb' = "none" /\ orphan' = FALSE /\ ports' = NoPorts
  /\ stop' = FALSE /\ cancelled' = FALSE
  /\ status' = "Stopped" /\ relaunch' = FALSE
  /\ job' = IF os = "darwin" THEN IF plist THEN "loaded" ELSE "absent"
            ELSE IF job = "leaving" THEN "absent" ELSE job
  /\ foreign' = {} /\ EmptyCache
  /\ pc' = "idle" /\ writing' = FALSE /\ retry' = FALSE
  /\ last' = IF pc = "idle" THEN last ELSE "interrupted"
  /\ UNCHANGED <<os, hosts, cfg, plist, cmd, was, promise, shownVars>>

Service ==
  /\ Serve
  /\ UNCHANGED <<fileVars, cmdVars, pastVars, shownVars>>

Next ==
  \/ \E c \in Commands : Begin(c)
  \/ Command \/ Interrupt
  \/ Lookup \/ CacheExpires \/ Reboot
  \/ Service
  \/ Surroundings /\ UNCHANGED <<fileVars, cmdVars, pastVars, shownVars>>

Spec == Init /\ [][Next]_vars

(* A command goes on, and so does the service once it has come up.  That a *)
(* process being started ever comes up is not assumed, only that SIGTERM   *)
(* ends it.                                                                *)
FairSpec == Spec /\ WF_vars(Command) /\ WF_vars(Service /\ (srv = "boot" => stop))

(***************************************************************************)
(* Properties.                                                             *)
(***************************************************************************)
(* Fail-closed (README.md:47) and its opposite.  After a successful enable *)
(* the hosts file lists all allowed names, however the service, sing-box   *)
(* and the machine fare and whatever later commands fail before they       *)
(* change it; after a disable or a rollback it lists none.  Once the       *)
(* resolver's cache has been emptied, by the flush or by itself, its       *)
(* answers agree.  A successful enable also left a whole config and a      *)
(* plist.                                                                  *)
KeepsPromise ==
  /\ promise = "locked" => hosts = "locked" /\ (flushed => dns # "real")
  /\ promise = "open" => hosts \in {"open", "torn"} /\ (flushed => dns # "local")
  /\ pc = "idle" /\ cmd = "enable" /\ last = "done" => cfg = "whole" /\ (os = "darwin" => plist)

NoNewLock == hosts \in {"open", "torn"} \/ hosts = was

(* An enable that reports a failure, other than one of its rollback,       *)
(* leaves no lock that was not there before (enable.go:18-19, 74-75), with *)
(* one exception: on Windows, when writing the hosts file itself failed.   *)
FailureUnlocks ==
  pc = "idle" /\ cmd = "enable" /\ last \in {"failed", "halfway"} =>
    NoNewLock \/ (os = "windows" /\ last = "halfway")

(* Every command returns: the loops and retries of enable are bounded.     *)
CommandEnds == pc # "idle" ~> pc = "idle"

(* enable.go:17-19: a port conflict cannot leave the user with DNS pointed *)
(* at a dead proxy.  So after an enable that reported success, the SNI     *)
(* listener did not fail to bind.                                          *)
NoDeadProxy ==
  ~ (pc = "idle" /\ cmd = "enable" /\ last = "done" /\ ports["sni"] = "failed")

(***************************************************************************)
(* The inductive invariant behind the safety properties.                   *)
(***************************************************************************)
Registering == {"plist", "bootout", "bootstrap", "kickstart"}
Creating == {"unregister", "create", "start", "wait"}
Enabling == Registering \cup Creating \cup {"flush"}

(* A step belongs to its command and to its platform.                      *)
StepsFit ==
  /\ pc \in Early \cup Enabling \cup {"rollback", "flushBack"} => cmd = "enable"
  /\ pc \in {"stop", "unhosts", "unflush"} => cmd = "disable"
  /\ pc \in {"askHosts", "askService", "askClash"} => cmd = "status"
  /\ os = "darwin" /\ pc \in {"bootout", "bootstrap", "kickstart", "flush"} => plist
  /\ pc \in Registering => os = "darwin"
  /\ pc \in Creating => os = "windows"
  /\ os = "windows" => ~plist /\ ~retry
  /\ last = "done" => pc = "idle"

(* While the hosts file is written in place no promise stands.             *)
WritingOpenly ==
  writing => pc \in DOMAIN Goal /\ (os = "windows" => promise = "none")

(* What an edit achieved lasts until the command ends.                     *)
EditLasts ==
  /\ pc \in Enabling => hosts = "locked"
  /\ pc \in {"flushBack", "unflush"} => hosts \in {"open", "torn"}

ConfigWritten == pc \in Enabling \cup {"hosts"} => cfg = "whole"

(* Before its own edit, enable (or its second run) is not the reason for a *)
(* lock, unless a rollback got stuck.                                      *)
EarlyUnlocked ==
  pc \in Early /\ last # "stuck" => NoNewLock \/ (os = "windows" /\ writing)

(* serveCore has no child before it starts one and none when it returns.   *)
ChildBelongs == srv \in {"none", "boot", "spawn", "ended"} => sb # "up"

IInv ==
  /\ TypeOK
  /\ StepsFit /\ WritingOpenly /\ EditLasts /\ ConfigWritten /\ EarlyUnlocked
  /\ ChildBelongs
  /\ KeepsPromise /\ FailureUnlocks
=============================================================================
