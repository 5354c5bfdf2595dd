---------------------------- MODULE KiroService ----------------------------
(***************************************************************************)
(* `kiroctl serve` under its supervisor: the service process, its sing-box *)
(* child, its two listeners, and the registration with launchd (macOS) or  *)
(* the Service Control Manager (Windows).                                  *)
(*                                                                         *)
(* The module holds the steps the process and its surroundings take on     *)
(* their own, and the operators by which KiroClient's commands start,      *)
(* stop and register the service.                                          *)
(***************************************************************************)
CONSTANTS
  Platforms, \* the operating systems to consider
  Rivals     \* the ports other programs may want

Ports == {"sni", "http"}

ASSUME ServiceAssumption ==
  /\ Platforms \subseteq {"darwin", "windows"}
  /\ Rivals \subseteq Ports

VARIABLES
  os,        \* the operating system; never changes
  foreign,   \* the ports another program holds
  job,       \* the registration; "leaving" goes when the process does
  status,    \* Windows: the state the SCM reports
  relaunch,  \* macOS: launchd saw the job crash and will start it again
  srv,       \* how far the service process has come
  sb,        \* its sing-box child
  orphan,    \* a sing-box outlived its service process
  ports,     \* its listeners
  stop,      \* a signal or Stop control it has not taken yet
  cancelled  \* the context of serveCore is cancelled

regVars == <<job, status, relaunch>>
procVars == <<srv, sb, orphan, ports, stop, cancelled>>
serviceVars == <<os, foreign, regVars, procVars>>

NoPorts == [p \in Ports |-> "none"]

(* "failed": Listen returned an error.  "lost": Accept did; Run returned,  *)
(* but nobody closes the listener, so the port stays taken.                *)
Held(p) == ports[p] \in {"bound", "lost"}
Free(p) == p \notin foreign /\ ~Held(p)

ServiceTypeOK ==
  /\ os \in Platforms
  /\ foreign \in SUBSET Rivals
  /\ job \in {"absent", "loaded", "leaving"}
  /\ status \in {"Stopped", "StartPending", "Running", "StopPending"}
  /\ relaunch \in BOOLEAN
  /\ srv \in {"none", "boot", "spawn", "settle", "serving", "closing", "ended"}
  /\ sb \in {"none", "up", "dead"}
  /\ orphan \in BOOLEAN
  /\ ports \in [Ports -> {"none", "bound", "failed", "lost"}]
  /\ stop \in BOOLEAN
  /\ cancelled \in BOOLEAN

ServiceInit ==
  /\ os \in Platforms
  /\ foreign = {}
  /\ job = "absent" /\ status = "Stopped" /\ relaunch = FALSE
  /\ srv = "none" /\ sb = "none" /\ orphan = FALSE
  /\ ports = NoPorts
  /\ stop = FALSE /\ cancelled = FALSE

(***************************************************************************)
(* What commands do to the service.                                        *)
(***************************************************************************)
(* kickstart, or SCM's StartService, once no process runs.                 *)
StartProcess ==
  /\ srv' = "boot"
  /\ relaunch' = FALSE
  /\ status' = IF os = "windows" THEN "StartPending" ELSE status

(* SIGTERM to a running job, or the Stop control, which the SCM delivers   *)
(* only to a service that reported it accepts it.                          *)
AskToStop ==
  stop' = (stop \/ IF os = "darwin" THEN srv # "none" ELSE status = "Running")

(* The registration is dropped now, or when the process has gone.          *)
DropJob ==
  job' = IF srv = "none" THEN "absent" ELSE "leaving"

(***************************************************************************)
(* The end of the process.  It gives back the ports and its registration   *)
(* if that was leaving.  launchd kills what is left of the job's process   *)
(* group; on Windows a child lives on.                                     *)
(***************************************************************************)
ProcessGone ==
  /\ srv' = "none" /\ sb' = "none"
  /\ orphan' = (orphan \/ (os = "windows" /\ sb = "up"))
  /\ ports' = NoPorts
  /\ stop' = FALSE /\ cancelled' = FALSE
  /\ status' = "Stopped"
  /\ job' = IF job = "leaving" THEN "absent" ELSE job

(***************************************************************************)
(* platformServe.  macOS: until signal.Notify is called SIGTERM kills.     *)
(* Windows: Execute posts StartPending, starts serveCore on a goroutine    *)
(* and posts Running at once; then it waits for a control or for serveCore.*)
(***************************************************************************)
Boot ==
  /\ srv = "boot"
  /\ IF os = "darwin" /\ stop
     THEN ProcessGone /\ UNCHANGED relaunch
     ELSE /\ srv' = "spawn"
          /\ UNCHANGED <<regVars, sb, orphan, ports, stop, cancelled>>
  /\ UNCHANGED <<os, foreign>>

ReportRunning ==
  /\ os = "windows" /\ status = "StartPending" /\ srv # "boot"
  /\ status' = "Running"
  /\ UNCHANGED <<os, foreign, job, relaunch, procVars>>

(* Mutant of TakeStop: Execute reports StopPending but forgets cancel().   *)
TakeStopOnly ==
  /\ stop /\ ~cancelled /\ srv \notin {"none", "boot"}
  /\ os = "windows" => status = "Running"
  /\ status' = IF os = "windows" THEN "StopPending" ELSE status
  /\ stop' = FALSE
  /\ UNCHANGED <<os, foreign, job, relaunch, srv, sb, orphan, ports, cancelled>>

TakeStop ==
  /\ stop /\ ~cancelled /\ srv \notin {"none", "boot"}
  /\ os = "windows" => status = "Running"
  /\ status' = IF os = "windows" THEN "StopPending" ELSE status
  /\ cancelled' = TRUE
  /\ UNCHANGED <<os, foreign, job, relaunch, srv, sb, orphan, ports, stop>>

(* serveCore has returned: the process ends, on Windows after Execute has  *)
(* seen it and posted Stopped.                                             *)
Leave ==
  /\ srv = "ended"
  /\ os = "windows" => status \in {"Running", "StopPending"}
  /\ ProcessGone
  /\ UNCHANGED <<os, foreign, relaunch>>

(***************************************************************************)
(* serveCore.                                                              *)
(***************************************************************************)
(* Cmd.Start refuses a cancelled context, and may fail.                    *)
Spawn ==
  /\ srv = "spawn"
  /\ \/ srv' = "ended" /\ UNCHANGED sb
     \/ ~cancelled /\ srv' = "settle" /\ sb' = "up"
  /\ UNCHANGED <<os, foreign, regVars, orphan, ports, stop, cancelled>>

(* exec.CommandContext has a goroutine of its own that kills the child     *)
(* when the context is cancelled.                                          *)
ContextKills ==
  /\ cancelled /\ sb = "up"
  /\ sb' = "dead"
  /\ UNCHANGED <<os, foreign, regVars, srv, orphan, ports, stop, cancelled>>

(* The 300 ms pause, then both listeners are started; or the context is    *)
(* cancelled first.                                                        *)
Settle ==
  /\ srv = "settle"
  /\ \/ cancelled /\ srv' = "ended" /\ sb' = "dead"
     \/ srv' = "serving" /\ UNCHANGED sb
  /\ UNCHANGED <<os, foreign, regVars, orphan, ports, stop, cancelled>>

Listen(p) ==
  /\ srv \in {"serving", "closing", "ended"} /\ ports[p] = "none"
  /\ ports' = [ports EXCEPT ![p] = IF p \in foreign THEN "failed" ELSE "bound"]
  /\ UNCHANGED <<os, foreign, regVars, srv, sb, orphan, stop, cancelled>>

(* On the HTTP listener this is only logged and leaves the port taken.     *)
AcceptFails ==
  /\ srv # "none" /\ ports["sni"] = "bound"
  /\ ports' = [ports EXCEPT !["sni"] = "lost"]
  /\ UNCHANGED <<os, foreign, regVars, srv, sb, orphan, stop, cancelled>>

(* Mutant of SniDied: the child is not killed.                             *)
SniDiedAlone ==
  /\ srv = "serving" /\ ports["sni"] \in {"failed", "lost"}
  /\ srv' = "ended"
  /\ UNCHANGED <<os, foreign, regVars, sb, orphan, ports, stop, cancelled>>

(* An error of the SNI listener ends serveCore; one of the HTTP listener   *)
(* is only logged.                                                         *)
SniDied ==
  /\ srv = "serving" /\ ports["sni"] \in {"failed", "lost"}
  /\ srv' = "ended" /\ sb' = "dead"
  /\ UNCHANGED <<os, foreign, regVars, orphan, ports, stop, cancelled>>

(* The context is cancelled: the child is sent the interrupt signal, which *)
(* it obeys on macOS and which Windows does not deliver; after 2 s it is   *)
(* killed.  Execute's own limit of 10 s does not expire before that.       *)
BeginClose ==
  /\ srv = "serving" /\ cancelled
  /\ srv' = "closing"
  /\ UNCHANGED <<os, foreign, regVars, sb, orphan, ports, stop, cancelled>>

EndClose ==
  /\ srv = "closing"
  /\ srv' = "ended" /\ sb' = "dead"
  /\ UNCHANGED <<os, foreign, regVars, orphan, ports, stop, cancelled>>

Serve ==
  \/ Boot \/ ReportRunning \/ TakeStop \/ Leave
  \/ Spawn \/ ContextKills \/ Settle \/ SniDied \/ BeginClose \/ EndClose
  \/ \E p \in Ports : Listen(p)

(***************************************************************************)
(* What happens to the service.                                            *)
(***************************************************************************)
SingBoxExits ==
  /\ \/ sb = "up" /\ sb' = "dead" /\ UNCHANGED orphan
     \/ orphan /\ orphan' = FALSE /\ UNCHANGED sb
  /\ UNCHANGED <<os, foreign, regVars, srv, ports, stop, cancelled>>

(* A crash or a kill; launchd restarts a job that a signal ended.          *)
ProcessDies ==
  /\ srv # "none"
  /\ ProcessGone
  /\ relaunch' \in {FALSE, os = "darwin" /\ job = "loaded"}
  /\ UNCHANGED <<os, foreign>>

Relaunch ==
  /\ relaunch /\ job = "loaded" /\ srv = "none"
  /\ StartProcess
  /\ UNCHANGED <<os, foreign, job, sb, orphan, ports, stop, cancelled>>

ForeignBinds(p) ==
  /\ Free(p)
  /\ foreign' = foreign \cup {p}
  /\ UNCHANGED <<os, regVars, procVars>>

ForeignCloses(p) ==
  /\ p \in foreign
  /\ foreign' = foreign \ {p}
  /\ UNCHANGED <<os, regVars, procVars>>

Surroundings ==
  \/ SingBoxExits \/ AcceptFails \/ ProcessDies \/ Relaunch
  \/ \E p \in Rivals : ForeignBinds(p) \/ ForeignCloses(p)

(***************************************************************************)
(* Properties.                                                             *)
(***************************************************************************)
(* Whichever way serveCore returns (cancelled while it pauses, while it    *)
(* serves, or because of its listener), its sing-box is not left behind,   *)
(* where it would keep the SOCKS port from the next one.                   *)
ChildEnds == srv = "ended" => sb # "up"

(* A service that is told to stop winds down (serve.go, Execute).          *)
StopEnds == stop ~> srv = "none"

(* serve_windows.go:104 names a sing-box crash among the things that make  *)
(* serveCore return: a service whose sing-box died does not go on serving. *)
ChildWatched == (srv = "serving" /\ sb = "dead") ~> srv # "serving"
=============================================================================
