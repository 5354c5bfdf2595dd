# Formal model of kiro

kiro routes the Kiro/AWS traffic of a developer machine through a server on EC2.
On the server, `kiro-admin` keeps the list of users and feeds `sing-box`
(Shadowsocks 2022); on the client, `kiroctl` pins the allowed domains to
127.0.0.1 in the hosts file and runs a service that accepts those connections,
reads the TLS server name and hands them to a local `sing-box` by SOCKS5.
This directory holds TLA+ modules translated from the Go source, the TLC
instances that check them and TLAPS proofs about them.

## Running

    tlc -config MCUserStore.cfg MCUserStore        # one run; the table below lists them
    tlapm UserStoreProofs.tla                      # one proof module

## Inventory

| Component (source) | State | Operations | Interacts with | Hard behaviours | What makes it correct |
|---|---|---|---|---|---|
| User store (`pkg/admin/users.go`) | `users.json`, its `.tmp`, `server.key`, `Store.mu` | NewStore, List, Get, Create, Delete, ServerKey, RotateServerKey | called by every handler and by the renderer | process stop between system calls, failing calls, concurrent handlers, `server.key` written in place and read without the mutex | one user per name, no deleted user or old key returns, `users.json` always readable, mutex always released, implements an atomic directory |
| Change pipeline (`pkg/admin/server.go`, `singbox.go`, `reload.go`, `cmd/kiro-admin/main.go`) | requests in flight, `config.json`, its shared `.tmp`, open files, the sing-box process and its pending reload | create, delete, rotate, env download; render, check, reload; startup render | store, sing-box, systemd | no lock from the read to the reload; one temporary file for all; errors after the store changed; restarts of either process | a change that runs alone puts the store in force; env files work; requests are answered; a deletion takes effect; only valid configs are reloaded |
| Audit log (`pkg/admin/audit.go`) | `audit.jsonl`, `AuditLog.mu` | Record, Tail | every handler; errors dropped | line cut short by a crash, rotation of the file | an answered change is on record; one bad line costs one event |
| Admin authentication (`pkg/admin/auth.go`) | a bcrypt hash | basic-auth check, WriteAdminCred | HTTP handlers | none | — |
| Client commands (`kiroctl enable/disable/status`, `shared*.go`) | hosts file, sing-box config, installed service, DNS cache | enable with rollback, disable, status, elevated re-run | hosts, config, service manager, ports | failure in the middle, second enable while the service runs, run repeated under sudo | fail-closed after a success; a failure leaves no new lock (not so on Windows, see the disagreements); disable opens; the resolver agrees once its cache is empty |
| Client service (`serve*.go`, `service_*.go`) | sing-box child, HTTP and SNI listeners, errc, context | serveCore, service start/stop/wait | supervisor (launchd, SCM), SNI proxy | child death, early Running, shutdown order | the SNI listener's end ends the service and takes the child along; a stop that reaches it is obeyed wherever it comes (the HTTP listener's end does not end it, nor does a dead sing-box: see the disagreements) |
| Hosts file (`pkg/hosts`) | lines with a marked block | Install, Uninstall, Status | other writers of the file | read-modify-write, START without END, shared `.tmp` | other lines kept but for those a torn block encloses, an edit repairs what others left, all domains or none on unix, the third edit in a row changes nothing (the second may, so Install is not idempotent) |
| SNI proxy (`pkg/sni`) | per connection: buffered bytes, upstream, two copies | handle, extractSNI, dialSOCKS5 | client, sing-box | half-close, short reads, deadlines, record sizes | bytes in order and complete; only allowed names dialled; parser stays in bounds |
| Contexts (`pkg/config/kubeconfig.go`, `deployment.go`, `cmd/config.go`) | one JSON document | set-user, use-context, delete-context, Load/Save | enable, serve | load-change-save without a lock, dangling current context, env fallback | no lost change; current context resolves |
| Client sing-box config (`pkg/singbox`, `pkg/config/domains.go`) | none | Generate | service | route order | allowlist to EC2, everything else refused from the lock inbound |
| Installation (`install.go`, `embed.go`), scripts, CI, templates | files | copy, extract, provision | — | — | presentation and provisioning |

## Modules

| Module | What it is |
|---|---|
| `UserDirectory` | the abstract promise of the store: atomic Create and Delete; a key that is lost (truncated) and set |
| `UserStore` | `users.go`, one action per system call under `Store.mu`, `NewStore` at startup, process stops |
| `KiroAdmin` | the handlers' change pipeline, the startup render and sing-box, on top of `UserDirectory` |
| `KiroService` | `kiroctl serve` under launchd or the Service Control Manager: process, sing-box child, listeners, registration |
| `KiroClient` | `kiroctl enable`, `disable` and `status` on top of `KiroService`, with hosts file, resolver cache and config file |
| `SniProxy` | one connection through `pkg/sni`: sniffing, SOCKS5 dial, two copies, close |
| `ClientHello` | the parser of the first TLS record: its index against every bound it checks |
| `SniConnection` | `ClientHello` and `SniProxy` together: the parse decides what the connection does |
| `AuditLog` | `audit.go` as the last part of every request of `KiroAdmin`: Record, Tail, rotation |
| `ContextBook` | the abstract promise of the contexts: a book of identities, one of them current |
| `Kubeconfig` | `kubeconfig.go`, `deployment.go`, `cmd/config.go`: load, change, save, and what enable resolves |
| `HostsFile` | `pkg/hosts` line by line: the managed block, other writers, interrupted writes |
| `MCUserStore`, `MCKiroAdmin`, `MCAuditLog`, `MCKiroClient`, `MCSniProxy`, `MCKubeconfig`, `MCHostsFile` | the instances TLC checks |
| `UserStoreProofs`, `KiroAdminProofs` (with `AuditLog`), `KiroClientProofs`, `SniProxyProofs`, `SniConnectionProofs` (with `ClientHello`), `KubeconfigProofs`, `HostsFileProofs` | the theorems |
| `SequenceInduction` | induction and recursion along a sequence, for the proofs about loops |

### UserStore

`phase` is how far `main` has come through `NewStore`; `mu` the holder of
`Store.mu`; `users`, `tmp`, `key` the three files; `step[c]` the next system
call of a goroutine and `draft[c]` the list it marshalled.  `os.WriteFile` is
two steps, open-and-truncate and write; the rename is the third.  The read of
`users.json` is part of the step that takes the mutex, since only the holder
writes the file.  `Abort` is an error return at any system call (the deferred
Unlock runs), `Crash` a stop of the process at any point; a failed `NewStore` ends
the process and is a `Crash`.  `randomKey` returns a key never stored before
(128 random bits).  `issued` is history.  A file is missing, torn or whole;
JSON, notes and time stamps are left out, and so is the loss of unsynced
writes when the machine loses power (the code does not call fsync).

`ImplementsDirectory` maps `dir` to the users in `users.json` and the directory's
`serverKey` to `server.key`, a missing file counting as an empty one.  The directory
does not hide that replacing the key is two steps: a reader without the mutex
can see the empty file, and `KiroAdmin` needs exactly that.

### KiroAdmin

The store is `INSTANCE UserDirectory`, which `UserStore` implements; its mutex appears
as `MutexFree`, because only a rotation holds it over two visible steps.
`pc[g]` is a goroutine's next step: `store` (the change), `keyWrite`, `list`,
`key`, `open`, `write`, `rename`, `check`, `reload`, then `done` or `failed`
(audit and response).  `doc[g]` is what it read, which it marshals.  The open
temporary file of a goroutine is tracked by the name it has now: a rename by
another handler turns it into `config.json` (`fd = "conf"`), a second one leaves
it without a name.  A write over another handler's text gives a whole file if it is at
least as long, else a mixed, invalid one; keys have one length, so the
lengths differ by the user names and by an empty key.

sing-box and systemd are external: `sing-box check` accepts a whole file with
a non-empty key (`Valid`); `systemctl reload-or-restart` returns before the reload
is carried out (`hup`, then `LoadConfig`), a reload of an invalid file leaves
what runs; sing-box may exit and is started again with what `config.json` holds.
Initially `config.json` is the installer's placeholder without a usable key.
Left out: pages that only display, authentication; the audit record is `AuditLog`.

`solo` and `settled` are history: a request is solo if no other change was in
flight when it was accepted or has been accepted since; the system is
settled when a solo change has asked for its reload and no change was accepted since.

### AuditLog

`AuditLog` extends `KiroAdmin`: a request that is `done` or `failed` takes the log's mutex
(`LockLog`), appends and answers (`Record`); a failed env download answers without a record.
`log` is the sequence of appends, each a whole event or a part of one (`Cut`: a full disk,
a crash in the middle); the file may be gone (`there`), since Record opens it without
`O_CREATE` and only `NewAuditLog` at startup creates it.  Any of this leaves the answer as it
was, because `Server.audit` drops the error.  `AllEvents` is Tail: the appends up to a newline
are a line, and a line counts if it is one event.  `Rotate` is logrotate, which audit.go:72 counts
on.  A part is never taken for an event; one that lacks nothing but its newline is read as
an event until the next append, which is left out, and so are the content of an event and Tail's limit of 200.
Lines have no length in the model: `CutCostsOne` does not cover that one of more than 4 MB, such as a long run of cut appends,
makes the scanner fail and Tail return an error and no event at all (audit.go:84-86).

### KiroService

One module for both platforms; `os` says which.  `srv` is how far the process
has come: `boot` (created, before `platformServe` listens to signals or controls),
`spawn`, `settle` (the 300 ms pause), `serving` (the select on context and listener),
`closing` (the 2 s for the child), `ended` (serveCore returned).  `sb` is its child,
`orphan` a child that outlived it (on Windows; launchd kills the job's process group).
`ports[p]` is a listener: `bound`, `failed` to bind, or `lost` when Accept failed and the
socket stays open.  `job` is the registration, `leaving` while launchd or the SCM
wait for the process; `status` is what Execute told the SCM.  `stop` is a signal or
control under way, `cancelled` the context.  Execute and serveCore are two
goroutines, so their steps interleave; the goroutine of `exec.CommandContext`
that kills the child on cancellation is a third (`ContextKills`).

The surroundings let sing-box exit, Accept fail, the process be killed, launchd relaunch
a crashed job (`KeepAlive`/`Crashed` of the plist), and other programs bind and release the ports.

### KiroClient

`pc` is the next step of the command that runs.  enable: `load`, `probe`, `openCfg`,
`writeCfg`, `hosts`, then on macOS `plist`, `bootout`, `bootstrap`, `kickstart`, on Windows
`unregister`, `create`, `start`, `wait`, then `flush`; an error from `plist` on goes through
`rollback` and `flushBack`.  disable: `stop`, `unhosts`, `unflush`.  status: `askHosts`,
`askService`, `askClash`.  Any step may fail (`Fail`), or the command be interrupted, or
the power go (`Reboot`).  On macOS exit code 1 of the elevated child makes the
parent run it again (`retry`).  `hosts` is `locked` if the file lists all allowed names, `open` if none.
An edit is read and decided in one step (`EditHosts`); it may find nothing to write, but
need not even if the names are as they should be, since Install moves a block that is
there and both edits drop blank lines at the end.  On Windows the file is truncated (`torn`), then
holds a part of the text (`WriteSome`: `partly` lists some names, or all), then all of it
(`WriteHosts`); a failure, an interrupt or a loss of power leaves it at any of these.  Elsewhere
a temporary file is renamed in one step.  The config file is two steps everywhere.  `dns` is what the resolver
has cached for an allowed name: `Lookup` of a file that lists some names may find the name in it or not.
`Flush` empties the cache or fails, and the command goes on to its message either way, as `FlushDNS` drops its errors.  So do
the errors of bootout, of Stop and of Delete: `Bootout`, `Unregister` and `StopService` may leave the service as it is.
`was`, `last`, `promise` and `flushed` are history: the hosts file when
the command began; how the last command ended (`halfway`: an error in the middle of a write in place; `stuck`:
one of the rollback); what the last completed edit promised; and whether the cache has been emptied since.

Abstractions.  One command at a time (two at once are left out; the hosts file's
read-modify-write against other writers is in `HostsFile`, and so are the lines of others a torn file has lost).
A lookup is one step: one that read the hosts file before an edit and stores its answer after the flush is left out.  A plist that was only
partly written is not told from none.  Execute's limit of 10 s does not
expire, because the close of serveCore takes at most 2 s.  launchd's exit timeout
is not reached.  Accept fails on the SNI listener only: on the other one it is
just logged.  The unelevated first steps of the parent, which change nothing, are left out.

### SniProxy

One connection; the handlers of different connections share nothing, and the accept
loop is part of `KiroService`.  `pc` is the handler's next step: `header` and `record` (the two
peeks), `dial`, `greeting`, `reply`, `address` (`dialSOCKS5`), `splice`, `closed`.  `up` and `down` are the
two `io.Copy` goroutines, `shut` what the deferred calls have closed.  The streams are
sequences of numbered units, so order, loss and repetition can be seen: the client's
bytes are in `c2p` (in its socket), `buffered` (peeked), `p2s` and `got` (written to and
received by sing-box), the way back is `s2p`, `pre` (read ahead of the SOCKS5 reply, later
`prefixConn.pre`), `p2c`, `seen`.  Unit 1 of the client is the record header, `hello` the length of its first record,
`kind` what is in it: a name, none, or no TLS; the first three units of sing-box are its two SOCKS5 answers.

Abstractions.  A read or write of several units is several steps, and the read and
the write of a copy are one step, so what a copy holds between them is not seen.  A unit in flight
is delivered even if its sender is gone.  The client and sing-box are external:
they send, read, half-close (`fin`) or break off (`gone`) whenever they like, and
sing-box stands for the target behind it; it says nothing before the greeting and nothing but the first
answer before the request.  A failed dial, whatever the reason, is `DialFails`.  The parser
is in `ClientHello`.

### ClientHello and SniConnection

The parser moves an index forward and reads no byte twice, so a message is its length `len` and every
byte is chosen when it is read: a claimed length is any number up to `MaxByte` or `MaxWord`.
`at` is what the parser looks at next or its outcome, `cur` the index, `end` the end of the innermost part it is in,
`top` the end of what it has read (history), `name` the bounds of the name.  `panic` is an index
out of range.  Three bytes of the handshake's own length are skipped as in the code.

`SniConnection` puts the parse before the connection, which is sound because the parser looks at
nothing but the record: `Settle` makes its outcome the `kind` of the first record that the handler of
`SniProxy` meets.  A panic ends the process; to the connection it is a record without a name.

### ContextBook and Kubeconfig

A command of `kiroctl config` loads and changes the document (`LoadAndChange`, one read), then
saves it: `open` and truncate `config.json.tmp`, `write`, `rename`.  As in `KiroAdmin`, an open
file is followed by the name it has now, since another command's rename may turn it into
`config.json`; a write over a different text gives the new document or a mixed file.  `Fail` is an error at any
system call or an interrupt, `Report` the message of success.  The commands that only
display change nothing and are left out.  `ContextBook` has the three operations on the document.

enable resolves its identity from the current context or the env file (`LoadDeployment`; the
elevated process does so again, and it is the one modelled), and writes it into sing-box's config after it has extracted
sing-box and probed the ports (`WriteConfig`, of which `KiroClient` has the two steps of the write).  `Unusable` credentials are those that set-user accepts and
toDeployment refuses (a port that is no number).  `solo` and `calm` are history: no other command was at
work since this one began; nothing enable reads from has changed since it loaded.

### HostsFile

The file is a sequence of lines: the entries of the block, lines of others, blank lines, the two
markers.  `Scan` is the loop of `replaceBlock` as a function of how many lines it has read, `Rest` the kept lines without
the blank ones at the end.  It also stands for the loop of `extractBlock`, which differs only in that it keeps
nothing and ends a block that is not open.  `Install` and `Uninstall` are `Read` with a goal, then `Truncate` and
`WriteInPlace` on Windows or `WriteTmp` and `RenameTmp` elsewhere.  An interrupted write in place
leaves any number of whole lines of the text (a line cut in the middle is one of the `Others` or of the
block's to every later step, so it brings nothing new).  Other programs add lines at either end and
remove theirs; they leave marked lines alone.  `quiet` is history: nobody else changed the file since
`Read`.  Carriage returns are left out: the code writes every line with a line feed.

## Runs

| Run | Instance | Shows |
|---|---|---|
| `store` | main and 2 handlers, 2 names, 4 keys | type, unique names, readable file, no resurrection, refinement of `UserDirectory`, mutex released (20,559 states) |
| `admin` | 2 handlers and main, 1 name, 3 keys, symmetry | type, `SettledInForce`, `EnvFileWorks` (1.1 M states) |
| `admin_audit` | 2 handlers, 1 name, 1 key, a log of 2 appends | `LogTypeOK`, `CutCostsOne`, `Answered` (168,488 states; no symmetry, it is not sound for liveness) |
| `admin_delete` | as `admin` | violated: `DeleteTakesEffect` |
| `admin_validate` | 2 handlers, 1 name, 2 keys | violated: `ReloadsOnlyValid` |
| `client` | both platforms, rivals for both ports, lookups | type, `KeepsPromise`, `FailureUnlocks`, `ChildEnds` (4.1 M states) |
| `client_progress` | both platforms, no rivals, no lookups | `CommandEnds`, `StopEnds` (245,000 states) |
| `client_deadproxy` | both platforms, a rival for the SNI port, no lookups | violated: `NoDeadProxy` |
| `client_child` | as `client_deadproxy` | violated: `ChildWatched` |
| `sni` | 5 units from the client, 3 from the target, a buffer of 3, records of 2 to 5 (limit 4), room for 2; messages of up to 60 bytes, claimed lengths up to 3 and 20 | type, `InOrder`, `FirstEndIsWhole`, `ReadsInside`, `NameInside`, `Decided`, `CopiesEnd` (138,389 states) |
| `contexts` | 2 commands and enable, 2 names, 2 credentials of which one is unusable, symmetry | type, `CurrentDefined`, `SavedWhenAlone`, `EnableFollows`, `AtomicWhenAlone` (1.4 M states) |
| `hosts` | 2 domains, 2 lines of others, other programs stop adding at 5 lines | type, `EditTakesEffect`, `OthersKept`, `EditsSettle`, `AllOrNone`, `NothingLost` (2.2 M states) |

Bounds.  Two handlers are enough for every interleaving of two changes, and
since handlers return to idle, for any number of changes one after the other.
Four keys let the store have the first server key, two users and a rotated key or a
re-created user; three let `KiroAdmin` have a server key, a user and the
same name created again or a rotation.  One name suffices in `KiroAdmin`, where the
hazard is an old list against a new one.  There is no other bound: crashes, failures,
retries and restarts are unlimited.  When the keys are used up the changes
that need one fail, as they may anyway.  With one key, `admin_audit` still
has every kind of request reach each of its steps; a log of two appends has a cut one before, behind and
beside a whole one, and a rotation empties it, so that appends never run out.  The other properties do not depend
on the bounds: they are proved.

`KiroClient` has no bound: both platforms, both ports, any number of commands, failures,
restarts and crashes.  `client_progress` has no rivals and no lookups to keep the liveness check
small; without rivals a port is taken only by the service or not at all, and `Fail`
is as free; no step of a command or of the service looks at the resolver's cache.

`SniProxy` has a buffer smaller than the longest record it accepts, as in the code
(4096 bytes against 16 KB), records below, at and above either limit, more client units
than the longest record, so that bytes follow it, and room for fewer units than either stream has, so
that copies wait for their peers.

The shortest message that gets as far as a name has 38 fixed bytes, 4 for empty session id, ciphers and
compressions, and 11 for an extension with a name: 60 leaves room for a second extension or name, and lengths up to 20
overrun every part.

`Kubeconfig` has no bound; two commands overlap in every way two can, two names tell a changed context from
another one.  `HostsFile` lets other programs add up to five lines, so that lines come before,
between and behind two blocks' remains; kiroctl itself is not bounded.  That the bounds hide nothing is
proved: the theorems hold for texts of any length, any finite set of domains and any value of `MaxLines`.

Deadlock is checked in every run but `sni`: a connection really ends, with both ends gone
and nothing left to do.

### The disagreements

*A deletion that does not take effect* (`admin_delete`).  The README promises at
line 210 that a deleted user cannot connect.  A handler that creates a user lists the
users and is overtaken by a deletion; its older list is written or
renamed last.  The deletion is answered with success, no request is in flight,
and `config.json` lists a user the store does not have, until the next change
(`SettledInForce` says that the next one repairs it).

*A reload of a config nobody validated* (`admin_validate`).  `reload.go:8-10` says the
service is not restarted if validation fails.  Between one handler's check
and its reload another handler, whose open file has become `config.json` by the first one's
rename, writes into it, or renames a config with the empty key it
read during a rotation.

*A dead proxy behind a locked name* (`client_deadproxy`).  `enable.go:17-19` says that because
the ports are probed before the hosts file is touched a port conflict cannot leave the user with DNS pointed at
a dead proxy.  The probe releases the ports; another program takes 443 before the
service does; Windows has reported Running by then and macOS does not wait; enable says that it
succeeded.

*A service without its sing-box* (`client_child`).  `serve_windows.go:104` counts a sing-box
crash among the things that end serveCore.  Nothing waits for the child until the context is cancelled.

Further disagreements, not given a run of their own.  The first two are the exceptions that `FailureUnlocks` and `KeepsPromise`
name: without them TLC finds either violated in the `client` run.

- `enable.go:74-75` says that from the edit of the hosts file on any failure rolls it back.  A failure of the edit itself does
  not (`enable.go:76-78` returns): on Windows, where the file is written in place, an error in the middle of the write leaves
  some or all of the names locked and no service behind them.
- `enable.go:99` flushes the DNS so that cached answers do not resolve to real addresses.  `FlushDNS` drops the errors of its
  commands (its own comment at `service_windows.go:166` calls it best effort), so enable reports success while a real address is
  cached, and until it expires Kiro's traffic goes past the proxy.
- `status.go:48` makes its conclusion depend on `sbState != ""`, which is always true (status.go:76-89), so a sing-box
  left over from a killed service is enough for "Kiro traffic is forced through the EC2 tunnel." below "not running".
- `kubeconfig.go:85` says that Save writes atomically.  Two commands that overlap share `config.json.tmp`: one
  may rename what the other has just truncated, or write into what has become `config.json`.
  The file then stays unreadable, and every config command and enable refuse it until it is removed by hand.
- `hosts.go:54-55` calls Install idempotent and says that a block is replaced in place.  A second install moves the
  block to the end and drops the blank line before it (`EditsSettle` has the third change nothing).
- `hosts.go:4-5` says that nothing else in the file is touched.  Blank lines at its end are, and lines that
  follow a START without END, as a torn write on Windows leaves it.  So are all lines behind one of more than 1 MB: `replaceBlock`
  does not look at its scanner's error (lines have no length in the model).
- `disable.go:27` reports that sing-box was stopped; the errors of Stop and bootout are dropped, and a Stop is refused
  while the service starts (`AskToStop`), so it may run on.
- `README.md:391` says that every administrative operation is logged.  After the log was rotated away nothing is,
  until kiro-admin restarts.
- `server.go:213-216` tells the user to install the env file and enable; while a context is current the env
  file is not looked at.
- `proxy.go:25-27` speaks of records up to 16 KB; the reader holds 4096 bytes.
- `proxy.go:154` admits a message of 38 bytes, and line 158 reads its 39th (`ReadsInside`).

## Fairness

`UserStore`: a goroutine inside the mutex runs on, weakly fair: its next system call
returns, with or without an error.  Nothing is assumed of the arrival of
requests, of crashes or of startup.  `KiroAdmin`: each goroutine is strongly fair, because
it may wait for `Store.mu` while others take it again and again, and Go's
Mutex goes to a waiter that has starved for a millisecond.
`AuditLog` assumes the same, strong fairness per goroutine, with the log's mutex as a second one to wait for.
It is also assumed that `sing-box check` and `systemctl` return: the
code puts no timeout on them.  `KiroClient`: a command takes its next step (its calls return;
`waitUntilRunning` has a deadline), and the service process does, each weakly
fair.  That a process which the supervisor created ever comes up is not assumed,
only that SIGTERM ends it; nothing is assumed of the surroundings.  `SniProxy`: the handler and
each copy take their next step if they have one, which includes that the read
deadline of the sniff and the deadlines of the dial expire; nothing is assumed of the client and
of sing-box, which may stay silent or stop reading for ever.  `SniConnection` adds that the parser, a loop without
waiting, runs on.  `Kubeconfig` and `HostsFile` state no fairness: their properties are safety.

## Proofs

All theorems hold for any sets of goroutines, names and keys, from
`StoreAssumption` and `AdminAssumption` (the special values differ from the
ordinary ones).

`UserStoreProofs`: `IInv` adds to the type and to unique names that one caller at
a time is between system calls and that it holds the mutex (`Exclusive`), that what is about to be renamed is a
whole draft (`TmpComplete`), that a draft is one change away from
`users.json` for as long as it exists (`DraftCurrent`), that `server.key` is empty
before it is filled (`KeyTruncated`), that what is stored was issued
(`KeysIssued`), and that `users.json` is never torn (`FileInv`).  None of the
properties is inductive without the exclusion and the draft.  From `IInv`: `TypeCorrect`,
`NamesUnique`, `AlwaysReadable`, `Retired` (an action property) and `Implements`, the
refinement: a rename is the directory's Create or Delete, truncating and filling the
key its LoseKey and SetKey, every other step a stutter.

`KiroAdminProofs`: `IInv` says that the claim of a solo change is true
(`SoloAlone`), that what a goroutine that is alone read, wrote, renamed and
checked is what the store holds (`AloneRenders`; main at startup counts as one), that
in a settled state no change is at work (`SettledQuiet`) and that an
undisturbed download read the store (`EnvCurrent`).  From it: `TypeCorrect`,
`ChangesSettle` (`SettledInForce`), `DownloadsWork` (`EnvFileWorks`), and `StoreIsDirectory`: every step
of the pipeline is one of `UserDirectory` or leaves the store alone, so that it rests on what `UserStore` implements.

`KiroClientProofs`, from `ServiceAssumption` (the platforms are macOS and
Windows): `IInv` adds to the type that a step belongs to its command and platform (`StepsFit`),
that no promise stands while the hosts file is written in place (`WritingOpenly`), that what an edit
achieved lasts to the end of the command (`EditLasts`, `ConfigWritten`), that a lock found early in an
enable is older than it unless it is just writing the file in place (`EarlyUnlocked`), and that serveCore has no child before it starts
one and none when it returns (`ChildBelongs`).  `FailureUnlocks` is not inductive
without `EarlyUnlocked`, because of the second run under sudo, nor `KeepsPromise` without `EditLasts`
and `WritingOpenly`.  What is proved of the resolver is conditional on its cache having been emptied (`flushed`), and of failures on
their not being a write in place or a rollback; both conditions are needed, as the disagreements say.
From `IInv`: `TypeCorrect`, `PromiseKept`, `FailuresUnlock`, `NoChildLeft`.  The
service's own steps and the commands' are proved apart (`ServiceMoves`, `CommandMovesService`,
`CommandStep`, `SurroundingStep`), since neither disturbs the other's part.

`SniProxyProofs`, from `ProxyAssumption` (sizes are natural numbers, capacities positive):
`IInv` says that the queues of either direction, read from the receiver back to the
sender, are one unbroken sequence that ends with the last unit sent (`UpOrder`, `DownOrder`, the latter
from where the dial has got to, `Taken`, and only until a failed dial gives the stream up), that copies run
and connections are closed from the splice on only (`CopiesFit`), and that a
copy that ended while the other may still run left nothing to copy (`EndedEmpty`).  `InOrder` is not
inductive without the order of everything still under way.  The lemmas `Added`, `Dropped` and `Moved`
say what adding a unit to a queue, taking it and moving it do to the order.  From `IInv`:
`TypeCorrect`, `ReplayIsFaithful` (`InOrder`), `NothingLeftBehind` (`FirstEndIsWhole`).

`SniConnectionProofs`, from `HelloAssumption` (bounds are natural numbers), begins with the parser: `ParseInv` says that what the next
read needs has been checked before (`Needs`), that nothing beyond the index has been read, and that the
innermost part ends within the message.  From it: `StaysInside`, `NamesAreInside`.  It then carries
both invariants to the composition: until the first record is settled the connection is in an
initial state (`ConnectionInv`), so settling leads to another one.  From it: `ConnectionIsFaithful`, `ConnectionParsesInside`.

About `AuditLog`, in `KiroAdminProofs`: `LogIsTransparent` maps each step with the log to one of `KiroAdmin` or to a stutter, so the
theorems about the change pipeline hold with the log in place (`PromisesWithLog`); `LogTypeCorrect` is its type.
`CutsCostOne` says what Tail finds in a log of any length: by induction over the appends, the events read so far
are the whole ones with nothing cut before them, in order, and the line under way is the run of cut appends at the
end (`FindsNext`, `TailFinds`).

`KubeconfigProofs`, from `ContextAssumption` (`Absent` is neither a name nor a credential): `IInv` adds to the type that
solo commands are alone (`SoloAlone`), that such a command has a readable `config.json`, a draft one change away
from it and its own temporary file (`SoloSaves`), that a file which is not whole holds no document (`BrokenEmpty`), and
that a calm enable holds the identity that is current (`EnableCalm`).  From it: `TypeCorrect`, `NeverDangling`,
`SavesAreKept`, `EnableIsFaithful`, `AtomicAlone`, and `ImplementsBook`, the refinement of `ContextBook` for
at most one command at a time (with two it does not hold, see the disagreements).

`SequenceInduction`: the provers here cannot instantiate an induction theorem that takes an operator, but they can
cite one about sets.  Natural numbers are well-founded (`NatLessThanWellFounded`), so a set of them that has no
least element is empty (`WFMin`); hence induction over numbers and sequences for a property given as the set of what has it
(`NatSetInduction`, `IntervalInduction`, `SeqSetInduction`).  A loop over a sequence is a start and a step; the values it goes through
are a run, every sequence has exactly one (`RunExists`, `RunUnique`), and what a run is for a longer sequence follows
from one more step (`RunProperties`).  `RunFollowed` ties a recursive function that the model defines to its run.

`HostsFileProofs`, from `HostsAssumption` (finitely many domains; the markers, the blank line, the domains and the lines of others are
all different): first the operators, for every text.  `ScanProperties` and `OnlyProperties` give the two loops
line by line, `OnlyConcat`, `ScanAfter`, `ScanOpen` and `ScanBlock` what they make of a concatenation, `TrimProperties` and `TrimKeeps`
what trimming removes.  With them `ScanReplaced` says what the loop makes of a text that an edit has written, which is
all of `EditsSettle` (`EditsSettleOn`); `ReplacedHasEffect` that such a text lists what it should; and `KeptIsOutside`, the longest,
that the loop keeps exactly what no block encloses: it is inside a block whenever a start has no end behind it (`Opened`).
`EditTakesEffect` and `OthersKept` speak of the file an edit read and the one it leaves, so they need `IInv`: the draft is
what `replaceBlock` makes of that text (`Drafted`), the temporary file is the draft until it is renamed (`Staged`), and the file is the one
that was read, then empty or untouched, then the draft, as long as nobody else writes (`Undisturbed`).  `AllOrNone` is not inductive either: it needs that on
unix the file and every draft are whole, lines of others around one block or none (`NeverTorn`), which an edit keeps
(`WholeReplaced`), and so does a line added at either end or removed from anywhere outside the block (`WholeAdded`, `WholeRemoved`), even
between the read and the rename.  From `IInv`: `TypeCorrect`, `EditsTakeEffect`, `OthersStay`, `EditsDoSettle`, `NeverHalf`, and `OthersNeverLost`
(`NothingLost`, an action property: in a whole file nothing of others is enclosed, `WholeKeepsOthers`).

Every safety property of a passing run is proved.  Only model-checked: `LockReleased`, `Answered`, `CommandEnds`, `StopEnds`, `Decided` and `CopiesEnd`, which are liveness
under fairness, out of the prover's reach.

## Not modelled

- Authentication: one comparison with a hash that is read at startup; no state.
- Page templates, the dashboard, `kiroctl dashboard`, `config view` with its redaction, and the other commands and pages that only display.
- Installation, scripts and CI: copies of files without concurrency.
- The constant parts of sing-box's config: no state; that its last route rule refuses what is not on the allowlist is sing-box's to do.
- Permissions, owners, and the home directory a command has under sudo or UAC, on which the path of `config.json` depends.
- Loss of power after a rename without fsync, which the code does not call.
- Several enables, disables or statuses at the same time.

## Plan

Done: `UserDirectory`, `UserStore`, `KiroAdmin`, `AuditLog`; `KiroService`, `KiroClient`; `SniProxy`, `ClientHello`,
`SniConnection`; `ContextBook`, `Kubeconfig`; `HostsFile`; and their proofs.

Left, in this order:

1. Two client commands at once: `KiroClient` with a second command, where enable and disable cross.
2. Onboarding end to end: an env file or context issued by `KiroAdmin` connects for as long as its key is valid.
3. `HostsFile` as a refinement of an abstract file of others' lines and a flag.

The hazards in `PROJECT.json` name the lines where things can go wrong and the properties about them.
