----------------------------- MODULE UserStore -----------------------------
(***************************************************************************)
(* pkg/admin/users.go: the file-backed user database of kiro-admin.        *)
(*                                                                         *)
(* Callers are the goroutines of one kiro-admin process: the main          *)
(* goroutine, which opens the store, and the HTTP handlers.  The state is  *)
(* two files and a mutex.  users.json is replaced by writing a temporary   *)
(* file and renaming it; server.key is overwritten in place.  A caller's   *)
(* work inside the mutex is a step per system call, and the process may    *)
(* stop between any two of them.                                           *)
(***************************************************************************)
CONSTANTS
  Callers,  \* goroutines
  Main,     \* the one that runs main()
  Names,    \* user names that validName admits
  Keys,     \* values randomKey can return
  Free,     \* the mutex is unlocked
  Blank,    \* server.key exists and is empty
  Missing   \* server.key does not exist

ASSUME StoreAssumption ==
  /\ Main \in Callers
  /\ Free \notin Callers
  /\ Blank \notin Keys
  /\ Missing \notin Keys
  /\ Blank # Missing

VARIABLES
  phase,    \* how far main() has come: "down", "users", "key", "up"
  mu,       \* the holder of Store.mu
  users,    \* users.json
  tmp,      \* users.json.tmp
  key,      \* server.key
  step,     \* per caller, the next system call of its Store operation
  draft,    \* per caller, the users it is about to write
  issued    \* every key that was ever stored (history)

vars == <<phase, mu, users, tmp, key, step, draft, issued>>

User == [name : Names, psk : Keys]

NamesOf(S) == {u.name : u \in S}
PsksOf(S) == {u.psk : u \in S}

(* A file that holds JSON: missing, cut short, or a complete list.         *)
File == [state : {"missing", "torn", "whole"}, users : SUBSET User]

MissingFile == [state |-> "missing", users |-> {}]
TornFile == [state |-> "torn", users |-> {}]
WholeFile(S) == [state |-> "whole", users |-> S]

Steps == {"out", "tmpOpen", "tmpWrite", "tmpRename", "keyWrite"}

TypeOK ==
  /\ phase \in {"down", "users", "key", "up"}
  /\ mu \in Callers \cup {Free}
  /\ users \in File
  /\ tmp \in File
  /\ key \in Keys \cup {Blank, Missing}
  /\ step \in [Callers -> Steps]
  /\ draft \in [Callers -> SUBSET User]
  /\ issued \in SUBSET Keys

Init ==
  /\ phase = "down"
  /\ mu = Free
  /\ users = MissingFile
  /\ tmp = MissingFile
  /\ key = Missing
  /\ step = [c \in Callers |-> "out"]
  /\ draft = [c \in Callers |-> {}]
  /\ issued = {}

(***************************************************************************)
(* writeUsers: open the temporary file (which truncates it), write it, and *)
(* rename it over users.json.  The rename is the caller's last step, after *)
(* which its deferred Unlock runs.                                         *)
(***************************************************************************)
StartWrite(c, S) ==
  /\ step' = [step EXCEPT ![c] = "tmpOpen"]
  /\ draft' = [draft EXCEPT ![c] = S]

Leave(c) ==
  /\ step' = [step EXCEPT ![c] = "out"]
  /\ draft' = [draft EXCEPT ![c] = {}]
  /\ mu' = Free

(* Mutant of OpenTmp: write users.json in place.                           *)
OpenInPlace(c) ==
  /\ step[c] = "tmpOpen"
  /\ users' = TornFile
  /\ step' = [step EXCEPT ![c] = "tmpWrite"]
  /\ UNCHANGED <<phase, mu, tmp, key, draft, issued>>

OpenTmp(c) ==
  /\ step[c] = "tmpOpen"
  /\ tmp' = TornFile
  /\ step' = [step EXCEPT ![c] = "tmpWrite"]
  /\ UNCHANGED <<phase, mu, users, key, draft, issued>>

WriteTmp(c) ==
  /\ step[c] = "tmpWrite"
  /\ tmp' = WholeFile(draft[c])
  /\ step' = [step EXCEPT ![c] = "tmpRename"]
  /\ UNCHANGED <<phase, mu, users, key, draft, issued>>

RenameTmp(c) ==
  /\ step[c] = "tmpRename"
  /\ users' = tmp
  /\ tmp' = MissingFile
  /\ issued' = issued \cup PsksOf(tmp.users)
  /\ Leave(c)
  /\ UNCHANGED <<phase, key>>

(***************************************************************************)
(* os.WriteFile(keyPath): the open truncates server.key, the write fills   *)
(* it.  Both are done in place.                                            *)
(***************************************************************************)
OpenKey(c) ==
  /\ key' = Blank
  /\ step' = [step EXCEPT ![c] = "keyWrite"]

WriteKey(c) ==
  /\ step[c] = "keyWrite"
  /\ \E k \in Keys \ issued :
        /\ key' = k
        /\ issued' = issued \cup {k}
  /\ Leave(c)
  /\ UNCHANGED <<phase, users, tmp>>

(***************************************************************************)
(* The operations.  Each takes the mutex, reads users.json and decides; a  *)
(* refusal (ErrExists, ErrNotFound) releases the mutex and changes         *)
(* nothing.                                                                *)
(***************************************************************************)
(* Mutant of CanEnter: do not take the mutex.                              *)
EnterUnlocked(c) == c # Main /\ phase = "up" /\ step[c] = "out"

CanEnter(c) == c # Main /\ phase = "up" /\ mu = Free /\ step[c] = "out"

(* Mutants of Create: skip the name check; append the name, not the user.  *)
CreateUnchecked(c, n) ==
  /\ CanEnter(c)
  /\ users.state = "whole"
  /\ \E k \in Keys \ issued :
        StartWrite(c, users.users \cup {[name |-> n, psk |-> k]})
  /\ mu' = c
  /\ UNCHANGED <<phase, users, tmp, key, issued>>

CreateNameOnly(c, n) ==
  /\ CanEnter(c)
  /\ users.state = "whole"
  /\ n \notin NamesOf(users.users)
  /\ StartWrite(c, users.users \cup {n})
  /\ mu' = c
  /\ UNCHANGED <<phase, users, tmp, key, issued>>

Create(c, n) ==
  /\ CanEnter(c)
  /\ users.state = "whole"
  /\ n \notin NamesOf(users.users)
  /\ \E k \in Keys \ issued :
        StartWrite(c, users.users \cup {[name |-> n, psk |-> k]})
  /\ mu' = c
  /\ UNCHANGED <<phase, users, tmp, key, issued>>

Delete(c, n) ==
  /\ CanEnter(c)
  /\ users.state = "whole"
  /\ \E u \in users.users :
        /\ u.name = n
        /\ StartWrite(c, users.users \ {u})
  /\ mu' = c
  /\ UNCHANGED <<phase, users, tmp, key, issued>>

RotateServerKey(c) ==
  /\ CanEnter(c)
  /\ OpenKey(c)
  /\ mu' = c
  /\ UNCHANGED <<phase, users, tmp, draft, issued>>

(* Mutant of Abort: return an error without unlocking.                     *)
AbortLocked(c) ==
  /\ phase = "up"
  /\ step[c] # "out"
  /\ step' = [step EXCEPT ![c] = "out"]
  /\ draft' = [draft EXCEPT ![c] = {}]
  /\ UNCHANGED <<phase, mu, users, tmp, key, issued>>

(* A system call fails.  The operation returns its error and the deferred  *)
(* Unlock runs; what the earlier calls did to the files stays done.        *)
Abort(c) ==
  /\ phase = "up"
  /\ step[c] # "out"
  /\ Leave(c)
  /\ UNCHANGED <<phase, users, tmp, key, issued>>

(***************************************************************************)
(* NewStore, and the process stopping.  A file that exists is left alone,  *)
(* whatever it holds.                                                      *)
(***************************************************************************)
Start ==
  /\ phase = "down"
  /\ phase' = "users"
  /\ UNCHANGED <<mu, users, tmp, key, step, draft, issued>>

(* Mutant of NewUsersFile: write an empty list whether or not there is one.*)
ResetUsersFile ==
  /\ phase = "users" /\ step[Main] = "out"
  /\ StartWrite(Main, {})
  /\ UNCHANGED <<phase, mu, users, tmp, key, issued>>

NewUsersFile ==
  /\ phase = "users" /\ step[Main] = "out"
  /\ users.state = "missing"
  /\ StartWrite(Main, {})
  /\ UNCHANGED <<phase, mu, users, tmp, key, issued>>

HaveUsersFile ==
  /\ phase = "users" /\ step[Main] = "out"
  /\ users.state # "missing"
  /\ phase' = "key"
  /\ UNCHANGED <<mu, users, tmp, key, step, draft, issued>>

NewKeyFile ==
  /\ phase = "key" /\ step[Main] = "out"
  /\ key = Missing
  /\ OpenKey(Main)
  /\ UNCHANGED <<phase, mu, users, tmp, draft, issued>>

HaveKeyFile ==
  /\ phase = "key" /\ step[Main] = "out"
  /\ key # Missing
  /\ phase' = "up"
  /\ UNCHANGED <<mu, users, tmp, key, step, draft, issued>>

Boot == Start \/ NewUsersFile \/ HaveUsersFile \/ NewKeyFile \/ HaveKeyFile

Crash ==
  /\ phase # "down"
  /\ phase' = "down"
  /\ mu' = Free
  /\ step' = [c \in Callers |-> "out"]
  /\ draft' = [c \in Callers |-> {}]
  /\ UNCHANGED <<users, tmp, key, issued>>

Advance(c) == OpenTmp(c) \/ WriteTmp(c) \/ RenameTmp(c) \/ WriteKey(c)

Enter(c) ==
  \/ \E n \in Names : Create(c, n) \/ Delete(c, n)
  \/ RotateServerKey(c)

Next ==
  \/ Boot
  \/ \E c \in Callers : Enter(c) \/ Advance(c) \/ Abort(c)
  \/ Crash

(* A goroutine inside the mutex runs on: its next system call returns,     *)
(* with or without an error.                                               *)
Fairness == \A c \in Callers : WF_vars(Advance(c) \/ Abort(c))

Spec == Init /\ [][Next]_vars
FairSpec == Spec /\ Fairness

-----------------------------------------------------------------------------
(* The promise: each operation takes effect at one instant, the rename.    *)
Dir == INSTANCE UserDirectory WITH
  dir <- users.users,
  serverKey <- IF key = Missing THEN Blank ELSE key

ImplementsDirectory == Dir!Spec

(* users.json never holds two users of one name: the existence check and   *)
(* the write that follows it are not separated by another caller's write.  *)
OneUserPerName ==
  \A u, v \in users.users : u.name = v.name => u = v

Live == PsksOf(users.users) \cup ({key} \cap Keys)

(* A PSK or a server key that is out of use stays out of use: no slow      *)
(* writer, error or restart brings back a deleted user or an old key.      *)
NoResurrection ==
  [][\A k \in issued : k \notin Live => k \notin Live']_vars

(* Once the store has been opened, users.json is always a complete list,   *)
(* whenever the process stops; only then can a restart read it.            *)
UsersFileReadable ==
  /\ users.state # "torn"
  /\ phase = "up" => users.state = "whole"

(* A caller that takes the mutex gives it back, on every error path.       *)
LockReleased == \A c \in Callers : mu = c ~> mu # c

-----------------------------------------------------------------------------
(* The inductive invariant behind these, in parts.                         *)
Working(c) == step[c] # "out"
Writing(c) == step[c] \in {"tmpOpen", "tmpWrite", "tmpRename"}

(* Before the store is open main works alone; then the mutex holder does.  *)
Exclusive ==
  /\ phase # "up" => mu = Free
  /\ \A c \in Callers : Working(c) =>
       /\ phase # "down"
       /\ c = Main \/ phase = "up"
       /\ phase = "up" => mu = c

(* What is renamed over users.json is the whole of the caller's draft.     *)
TmpComplete ==
  \A c \in Callers : step[c] = "tmpRename" => tmp = WholeFile(draft[c])

Adds(S) ==
  \E n \in Names, k \in Keys \ issued :
    n \notin NamesOf(users.users) /\ S = users.users \cup {[name |-> n, psk |-> k]}

Removes(S) == \E u \in users.users : S = users.users \ {u}

(* A draft is one change away from users.json, and stays so until the      *)
(* rename: nothing a caller read under the mutex goes stale.               *)
DraftCurrent ==
  \A c \in Callers : Writing(c) =>
    IF phase = "up" THEN Adds(draft[c]) \/ Removes(draft[c])
                    ELSE draft[c] = {} /\ users = MissingFile

KeyTruncated == \A c \in Callers : step[c] = "keyWrite" => key = Blank

KeysIssued ==
  /\ PsksOf(users.users) \subseteq issued
  /\ key \in Keys => key \in issued

FileInv ==
  /\ users.state # "torn"
  /\ users.state = "missing" => users.users = {}
  /\ phase \in {"key", "up"} => users.state = "whole"

IInv ==
  /\ TypeOK
  /\ Exclusive
  /\ TmpComplete
  /\ DraftCurrent
  /\ KeyTruncated
  /\ KeysIssued
  /\ FileInv
  /\ OneUserPerName
=============================================================================
