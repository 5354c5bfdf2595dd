--------------------------- MODULE UserDirectory ---------------------------
(***************************************************************************)
(* What pkg/admin's Store promises: a directory of Shadowsocks users and   *)
(* one outer server key.  Creating and deleting a user are single steps.   *)
(* Replacing the server key is not: os.WriteFile truncates server.key      *)
(* before it writes it, and ServerKey reads the file without the mutex, so *)
(* a reader can find the key missing.                                      *)
(***************************************************************************)
CONSTANTS
  Names,    \* user names that validName admits
  Keys,     \* values randomKey can return (user PSKs and server keys)
  Blank     \* a server key file with no key in it

VARIABLES
  dir,      \* the users, each a name and a PSK
  serverKey,
  issued    \* every key that was ever stored: randomKey returns none of them

vars == <<dir, serverKey, issued>>

User == [name : Names, psk : Keys]

NamesOf(S) == {u.name : u \in S}
PsksOf(S) == {u.psk : u \in S}

Init ==
  /\ dir = {}
  /\ serverKey = Blank
  /\ issued = {}

Create(n, k) ==
  /\ n \notin NamesOf(dir)
  /\ k \notin issued
  /\ dir' = dir \cup {[name |-> n, psk |-> k]}
  /\ issued' = issued \cup {k}
  /\ UNCHANGED serverKey

Delete(u) ==
  /\ u \in dir
  /\ dir' = dir \ {u}
  /\ UNCHANGED <<serverKey, issued>>

LoseKey ==
  /\ serverKey' = Blank
  /\ UNCHANGED <<dir, issued>>

SetKey(k) ==
  /\ serverKey = Blank
  /\ k \notin issued
  /\ serverKey' = k
  /\ issued' = issued \cup {k}
  /\ UNCHANGED dir

Next ==
  \/ \E n \in Names, k \in Keys : Create(n, k)
  \/ \E u \in dir : Delete(u)
  \/ LoseKey
  \/ \E k \in Keys : SetKey(k)

Spec == Init /\ [][Next]_vars
=============================================================================
