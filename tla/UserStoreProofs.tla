-------------------------- MODULE UserStoreProofs --------------------------
(***************************************************************************)
(* Theorems about UserStore, for any number of callers, names and keys.    *)
(* The inductive invariant IInv is preserved by every step; the safety     *)
(* properties follow from it, and with it every step of the store is a     *)
(* step of UserDirectory or leaves the directory as it was.                *)
(***************************************************************************)
EXTENDS UserStore, TLAPS

(* The store starts in a state of the invariant: no file, nobody at work.  *)
LEMMA InitIInv == Init => IInv
  BY StoreAssumption
  DEF Init, IInv, TypeOK, Exclusive, TmpComplete, DraftCurrent, KeyTruncated,
      KeysIssued, FileInv, OneUserPerName, Working, Writing, MissingFile, File,
      User, Steps, PsksOf

(* Only one caller is between two system calls at a time.                  *)
LEMMA OneAtWork ==
  ASSUME Exclusive, NEW c \in Callers, NEW d \in Callers, Working(c), Working(d)
  PROVE  c = d
  BY DEF Exclusive

(* A user more is that user's key more.                                    *)
LEMMA PsksAdd ==
  ASSUME NEW S, NEW n, NEW k
  PROVE  PsksOf(S \cup {[name |-> n, psk |-> k]}) = PsksOf(S) \cup {k}
<1>. DEFINE u == [name |-> n, psk |-> k]
<1>1. u.psk = k
  OBVIOUS
<1>. HIDE DEF u
<1>2. PsksOf(S \cup {u}) = PsksOf(S) \cup {u.psk}
  BY DEF PsksOf
<1>. QED
  BY <1>1, <1>2 DEF u

(* What a caller writes over users.json has one user per name, and holds   *)
(* no key that was issued and is out of use.                               *)
LEMMA DraftSound ==
  ASSUME IInv, NEW c \in Callers, Writing(c)
  PROVE  /\ draft[c] \in SUBSET User
         /\ \A u, v \in draft[c] : u.name = v.name => u = v
         /\ PsksOf(draft[c]) \cap issued \subseteq PsksOf(users.users)
<1>1. draft[c] \in SUBSET User /\ users.users \in SUBSET User
  BY DEF IInv, TypeOK, File
<1>2. CASE phase # "up"
  BY <1>1, <1>2 DEF IInv, DraftCurrent, PsksOf
<1>3. CASE phase = "up" /\ Adds(draft[c])
  <2>1. PICK n \in Names, k \in Keys \ issued :
          /\ n \notin NamesOf(users.users)
          /\ draft[c] = users.users \cup {[name |-> n, psk |-> k]}
    BY <1>3 DEF Adds
  <2>2. \A u, v \in draft[c] : u.name = v.name => u = v
    BY <2>1 DEF IInv, OneUserPerName, NamesOf
  <2>3. PsksOf(draft[c]) \cap issued \subseteq PsksOf(users.users)
    BY <2>1 DEF PsksOf
  <2>. QED
    BY <1>1, <2>2, <2>3
<1>4. CASE phase = "up" /\ Removes(draft[c])
  BY <1>1, <1>4 DEF Removes, IInv, OneUserPerName, PsksOf
<1>. QED
  BY <1>2, <1>3, <1>4 DEF IInv, DraftCurrent

(* Every value of a step's variables stays in its type.                    *)
LEMMA TypeStep == IInv /\ [Next]_vars => TypeOK'
<1>. SUFFICES ASSUME IInv, [Next]_vars PROVE TypeOK'
  OBVIOUS
<1>. USE StoreAssumption DEF IInv
<1>1. CASE Boot
  BY <1>1 DEF TypeOK, Boot, Start, NewUsersFile, HaveUsersFile, NewKeyFile,
              HaveKeyFile, StartWrite, OpenKey, Steps
<1>2. ASSUME NEW c \in Callers, Enter(c) PROVE TypeOK'
  <2>1. ASSUME NEW n \in Names, Create(c, n) PROVE TypeOK'
    BY <2>1 DEF TypeOK, Create, CanEnter, StartWrite, Steps, File, User
  <2>2. ASSUME NEW n \in Names, Delete(c, n) PROVE TypeOK'
    BY <2>2 DEF TypeOK, Delete, CanEnter, StartWrite, Steps, File
  <2>3. CASE RotateServerKey(c)
    BY <2>3 DEF TypeOK, RotateServerKey, CanEnter, OpenKey, Steps
  <2>. QED
    BY <1>2, <2>1, <2>2, <2>3 DEF Enter
<1>3. ASSUME NEW c \in Callers, OpenTmp(c) PROVE TypeOK'
  BY <1>3 DEF TypeOK, OpenTmp, TornFile, File, Steps
<1>4. ASSUME NEW c \in Callers, WriteTmp(c) PROVE TypeOK'
  BY <1>4 DEF TypeOK, WriteTmp, WholeFile, File, Steps
<1>5. ASSUME NEW c \in Callers, RenameTmp(c) PROVE TypeOK'
  BY <1>5 DEF TypeOK, RenameTmp, Leave, MissingFile, File, Steps, PsksOf, User
<1>6. ASSUME NEW c \in Callers, WriteKey(c) PROVE TypeOK'
  BY <1>6 DEF TypeOK, WriteKey, Leave, Steps
<1>7. ASSUME NEW c \in Callers, Abort(c) PROVE TypeOK'
  BY <1>7 DEF TypeOK, Abort, Leave, Steps
<1>8. CASE Crash
  BY <1>8 DEF TypeOK, Crash, Steps
<1>9. CASE UNCHANGED vars
  BY <1>9 DEF TypeOK, vars
<1>. QED
  BY <1>1, <1>2, <1>3, <1>4, <1>5, <1>6, <1>7, <1>8, <1>9 DEF Next, Advance

(* Only the holder of the mutex, or main at startup, is at work; whoever   *)
(* is at work keeps the others out.                                        *)
LEMMA ExclusiveStep == IInv /\ [Next]_vars => Exclusive'
<1>. SUFFICES ASSUME IInv, [Next]_vars PROVE Exclusive'
  OBVIOUS
<1>. USE StoreAssumption DEF IInv, TypeOK, Exclusive, Working
<1>1. CASE Boot
  BY <1>1 DEF Boot, Start, NewUsersFile, HaveUsersFile, NewKeyFile,
              HaveKeyFile, StartWrite, OpenKey
<1>2. ASSUME NEW c \in Callers, Enter(c) PROVE Exclusive'
  BY <1>2 DEF Enter, Create, Delete, RotateServerKey, CanEnter, StartWrite, OpenKey
<1>3. ASSUME NEW c \in Callers, OpenTmp(c) \/ WriteTmp(c) PROVE Exclusive'
  BY <1>3 DEF OpenTmp, WriteTmp
<1>4. ASSUME NEW c \in Callers, RenameTmp(c) \/ WriteKey(c) \/ Abort(c)
      PROVE  Exclusive'
  BY <1>4 DEF RenameTmp, WriteKey, Abort, Leave
<1>5. CASE Crash
  BY <1>5 DEF Crash
<1>6. CASE UNCHANGED vars
  BY <1>6 DEF vars
<1>. QED
  BY <1>1, <1>2, <1>3, <1>4, <1>5, <1>6 DEF Next, Advance

(* The temporary file a caller is about to rename is its whole draft: the  *)
(* one caller at work wrote it, and nobody else opens it.                  *)
LEMMA TmpStep == IInv /\ [Next]_vars => TmpComplete'
<1>. SUFFICES ASSUME IInv, [Next]_vars PROVE TmpComplete'
  OBVIOUS
<1>. USE StoreAssumption DEF IInv, TypeOK, TmpComplete
<1>1. CASE Boot
  BY <1>1 DEF Boot, Start, NewUsersFile, HaveUsersFile, NewKeyFile,
              HaveKeyFile, StartWrite, OpenKey
<1>2. ASSUME NEW c \in Callers, Enter(c) PROVE TmpComplete'
  BY <1>2 DEF Enter, Create, Delete, RotateServerKey, CanEnter, StartWrite, OpenKey
<1>3. ASSUME NEW c \in Callers, OpenTmp(c) \/ WriteTmp(c) \/ RenameTmp(c)
      PROVE  TmpComplete'
  BY <1>3, OneAtWork DEF OpenTmp, WriteTmp, RenameTmp, Leave, Working
<1>4. ASSUME NEW c \in Callers, WriteKey(c) \/ Abort(c) PROVE TmpComplete'
  BY <1>4 DEF WriteKey, Abort, Leave
<1>5. CASE Crash
  BY <1>5 DEF Crash
<1>6. CASE UNCHANGED vars
  BY <1>6 DEF vars
<1>. QED
  BY <1>1, <1>2, <1>3, <1>4, <1>5, <1>6 DEF Next, Advance

(* A draft stays one change away from users.json until it is renamed.      *)
LEMMA DraftStep == IInv /\ [Next]_vars => DraftCurrent'
<1>. SUFFICES ASSUME IInv, [Next]_vars PROVE DraftCurrent'
  OBVIOUS
<1>. USE StoreAssumption DEF IInv, TypeOK, DraftCurrent, Writing
<1>1. CASE Boot
  <2>1. CASE NewUsersFile
    BY <1>1, <2>1 DEF NewUsersFile, StartWrite, FileInv, File, MissingFile,
                      Exclusive, Working
  <2>2. CASE Start \/ HaveUsersFile \/ HaveKeyFile
    BY <1>1, <2>2 DEF Start, HaveUsersFile, HaveKeyFile, Exclusive, Working
  <2>3. CASE NewKeyFile
    BY <1>1, <2>3 DEF NewKeyFile, OpenKey, Exclusive, Working
  <2>. QED
    BY <1>1, <2>1, <2>2, <2>3 DEF Boot
<1>2. ASSUME NEW c \in Callers, Enter(c) PROVE DraftCurrent'
  <2>1. \A d \in Callers : ~Working(d)
    BY <1>2 DEF Enter, Create, Delete, RotateServerKey, CanEnter, Exclusive
  <2>2. ASSUME NEW n \in Names, Create(c, n) PROVE DraftCurrent'
    BY <2>1, <2>2 DEF Create, CanEnter, StartWrite, Adds, Working
  <2>3. ASSUME NEW n \in Names, Delete(c, n) PROVE DraftCurrent'
    BY <2>1, <2>3 DEF Delete, CanEnter, StartWrite, Removes, Working
  <2>4. CASE RotateServerKey(c)
    BY <2>1, <2>4 DEF RotateServerKey, CanEnter, OpenKey, Working
  <2>. QED
    BY <1>2, <2>2, <2>3, <2>4 DEF Enter
<1>3. ASSUME NEW c \in Callers, OpenTmp(c) \/ WriteTmp(c) PROVE DraftCurrent'
  BY <1>3 DEF OpenTmp, WriteTmp, Adds, Removes
<1>4. ASSUME NEW c \in Callers, RenameTmp(c) \/ WriteKey(c) \/ Abort(c)
      PROVE  DraftCurrent'
  <2>1. \A d \in Callers : step'[d] = "out"
    BY <1>4, OneAtWork DEF RenameTmp, WriteKey, Abort, Leave, Working
  <2>. QED
    BY <2>1
<1>5. CASE Crash
  BY <1>5 DEF Crash
<1>6. CASE UNCHANGED vars
  BY <1>6 DEF vars, Adds, Removes
<1>. QED
  BY <1>1, <1>2, <1>3, <1>4, <1>5, <1>6 DEF Next, Advance

(* A caller that is about to write server.key has truncated it.            *)
LEMMA KeyStep == IInv /\ [Next]_vars => KeyTruncated'
<1>. SUFFICES ASSUME IInv, [Next]_vars PROVE KeyTruncated'
  OBVIOUS
<1>. USE StoreAssumption DEF IInv, TypeOK, KeyTruncated
<1>1. CASE Boot
  BY <1>1 DEF Boot, Start, NewUsersFile, HaveUsersFile, NewKeyFile,
              HaveKeyFile, StartWrite, OpenKey
<1>2. ASSUME NEW c \in Callers, Enter(c) PROVE KeyTruncated'
  BY <1>2 DEF Enter, Create, Delete, RotateServerKey, CanEnter, StartWrite, OpenKey
<1>3. ASSUME NEW c \in Callers, OpenTmp(c) \/ WriteTmp(c) \/ RenameTmp(c) \/ Abort(c)
      PROVE  KeyTruncated'
  BY <1>3 DEF OpenTmp, WriteTmp, RenameTmp, Abort, Leave
<1>4. ASSUME NEW c \in Callers, WriteKey(c) PROVE KeyTruncated'
  BY <1>4, OneAtWork DEF WriteKey, Leave, Working
<1>5. CASE Crash
  BY <1>5 DEF Crash
<1>6. CASE UNCHANGED vars
  BY <1>6 DEF vars
<1>. QED
  BY <1>1, <1>2, <1>3, <1>4, <1>5, <1>6 DEF Next, Advance

(* A step leaves users.json alone, or it is the rename of a whole draft.   *)
LEMMA UsersChange ==
  ASSUME IInv, [Next]_vars, users' # users
  PROVE  \E c \in Callers :
           /\ RenameTmp(c) /\ step[c] = "tmpRename"
           /\ users' = WholeFile(draft[c])
           /\ issued' = issued \cup PsksOf(draft[c])
           /\ UNCHANGED <<phase, key>>
<1>1. PICK c \in Callers : RenameTmp(c)
  BY DEF Next, vars, Boot, Start, NewUsersFile, HaveUsersFile, NewKeyFile,
         HaveKeyFile, StartWrite, OpenKey, Enter, Create, Delete,
         RotateServerKey, Advance, OpenTmp, WriteTmp, WriteKey, Abort, Leave, Crash
<1>. QED
  BY <1>1 DEF RenameTmp, IInv, TmpComplete, WholeFile

(* A step keeps every issued key issued, and leaves server.key alone,      *)
(* truncates it, or fills the truncated file with a key never issued.      *)
LEMMA KeyChange ==
  ASSUME IInv, [Next]_vars
  PROVE  /\ issued \subseteq issued'
         /\ \/ key' = key
            \/ key' = Blank /\ issued' = issued
            \/ key = Blank /\ \E k \in Keys \ issued :
                 key' = k /\ issued' = issued \cup {k}
<1>1. ASSUME NEW c \in Callers, WriteKey(c)
      PROVE  key = Blank /\ \E k \in Keys \ issued :
               key' = k /\ issued' = issued \cup {k}
  BY <1>1 DEF WriteKey, IInv, KeyTruncated
<1>2. ASSUME NEW c \in Callers, RenameTmp(c)
      PROVE  key' = key /\ issued \subseteq issued'
  BY <1>2 DEF RenameTmp
<1>3. ASSUME ~\E c \in Callers : WriteKey(c) \/ RenameTmp(c)
      PROVE  issued' = issued /\ (key' = key \/ key' = Blank)
  BY <1>3 DEF Next, vars, Boot, Start, NewUsersFile, HaveUsersFile, NewKeyFile,
         HaveKeyFile, StartWrite, OpenKey, Enter, Create, Delete,
         RotateServerKey, Advance, OpenTmp, WriteTmp, Abort, Leave, Crash
<1>. QED
  BY <1>1, <1>2, <1>3

(* What is stored has been issued: both files only ever receive new keys.  *)
LEMMA IssuedStep == IInv /\ [Next]_vars => KeysIssued'
<1>. SUFFICES ASSUME IInv, [Next]_vars PROVE KeysIssued'
  OBVIOUS
<1>1. PsksOf(users'.users) \subseteq issued'
  <2>1. CASE users' = users
    BY <2>1, KeyChange DEF IInv, KeysIssued, PsksOf
  <2>2. CASE users' # users
    BY <2>2, UsersChange DEF WholeFile
  <2>. QED
    BY <2>1, <2>2
<1>2. key' \in Keys => key' \in issued'
  BY KeyChange, StoreAssumption DEF IInv, KeysIssued
<1>. QED
  BY <1>1, <1>2 DEF KeysIssued, PsksOf

(* users.json is missing or whole, and whole once main is past it.         *)
LEMMA FileStep == IInv /\ [Next]_vars => FileInv'
<1>. SUFFICES ASSUME IInv, [Next]_vars PROVE FileInv'
  OBVIOUS
<1>1. CASE users' = users
  <2>1. phase' \in {"key", "up"} => phase \in {"key", "up"} \/ users.state # "missing"
    BY DEF Next, vars, Boot, Start, NewUsersFile, HaveUsersFile, NewKeyFile,
           HaveKeyFile, StartWrite, OpenKey, Enter, Create, Delete,
           RotateServerKey, Advance, OpenTmp, WriteTmp, RenameTmp, WriteKey,
           Abort, Leave, Crash
  <2>2. users.state \in {"missing", "torn", "whole"}
    BY DEF IInv, TypeOK, File
  <2>. QED
    BY <1>1, <2>1, <2>2 DEF IInv, FileInv
<1>2. CASE users' # users
  BY <1>2, UsersChange DEF IInv, FileInv, WholeFile
<1>. QED
  BY <1>1, <1>2

(* No step makes two users of one name.                                    *)
LEMMA UniqueStep == IInv /\ [Next]_vars => OneUserPerName'
<1>. SUFFICES ASSUME IInv, [Next]_vars PROVE OneUserPerName'
  OBVIOUS
<1>1. CASE users' = users
  BY <1>1 DEF IInv, OneUserPerName
<1>2. CASE users' # users
  BY <1>2, UsersChange, DraftSound DEF OneUserPerName, WholeFile, Writing
<1>. QED
  BY <1>1, <1>2

-----------------------------------------------------------------------------
(* IInv holds in every state the store can reach.                          *)
THEOREM Invariance == Spec => []IInv
<1>1. IInv /\ [Next]_vars => IInv'
  BY TypeStep, ExclusiveStep, TmpStep, DraftStep, KeyStep, IssuedStep, FileStep,
     UniqueStep DEF IInv
<1>. QED
  BY InitIInv, <1>1, PTL DEF Spec

(* Type correctness.                                                       *)
THEOREM TypeCorrect == Spec => []TypeOK
<1>1. IInv => TypeOK
  BY DEF IInv
<1>. QED
  BY <1>1, Invariance, PTL

(* The name check of Create is not invalidated before its write lands,     *)
(* however many handlers create and delete users at once.                  *)
THEOREM NamesUnique == Spec => []OneUserPerName
<1>1. IInv => OneUserPerName
  BY DEF IInv
<1>. QED
  BY <1>1, Invariance, PTL

(* Wherever the process stops, users.json can be read by the next start.   *)
THEOREM AlwaysReadable == Spec => []UsersFileReadable
<1>1. IInv => UsersFileReadable
  BY DEF IInv, FileInv, UsersFileReadable
<1>. QED
  BY <1>1, Invariance, PTL

(* A deleted user or a replaced server key never comes back.               *)
THEOREM Retired == Spec => NoResurrection
<1>1. IInv /\ [Next]_vars => \A k \in issued : k \notin Live => k \notin Live'
  <2>. SUFFICES ASSUME IInv, [Next]_vars, NEW k \in issued, k \notin Live
                PROVE  k \notin Live'
    OBVIOUS
  <2>1. k \notin PsksOf(users'.users)
    <3>1. CASE users' = users
      BY <3>1 DEF Live
    <3>2. CASE users' # users
      BY <3>2, UsersChange, DraftSound DEF Live, WholeFile, Writing
    <3>. QED
      BY <3>1, <3>2
  <2>2. k \notin {key'} \cap Keys
    BY KeyChange, StoreAssumption DEF Live
  <2>. QED
    BY <2>1, <2>2 DEF Live, PsksOf
<1>. QED
  BY <1>1, Invariance, PTL DEF Spec, NoResurrection

-----------------------------------------------------------------------------
(* A rename is the atomic creation or deletion of one user.                *)
LEMMA RenameSimulates ==
  ASSUME IInv, [Next]_vars, users' # users
  PROVE  [Dir!Next]_(Dir!vars)
<1>1. PICK c \in Callers :
        /\ step[c] = "tmpRename"
        /\ users' = WholeFile(draft[c])
        /\ issued' = issued \cup PsksOf(draft[c])
        /\ UNCHANGED <<phase, key>>
  BY UsersChange
<1>2. users'.users = draft[c]
  BY <1>1 DEF WholeFile
<1>3. PsksOf(users.users) \subseteq issued
  BY DEF IInv, KeysIssued
<1>4. CASE phase = "up" /\ Adds(draft[c])
  <2>1. PICK n \in Names, k \in Keys \ issued :
          /\ n \notin NamesOf(users.users)
          /\ draft[c] = users.users \cup {[name |-> n, psk |-> k]}
    BY <1>4 DEF Adds
  <2>2. issued' = issued \cup {k}
    <3>1. PsksOf(users.users \cup {[name |-> n, psk |-> k]})
            = PsksOf(users.users) \cup {k}
      BY PsksAdd
    <3>2. PsksOf(draft[c]) = PsksOf(users.users) \cup {k}
      BY <2>1, <3>1, Zenon
    <3>. QED
      BY <1>1, <1>3, <3>2
  <2>3. Dir!Create(n, k)
    BY <1>1, <1>2, <2>1, <2>2 DEF Dir!Create, Dir!NamesOf, NamesOf
  <2>. QED
    BY <2>1, <2>3 DEF Dir!Next
<1>5. CASE phase = "up" /\ Removes(draft[c])
  <2>1. PICK u \in users.users : draft[c] = users.users \ {u}
    BY <1>5 DEF Removes
  <2>2. issued' = issued
    BY <1>1, <1>3, <2>1 DEF PsksOf
  <2>3. Dir!Delete(u)
    BY <1>1, <1>2, <2>1, <2>2 DEF Dir!Delete
  <2>. QED
    BY <2>1, <2>3 DEF Dir!Next
<1>6. CASE phase # "up"
  <2>1. draft[c] = {} /\ users.users = {}
    BY <1>1, <1>6 DEF IInv, DraftCurrent, Writing, MissingFile
  <2>2. issued' = issued
    BY <1>1, <2>1 DEF PsksOf
  <2>. QED
    BY <1>1, <1>2, <2>1, <2>2 DEF Dir!vars
<1>. QED
  BY <1>1, <1>4, <1>5, <1>6 DEF IInv, DraftCurrent, Writing

(* Every other step truncates the key, fills it, or changes nothing the    *)
(* directory shows.                                                        *)
LEMMA OtherSimulates ==
  ASSUME IInv, [Next]_vars, users' = users
  PROVE  [Dir!Next]_(Dir!vars)
<1>1. CASE \E k \in Keys \ issued :
             key = Blank /\ key' = k /\ issued' = issued \cup {k}
  <2>1. PICK k \in Keys \ issued :
          key = Blank /\ key' = k /\ issued' = issued \cup {k}
    BY <1>1
  <2>2. Dir!SetKey(k)
    BY <2>1, StoreAssumption DEF Dir!SetKey
  <2>. QED
    BY <2>1, <2>2 DEF Dir!Next
<1>2. CASE key' = Blank /\ issued' = issued
  BY <1>2, StoreAssumption DEF Dir!Next, Dir!LoseKey
<1>3. CASE key' = key
  <2>1. issued' = issued
    <3>1. ASSUME NEW c \in Callers, WriteKey(c) PROVE FALSE
      BY <1>3, <3>1, StoreAssumption DEF WriteKey, IInv, KeyTruncated
    <3>2. ASSUME NEW c \in Callers, RenameTmp(c) PROVE issued' = issued
      BY <3>2 DEF RenameTmp, IInv, KeysIssued
    <3>. QED
      BY <3>1, <3>2
      DEF Next, vars, Boot, Start, NewUsersFile, HaveUsersFile, NewKeyFile,
          HaveKeyFile, StartWrite, OpenKey, Enter, Create, Delete,
          RotateServerKey, Advance, OpenTmp, WriteTmp, Abort, Leave, Crash
  <2>. QED
    BY <1>3, <2>1 DEF Dir!vars
<1>. QED
  BY <1>1, <1>2, <1>3, KeyChange

(* The file-backed store implements the directory: each operation takes    *)
(* effect at one instant or not at all.                                    *)
THEOREM Implements == Spec => ImplementsDirectory
<1>1. Init => Dir!Init
  BY DEF Init, Dir!Init, MissingFile
<1>2. IInv /\ [Next]_vars => [Dir!Next]_(Dir!vars)
  BY RenameSimulates, OtherSimulates
<1>. QED
  BY <1>1, <1>2, Invariance, PTL DEF Spec, ImplementsDirectory, Dir!Spec
=============================================================================
