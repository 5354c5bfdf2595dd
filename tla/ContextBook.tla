---------------------------- MODULE ContextBook ----------------------------
(***************************************************************************)
(* What kiroctl's contexts promise to one user at a keyboard: a book of    *)
(* named identities with at most one of them current, changed by one       *)
(* command at a time and by nothing else.                                  *)
(***************************************************************************)
CONSTANTS
  Names,    \* context names
  Creds,    \* what a context holds: server, keys, user
  Absent    \* no context of that name; also: no current context

VARIABLE book

Book == [cur : Names \cup {Absent}, ctx : [Names -> Creds \cup {Absent}]]

EmptyBook == [cur |-> Absent, ctx |-> [n \in Names |-> Absent]]

Has(b, n) == b.ctx[n] # Absent

SetUser(b, n, c) == [cur |-> n, ctx |-> [b.ctx EXCEPT ![n] = c]]

UseContext(b, n) == [b EXCEPT !.cur = n]

(* Mutant of DeleteContext: the current context is not cleared.            *)
DeleteOnly(b, n) == [b EXCEPT !.ctx[n] = Absent]

DeleteContext(b, n) ==
  [cur |-> IF b.cur = n THEN Absent ELSE b.cur,
   ctx |-> [b.ctx EXCEPT ![n] = Absent]]

(* The books that one accepted command makes of b; the last two refuse a   *)
(* name that b does not have.                                              *)
Changes(b) ==
  {SetUser(b, n, c) : n \in Names, c \in Creds}
    \cup {UseContext(b, n) : n \in {m \in Names : Has(b, m)}}
    \cup {DeleteContext(b, n) : n \in {m \in Names : Has(b, m)}}

Init == book = EmptyBook

Next == book' \in Changes(book)

Spec == Init /\ [][Next]_book
=============================================================================
