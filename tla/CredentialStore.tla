---------------------------- MODULE CredentialStore ----------------------------
(* What the store of keys promises its clients: entries that are there or     *)
(* not, a password that opens them, and updates that take effect at one       *)
(* moment between the request and the result, or not at all.  Only a change   *)
(* of the database key may lose entries: those it could not load, when it     *)
(* succeeds, and those it came to already, when it fails or is cut.           *)

CONSTANTS
  Ids,        \* the names of entries
  Contents,   \* what an entry may hold
  Passwords,  \* the keys derived from passwords
  Searchable, \* the contents that have a value to be found by
  Keys,       \* the database keys
  Nothing,    \* the content of an entry that is not there
  NoUpdate    \* no update is under way

VARIABLES
  store,    \* what a client that knows the password finds under each name
  password, \* the password that opens the store
  pending,  \* the update under way
  phase,    \* how far it is: "none", "asked" or "applied"
  result    \* the result of the last update: "none", "ok" or "failed"
vars == <<store, password, pending, phase, result>>

Updates ==
  [kind : {"add", "edit", "delete"}, id : Ids, content : Contents]
    \cup [kind : {"rekey"}, key : Keys] \cup [kind : {"passwd"}, password : Passwords]

Init ==
  /\ store = [i \in Ids |-> Nothing]
  /\ password \in Passwords
  /\ pending = NoUpdate
  /\ phase = "none"
  /\ result = "none"

Ask(u) ==
  /\ phase = "none"
  /\ phase' = "asked"
  /\ pending' = u
  /\ result' = "none"
  /\ UNCHANGED <<store, password>>

Put(i, c) == store' = [store EXCEPT ![i] = c]
Without(lost) == [i \in Ids |-> IF i \in lost THEN Nothing ELSE store[i]]

(* The moment an update takes effect.  An entry without a value to be found   *)
(* by is not seen by anyone; an edit that makes it so may show until then.    *)
Apply ==
  /\ phase = "asked"
  /\ phase' = "applied"
  /\ \/ /\ pending.kind = "add"
        /\ IF pending.content \in Searchable THEN Put(pending.id, pending.content)
           ELSE UNCHANGED store
     \/ pending.kind = "edit" /\ Put(pending.id, pending.content)
     \/ pending.kind = "delete" /\ Put(pending.id, Nothing)
     \/ pending.kind = "passwd" /\ UNCHANGED store
     \/ pending.kind = "rekey" /\ \E lost \in SUBSET Ids : store' = Without(lost)
  /\ password' = IF pending.kind = "passwd" THEN pending.password ELSE password
  /\ UNCHANGED <<pending, result>>

(* An entry that has lost its last value to be found by is not shown again.   *)
Hide ==
  /\ phase = "applied"
  /\ pending.kind = "edit" /\ pending.content \notin Searchable
  /\ Put(pending.id, Nothing)
  /\ UNCHANGED <<password, pending, phase, result>>

Succeed ==
  /\ phase = "applied"
  /\ pending.kind = "edit" /\ pending.content \notin Searchable => store[pending.id] = Nothing
  /\ phase' = "none" /\ pending' = NoUpdate
  /\ result' = "ok"
  /\ UNCHANGED <<store, password>>

(* An update that fails or is cut may have taken effect, or not.              *)
Fail ==
  /\ phase # "none"
  /\ phase' = "none" /\ pending' = NoUpdate
  /\ result' \in {result, "failed"}
  /\ UNCHANGED <<store, password>>

(* A new key that does not become the key of the database takes the entries   *)
(* written with it along.                                                     *)
Lose(lost) ==
  /\ phase = "asked" /\ pending.kind = "rekey"
  /\ store' = Without(lost)
  /\ phase' = "none" /\ pending' = NoUpdate
  /\ result' \in {result, "failed"}
  /\ UNCHANGED password

Next ==
  \/ \E u \in Updates : Ask(u)
  \/ Apply
  \/ Hide
  \/ Succeed
  \/ Fail
  \/ \E lost \in SUBSET Ids : Lose(lost)

Spec == Init /\ [][Next]_vars
===============================================================================
