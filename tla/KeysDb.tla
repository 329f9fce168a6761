--------------------------------- MODULE KeysDb --------------------------------
(* The database of the keys server as files, written step by step: an index   *)
(* that says under which values each entry is found, one file per entry, and  *)
(* a lock file.  Every update writes "index.work" first and renames it over   *)
(* "index" last.  Each write and each rename may fail, and the server may     *)
(* stop between any two of them; what is in memory is gone then, the files    *)
(* stay as they are.  Work files that an update leaves behind are left out:   *)
(* each update truncates and writes its own before it renames them.  One      *)
(* server works in a directory and serves one connection at a time, as        *)
(* server.c does.                                                             *)
EXTENDS Naturals

CONSTANTS
  Ids,       \* the random names of entries
  Terms,     \* the values by which entries are found
  Contents,  \* what an entry may hold
  TermsOf,   \* the values of each content that the index lists
  Passwords, \* the keys derived from passwords
  MaxKey     \* bound: database keys drawn

ASSUME ContentsAssumption == TermsOf \in [Contents -> SUBSET Terms] /\ Contents # {}
ASSUME KeysAssumption == MaxKey \in Nat

VARIABLES
  file,      \* the file of each entry
  index,     \* the file "index"
  indexWork, \* the file "index.work" of the update under way
  lock,      \* whether the file ".lock" exists
  pc,        \* what the server is doing
  idx,       \* the index in the memory of the server, loaded for a connection
  op,        \* the update under way
  todo,      \* what a rekey or an export has not come to yet
  work,      \* the file "<id>.work" of the entry being stored
  importing, \* whether updates come from an import
  sent,      \* the entries an export has sent
  result,    \* what the last update returned
  skipped,   \* auxiliary: entries the rekey under way passed over though they open
  damaged,   \* auxiliary: entries an update left half-way, or a rekey behind
  lastKey    \* auxiliary: the last database key drawn
vars == <<file, index, indexWork, lock, pc, idx, op, todo, work, importing, sent, result,
          skipped, damaged, lastKey>>

Keys == 0..MaxKey
Sealed == [key : Keys, content : Contents]
Stored == [id : Ids, key : Keys, content : Contents]
Absent == [name |-> "absent"]
Blank == [name |-> "blank"]       \* empty, or not written to the end
Indexes == [password : Passwords, key : Keys, ids : [Terms -> SUBSET Ids]]
Ops == [kind : {"add", "edit", "delete"}, id : Ids, content : Contents]
         \cup [kind : {"rekey"}, key : Keys] \cup [kind : {"passwd"}, password : Passwords]

NoIndex == [name |-> "no index"]
NoOp == [kind |-> "none"]
Update(kind, i, c) == [kind |-> kind, id |-> i, content |-> c]

\* The entries an index lists, and the pairs of a value and an entry under it.
ListedIn(ix) == {i \in Ids : \E t \in Terms : i \in ix.ids[t]}
PairsIn(ix) == {p \in Terms \X Ids : p[2] \in ix.ids[p[1]]}
TermsAt(ix, i) == {t \in Terms : i \in ix.ids[t]}

\* load_entry: a file opens with the key it was written with.
Opens(f, key) == f \in Sealed /\ f.key = key

\* mmfile opens with O_CREAT: to load a file that is not there leaves an empty one.
Touched(ids) == [i \in Ids |-> IF i \in ids /\ file[i] = Absent THEN Blank ELSE file[i]]

\* load_entry fails for a file that does not open with the key, and may fail for
\* any other: there is no descriptor, or no memory to map or to lock it in.
Tried(ids) == {Touched(opened) : opened \in SUBSET ids}

TypeOK ==
  /\ file \in [Ids -> Sealed \cup {Absent, Blank}]
  /\ index \in Indexes \cup {Blank}
  /\ indexWork \in Indexes \cup {Absent}
  /\ lock \in BOOLEAN
  /\ pc \in {"down", "idle", "open", "importing", "locked", "indexed", "stored", "renamed",
             "finish", "failed", "exporting", "exported"}
  /\ idx \in Indexes \cup {NoIndex}
  /\ op \in Ops \cup {NoOp}
  /\ todo \subseteq Terms \X Ids
  /\ work \in Stored \cup {Absent}
  /\ importing \in BOOLEAN
  /\ sent \subseteq Ids
  /\ result \in {"none", "ok", "failed"}
  /\ skipped \subseteq Ids
  /\ damaged \subseteq Ids
  /\ lastKey \in Keys

(* init_index: a new database lists nothing.                                  *)
Init ==
  /\ file = [i \in Ids |-> Absent]
  /\ \E p \in Passwords : index = [password |-> p, key |-> 0, ids |-> [t \in Terms |-> {}]]
  /\ indexWork = Absent
  /\ lock = FALSE
  /\ pc = "idle"
  /\ idx = NoIndex
  /\ op = NoOp
  /\ todo = {}
  /\ work = Absent
  /\ importing = FALSE
  /\ sent = {}
  /\ result = "none"
  /\ skipped = {}
  /\ damaged = {}
  /\ lastKey = 0

-------------------------------------------------------------------------------
\* A connection

(* start: the index is loaded once, with the key the client derived from the  *)
(* password; with another key the connection ends here.                       *)
Connect(p) ==
  /\ pc = "idle"
  /\ index # Blank /\ index.password = p
  /\ idx' = index
  /\ pc' = "open"
  /\ UNCHANGED <<file, index, indexWork, lock, op, todo, work, importing, sent, result,
                 skipped, damaged, lastKey>>

Close == pc' = "idle" /\ idx' = NoIndex /\ importing' = FALSE
Disconnect ==
  /\ pc \in {"open", "importing"}
  /\ Close
  /\ UNCHANGED <<file, index, indexWork, lock, op, todo, work, sent, result, skipped, damaged,
                 lastKey>>

(* find_entry: every match is loaded; the connection goes on.                 *)
Find(matches) ==
  /\ pc = "open"
  /\ matches # {} /\ matches \subseteq ListedIn(idx)
  /\ file' \in Tried(matches)
  /\ UNCHANGED <<index, indexWork, lock, pc, idx, op, todo, work, importing, sent, result,
                 skipped, damaged, lastKey>>

(* open(".lock", O_CREAT | O_EXCL): an update begins, unless the lock is      *)
(* there; then it is refused, and the connection ends.                        *)
Begin(o, ix) ==
  IF lock
  THEN Close /\ UNCHANGED <<lock, op, todo, result>>
  ELSE /\ lock' = TRUE
       /\ pc' = "locked"
       /\ op' = o
       /\ idx' = ix
       /\ todo' = IF o.kind = "rekey" THEN PairsIn(ix) ELSE {}
       /\ result' = "none"
       /\ UNCHANGED importing

(* add_entry: the name of the entry is random, one that was never used.       *)
NewName(i) == file[i] = Absent /\ i \notin ListedIn(index)
Add(i, c) ==
  /\ pc = "open"
  /\ NewName(i)
  /\ Begin(Update("add", i, c), idx)
  /\ UNCHANGED <<file, index, indexWork, work, sent, skipped, damaged, lastKey>>

(* edit: what is stored is the first match of the search, also if the client  *)
(* was shown another one because the first could not be loaded.               *)
Edit(i, shown, c) ==
  /\ pc = "open"
  /\ {i, shown} \subseteq ListedIn(idx)
  /\ Opens(file[shown], idx.key)
  /\ Begin(Update("edit", i, c), idx)
  /\ file' \in Tried({i})
  /\ UNCHANGED <<index, indexWork, work, sent, skipped, damaged, lastKey>>

(* delete_entry: the only match has to be one that can be loaded.             *)
Delete(i) ==
  /\ pc = "open"
  /\ i \in ListedIn(idx)
  /\ file' \in Tried({i})
  /\ \/ /\ Opens(file[i], idx.key)
        /\ Begin(Update("delete", i, file[i].content), idx)
     \/ Close /\ UNCHANGED <<lock, op, todo, result>>
  /\ UNCHANGED <<index, indexWork, work, sent, skipped, damaged, lastKey>>

(* update_kek: the same index for another password.                           *)
Passwd(p) ==
  /\ pc = "open"
  /\ Begin([kind |-> "passwd", password |-> p], idx)
  /\ UNCHANGED <<file, index, indexWork, work, sent, skipped, damaged, lastKey>>

(* rekey_db: a new database key is drawn for the index and every entry.       *)
Rekey ==
  /\ pc = "open"
  /\ lastKey < MaxKey
  /\ lastKey' = IF lock THEN lastKey ELSE lastKey + 1
  /\ Begin([kind |-> "rekey", key |-> lastKey + 1], idx)
  /\ UNCHANGED <<file, index, indexWork, work, sent, skipped, damaged>>

(* import_db: entries are added one by one, each to an index loaded anew, and *)
(* the first that fails ends the import.                                      *)
Import ==
  /\ pc = "open"
  /\ pc' = "importing"
  /\ importing' = TRUE
  /\ UNCHANGED <<file, index, indexWork, lock, idx, op, todo, work, sent, result, skipped, damaged,
                 lastKey>>

ImportNext(i, c) ==
  /\ pc = "importing"
  /\ NewName(i)
  /\ Begin(Update("add", i, c), index)
  /\ UNCHANGED <<file, index, indexWork, work, sent, skipped, damaged, lastKey>>

-------------------------------------------------------------------------------
\* The steps of an update

\* Mutant of Listing: the entry stays under the values it had.
ListingAdds(ids, i, terms) ==
  [t \in Terms |-> IF t \in terms THEN ids[t] \cup {i} ELSE ids[t]]

\* update_index as the sets of entries under each value: the entry goes under
\* the values it has and nowhere else.
Listing(ids, i, terms) ==
  [t \in Terms |-> IF t \in terms THEN ids[t] \cup {i} ELSE ids[t] \ {i}]

\* What is written to index.work: always from the index in memory.
NewIndex ==
  [password |-> IF op.kind = "passwd" THEN op.password ELSE idx.password,
   key |-> IF op.kind = "rekey" THEN op.key ELSE idx.key,
   ids |-> CASE op.kind \in {"add", "edit"} -> Listing(idx.ids, op.id, TermsOf[op.content])
             [] op.kind = "delete" -> Listing(idx.ids, op.id, {})
             [] op.kind \in {"rekey", "passwd"} -> idx.ids]

\* The entries that are left in neither the old nor the new state if the update
\* ends here: the one whose file changed already, or those with the new key.
Updating == IF pc = "renamed" /\ op.kind \in {"edit", "delete"} THEN {op.id} ELSE {}
Rekeyed ==
  IF pc \in {"indexed", "stored"} /\ op.kind = "rekey"
  THEN {i \in Ids : Opens(file[i], op.key)} ELSE {}
HalfDone == Updating \cup Rekeyed

Failed ==
  /\ pc' = "failed"
  /\ result' = "failed"
  /\ op' = NoOp
  /\ todo' = {}
  /\ indexWork' = Absent
  /\ work' = Absent
  /\ skipped' = {}
  /\ damaged' = damaged \cup HalfDone

WriteIndex(good) ==
  /\ pc = "locked"
  /\ IF good
     THEN /\ indexWork' = NewIndex
          /\ pc' = "indexed"
          /\ UNCHANGED <<op, todo, work, result, skipped, damaged>>
     ELSE Failed
  /\ UNCHANGED <<file, index, lock, idx, importing, sent, lastKey>>

(* store_entry writes the new file beside the old one.                        *)
StoreEntry(good) ==
  /\ pc = "indexed"
  /\ op.kind \in {"add", "edit"}
  /\ IF good
     THEN /\ work' = [id |-> op.id, key |-> idx.key, content |-> op.content]
          /\ pc' = "stored"
          /\ UNCHANGED <<op, todo, indexWork, result, skipped, damaged>>
     ELSE Failed
  /\ UNCHANGED <<file, index, lock, idx, importing, sent, lastKey>>

(* The rename of the file that was stored, of an entry or in a rekey of one   *)
(* entry after the other.                                                     *)
RenameEntry(good) ==
  /\ pc = "stored"
  /\ IF good
     THEN /\ file' = [file EXCEPT ![work.id] = [key |-> work.key, content |-> work.content]]
          /\ work' = Absent
          /\ pc' = IF op.kind = "rekey" THEN "indexed" ELSE "renamed"
          /\ skipped' = skipped \ {work.id}
          /\ UNCHANGED <<op, todo, indexWork, result, damaged>>
     ELSE Failed /\ UNCHANGED file
  /\ UNCHANGED <<index, lock, idx, importing, sent, lastKey>>

Unlink(good) ==
  /\ pc = "indexed"
  /\ op.kind = "delete"
  /\ IF good
     THEN /\ file' = [file EXCEPT ![op.id] = Absent]
          /\ pc' = "renamed"
          /\ UNCHANGED <<op, todo, work, indexWork, result, skipped, damaged>>
     ELSE Failed /\ UNCHANGED file
  /\ UNCHANGED <<index, lock, idx, importing, sent, lastKey>>

(* rekey_db goes through the entries under each value.  One that cannot be    *)
(* loaded is passed over, and the rekey goes on as if it was done: it is      *)
(* damaged, or was written with the new key when it was met under another     *)
(* value, or is sound and the load fails now.                                 *)
RekeySkip(p) ==
  /\ pc = "indexed" /\ op.kind = "rekey"
  /\ p \in todo
  /\ file' \in Tried({p[2]})
  /\ todo' = todo \ {p}
  /\ skipped' = IF Opens(file[p[2]], idx.key) THEN skipped \cup {p[2]} ELSE skipped
  /\ UNCHANGED <<index, indexWork, lock, pc, idx, op, work, importing, sent, result, damaged,
                 lastKey>>

RekeyStore(p, good) ==
  /\ pc = "indexed" /\ op.kind = "rekey"
  /\ p \in todo
  /\ Opens(file[p[2]], idx.key)
  /\ IF good
     THEN /\ work' = [id |-> p[2], key |-> op.key, content |-> file[p[2]].content]
          /\ todo' = todo \ {p}
          /\ pc' = "stored"
          /\ UNCHANGED <<op, indexWork, result, skipped, damaged>>
     ELSE Failed
  /\ UNCHANGED <<file, index, lock, idx, importing, sent, lastKey>>

\* Mutant of ReadyToSwap: the new key takes over before every entry has it.
ReadyToSwapEarly ==
  \/ pc = "renamed"
  \/ pc = "indexed" /\ op.kind \in {"passwd", "rekey"}

(* The last step: index.work becomes the index.                               *)
ReadyToSwap ==
  \/ pc = "renamed"
  \/ pc = "indexed" /\ op.kind = "passwd"
  \/ pc = "indexed" /\ op.kind = "rekey" /\ todo = {}
RenameIndex(good) ==
  /\ ReadyToSwap
  /\ IF good
     THEN /\ index' = indexWork
          /\ indexWork' = Absent
          /\ pc' = "finish"
          /\ skipped' = {}
          /\ damaged' = IF pc = "renamed" THEN damaged \ {op.id} ELSE damaged \cup skipped
          /\ UNCHANGED <<op, todo, work, result>>
     ELSE Failed /\ UNCHANGED index
  /\ UNCHANGED <<file, lock, idx, importing, sent, lastKey>>

\* Mutant of Unlock: the result of the steps is not looked at.
UnlockAnyway ==
  /\ pc \in {"finish", "failed"}
  /\ lock' = FALSE
  /\ op' = NoOp
  /\ IF importing
     THEN pc' = "importing" /\ UNCHANGED <<idx, importing>>
     ELSE Close
  /\ result' = "ok"
  /\ UNCHANGED <<file, index, indexWork, todo, work, sent, skipped, damaged, lastKey>>

(* close and unlink(".lock"), and the reply.  Only an import goes on.         *)
Unlock ==
  /\ pc \in {"finish", "failed"}
  /\ lock' = FALSE
  /\ op' = NoOp
  /\ IF pc = "finish" /\ importing
     THEN pc' = "importing" /\ UNCHANGED <<idx, importing>>
     ELSE Close
  /\ result' = IF pc = "finish" THEN "ok" ELSE result
  /\ UNCHANGED <<file, index, indexWork, todo, work, sent, skipped, damaged, lastKey>>

-------------------------------------------------------------------------------
\* Export

(* export_db holds the lock while it sends every listed entry, once each; the *)
(* first that cannot be loaded ends it.  Whether it returns TRUE is settled   *)
(* before it asks for the lock: that the index lists something is enough when *)
(* the lock is there, and nothing is sent.                                    *)
Export ==
  /\ pc = "open"
  /\ IF ListedIn(idx) = {}
     THEN Close /\ UNCHANGED <<lock, todo>>
     ELSE /\ lock' = TRUE
          /\ pc' = IF lock THEN "exported" ELSE "exporting"
          /\ todo' = IF lock THEN {} ELSE PairsIn(idx)
          /\ UNCHANGED <<idx, importing>>
  /\ UNCHANGED <<file, index, indexWork, op, work, sent, result, skipped, damaged, lastKey>>

ExportStops == Close /\ lock' = FALSE /\ todo' = {} /\ sent' = {}

\* Mutant of ExportNext: an entry that cannot be loaded is passed over.
ExportSkipping(i) ==
  /\ pc = "exporting"
  /\ \E p \in todo : p[2] = i
  /\ file' \in Tried({i})
  /\ sent' = IF Opens(file[i], idx.key) THEN sent \cup {i} ELSE sent
  /\ todo' = {p \in todo : p[2] # i}
  /\ UNCHANGED <<pc, idx, importing, lock, index, indexWork, op, work, result, skipped, damaged,
                 lastKey>>

(* The next entry of the export, or its end.                                  *)
ExportNext(i) ==
  /\ pc = "exporting"
  /\ \E p \in todo : p[2] = i
  /\ file' \in Tried({i})
  /\ \/ /\ Opens(file[i], idx.key)
        /\ sent' = sent \cup {i}
        /\ todo' = {p \in todo : p[2] # i}
        /\ UNCHANGED <<pc, idx, importing, lock>>
     \/ ExportStops
  /\ UNCHANGED <<index, indexWork, op, work, result, skipped, damaged, lastKey>>

ExportEnd ==
  /\ pc = "exporting" /\ todo = {}
  /\ lock' = FALSE
  /\ pc' = "exported"
  /\ UNCHANGED <<file, index, indexWork, idx, op, todo, work, importing, sent, result, skipped,
                 damaged, lastKey>>

(* The status that export_db returned is sent, and the connection ends.       *)
ExportReply ==
  /\ pc = "exported"
  /\ Close
  /\ sent' = {}
  /\ UNCHANGED <<file, index, indexWork, lock, op, todo, work, result, skipped, damaged, lastKey>>

-------------------------------------------------------------------------------
\* The server stops, starts again, and someone removes the lock it left

Crash ==
  /\ pc # "down"
  /\ pc' = "down"
  /\ idx' = NoIndex /\ op' = NoOp /\ todo' = {} /\ importing' = FALSE /\ sent' = {}
  /\ indexWork' = Absent /\ work' = Absent
  /\ skipped' = {}
  /\ damaged' = damaged \cup HalfDone
  /\ UNCHANGED <<file, index, lock, result, lastKey>>

Restart ==
  /\ pc = "down"
  /\ pc' = "idle"
  /\ UNCHANGED <<file, index, indexWork, lock, idx, op, todo, work, importing, sent, result,
                 skipped, damaged, lastKey>>

RemoveLock ==
  /\ pc \in {"down", "idle"}
  /\ lock
  /\ lock' = FALSE
  /\ UNCHANGED <<file, index, indexWork, pc, idx, op, todo, work, importing, sent, result,
                 skipped, damaged, lastKey>>

-------------------------------------------------------------------------------
Steps ==
  \/ \E good \in BOOLEAN :
       \/ WriteIndex(good)
       \/ StoreEntry(good)
       \/ RenameEntry(good)
       \/ Unlink(good)
       \/ \E p \in Terms \X Ids : RekeyStore(p, good)
       \/ RenameIndex(good)
  \/ \E p \in Terms \X Ids : RekeySkip(p)
  \/ Unlock
  \/ \E i \in Ids : ExportNext(i)
  \/ ExportEnd
  \/ ExportReply

Requests ==
  \/ \E p \in Passwords : Connect(p) \/ Passwd(p)
  \/ Disconnect
  \/ \E matches \in SUBSET Ids : Find(matches)
  \/ \E i \in Ids, c \in Contents : Add(i, c) \/ ImportNext(i, c)
  \/ \E i \in Ids, shown \in Ids, c \in Contents : Edit(i, shown, c)
  \/ \E i \in Ids : Delete(i)
  \/ Rekey
  \/ Import
  \/ Export

Next == Steps \/ Requests \/ Crash \/ Restart \/ RemoveLock

Spec == Init /\ [][Next]_vars

-------------------------------------------------------------------------------
\* Properties

(* The index can always be opened, and so can, with the key it holds, every   *)
(* entry it lists, but for those that an update was cut or failed for         *)
(* half-way, and those that a rekey passed over because their load failed.    *)
ListedOpens ==
  /\ index \in Indexes
  /\ \A i \in ListedIn(index) \ (damaged \cup HalfDone) : Opens(file[i], index.key)

(* An entry is found under its values and no others, whatever became of the   *)
(* updates before, unless one of the entry itself was cut half-way or a rekey *)
(* left it behind.                                                            *)
FoundUnderItsValues ==
  \A i \in ListedIn(index) \ (damaged \cup Updating) :
    file[i] \in Sealed => TermsAt(index, i) = TermsOf[file[i].content]

(* An export that returns TRUE has sent every entry the index lists, or found *)
(* the lock and has sent none: never some of them.                            *)
ExportIsComplete == pc = "exported" => sent = IF lock THEN {} ELSE ListedIn(index)

\* What a client that knows the password finds: while the database key is being
\* changed no one looks, and either key will be that of the database.
KeysInUse ==
  {index.key} \cup (IF pc \in {"indexed", "stored"} /\ op.kind = "rekey" THEN {op.key} ELSE {})
Nothing == [name |-> "nothing"]
Found(i) ==
  IF i \in ListedIn(index) /\ file[i] \in Sealed /\ file[i].key \in KeysInUse
  THEN file[i].content ELSE Nothing
Store == [i \in Ids |-> Found(i)]
Phase ==
  IF pc = "finish" \/ (pc = "renamed" /\ op.kind # "add") THEN "applied"
  ELSE IF pc \in {"locked", "indexed", "stored", "renamed"} THEN "asked"
  ELSE "none"
Pending == IF Phase = "none" THEN NoOp ELSE op
Promise == INSTANCE CredentialStore WITH
  Searchable <- {c \in Contents : TermsOf[c] # {}},
  NoUpdate <- NoOp,
  store <- Store,
  password <- index.password,
  pending <- Pending,
  phase <- Phase

(* With all its files, steps, failures and stops the database does what       *)
(* CredentialStore promises: each update takes effect at one moment or not at *)
(* all, one that returns ok did, and nothing is lost but by a change of key.  *)
ImplementsStore == Promise!Spec
===============================================================================
