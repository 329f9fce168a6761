------------------------------ MODULE KeysDbProofs ------------------------------
(***************************************************************************)
(* Proofs about KeysDb, for any entries, values, contents, passwords and   *)
(* number of keys: the index and what it lists open, entries are found     *)
(* under their values, exports are complete, and the files implement       *)
(* CredentialStore.                                                        *)
(***************************************************************************)
EXTENDS KeysDb, TLAPS

Working == {"locked", "indexed", "stored", "renamed", "finish"}

\* An update under way has the lock, an index in memory and a description.
UpdateKnown ==
    /\ pc \in Working => lock /\ op \in Ops /\ idx \in Indexes
    /\ pc \notin Working => op = NoOp
    /\ pc \in {"open", "exporting", "importing"} => idx \in Indexes
    /\ pc \in {"exporting", "failed"} => lock

\* The index in memory is the one on disk until the last rename.
MemoryIsCurrent ==
    pc \in {"open", "exporting", "locked", "indexed", "stored", "renamed"} => idx = index

\* What is renamed is what was meant to be written.
WorkIsReady ==
    /\ pc \in {"indexed", "stored", "renamed"} => indexWork = NewIndex
    /\ pc = "stored" => work \in Stored
    /\ pc = "stored" /\ op.kind \in {"add", "edit"} =>
         work = [id |-> op.id, key |-> idx.key, content |-> op.content]
    /\ pc = "stored" /\ op.kind = "rekey" =>
         /\ work.key = op.key
         /\ Opens(file[work.id], idx.key)
         /\ work.content = file[work.id].content

\* How far the update of one entry is.
EntryInStep ==
    /\ pc = "stored" => op.kind \in {"add", "edit", "rekey"}
    /\ pc = "renamed" => op.kind \in {"add", "edit", "delete"}
    /\ pc \in {"locked", "indexed", "stored", "renamed"} =>
         /\ op.kind = "add" => op.id \notin ListedIn(index)
         /\ op.kind \in {"edit", "delete"} => op.id \in ListedIn(index)
    /\ pc = "renamed" =>
         /\ op.kind \in {"add", "edit"} =>
              Opens(file[op.id], idx.key) /\ file[op.id].content = op.content
         /\ op.kind = "delete" => file[op.id] = Absent

\* Keys are drawn once: nothing was written with a key that is yet to come.
KeysAreOld ==
    /\ index.key <= lastKey
    /\ \A i \in Ids : file[i] \in Sealed => file[i].key <= lastKey
    /\ pc \in Working /\ op.kind = "rekey" => op.key <= lastKey
    /\ pc \in {"locked", "indexed", "stored"} /\ op.kind = "rekey" => idx.key < op.key
    /\ pc = "locked" /\ op.kind = "rekey" => \A i \in Ids : ~ Opens(file[i], op.key)

\* A rekey comes to every listed entry that is still written with the old key,
\* or knows that it passed over it.
RekeyIsThorough ==
    pc \in {"locked", "indexed", "stored"} /\ op.kind = "rekey" =>
      \A i \in ListedIn(index) : Opens(file[i], idx.key) =>
        \/ \E t \in Terms : <<t, i>> \in todo
        \/ pc = "stored" /\ work.id = i
        \/ i \in skipped

\* An export comes to every listed entry.
ExportIsThorough ==
    pc = "exporting" =>
      /\ sent \subseteq ListedIn(index)
      /\ todo \subseteq PairsIn(index)
      /\ \A i \in ListedIn(index) : i \in sent \/ \E t \in Terms : <<t, i>> \in todo

\* Nothing is sent outside of exports, and what was is known when one returns.
SentOnlyInExport ==
    /\ pc \notin {"exporting", "exported"} => sent = {}
    /\ pc = "exported" /\ lock => sent = {}
    /\ pc = "exported" /\ ~ lock => sent = ListedIn(index)

\* The inductive invariant.
DbInv ==
    /\ TypeOK
    /\ UpdateKnown
    /\ MemoryIsCurrent
    /\ WorkIsReady
    /\ EntryInStep
    /\ KeysAreOld
    /\ RekeyIsThorough
    /\ ExportIsThorough
    /\ SentOnlyInExport
    /\ ListedOpens
    /\ FoundUnderItsValues

-----------------------------------------------------------------------------
\* What is no file, no index and no update is none of them.
LEMMA Distinct ==
    /\ Absent \notin Sealed /\ Blank \notin Sealed /\ Absent # Blank
    /\ Blank \notin Indexes /\ Absent \notin Indexes /\ NoIndex \notin Indexes
    /\ Absent \notin Stored
    /\ NoOp \notin Ops /\ NoOp.kind = "none"
    /\ Nothing \notin Sealed
<1>1. \A f \in Sealed : DOMAIN f = {"key", "content"}
  BY DEF Sealed
<1>2. \A f \in Indexes : DOMAIN f = {"password", "key", "ids"}
  BY DEF Indexes
<1>3. \A f \in Stored : DOMAIN f = {"id", "key", "content"}
  BY DEF Stored
<1>4. \A f \in Ops : f.kind \in {"add", "edit", "delete", "rekey", "passwd"}
  BY DEF Ops
<1>5. /\ DOMAIN Absent = {"name"} /\ DOMAIN Blank = {"name"}
      /\ DOMAIN NoIndex = {"name"} /\ DOMAIN Nothing = {"name"}
  BY DEF Absent, Blank, NoIndex, Nothing
<1>6. Absent.name = "absent" /\ Blank.name = "blank" /\ NoOp.kind = "none"
  BY DEF Absent, Blank, NoOp
<1> QED
  BY <1>1, <1>2, <1>3, <1>4, <1>5, <1>6

\* The fields of a file, an index and an update.
LEMMA Fields ==
    /\ \A f \in Sealed : f.key \in Keys /\ f.content \in Contents
    /\ \A f \in Stored : f.id \in Ids /\ f.key \in Keys /\ f.content \in Contents
    /\ \A x \in Indexes :
         x.password \in Passwords /\ x.key \in Keys /\ x.ids \in [Terms -> SUBSET Ids]
    /\ \A o \in Ops :
         /\ o.kind \in {"add", "edit", "delete", "rekey", "passwd"}
         /\ o.kind \in {"add", "edit", "delete"} => o.id \in Ids /\ o.content \in Contents
         /\ o.kind = "rekey" => o.key \in Keys
         /\ o.kind = "passwd" => o.password \in Passwords
BY DEF Sealed, Stored, Indexes, Ops

\* Loading files leaves what they hold as it is.
LEMMA TouchedKeeps ==
    ASSUME TypeOK, NEW S
    PROVE  /\ Touched(S) \in [Ids -> Sealed \cup {Absent, Blank}]
           /\ \A i \in Ids :
                /\ Touched(S)[i] \in Sealed <=> file[i] \in Sealed
                /\ file[i] \in Sealed => Touched(S)[i] = file[i]
                /\ \A k : Opens(Touched(S)[i], k) <=> Opens(file[i], k)
BY Distinct DEF TypeOK, Touched, Opens

\* An update writes an index.
LEMMA NewIndexIsIndex ==
    ASSUME TypeOK, UpdateKnown, pc \in Working
    PROVE  NewIndex \in Indexes
<1>1. op \in Ops /\ idx \in Indexes
  BY DEF UpdateKnown
<1>2. op.kind \in {"add", "edit"} => Listing(idx.ids, op.id, TermsOf[op.content]) \in [Terms -> SUBSET Ids]
  BY <1>1, Fields DEF Listing
<1>3. op.kind = "delete" => Listing(idx.ids, op.id, {}) \in [Terms -> SUBSET Ids]
  BY <1>1, Fields DEF Listing
<1>4. op.kind \in {"rekey", "passwd"} => idx.ids \in [Terms -> SUBSET Ids]
  BY <1>1, Fields
<1>5. NewIndex.ids \in [Terms -> SUBSET Ids]
  BY <1>1, <1>2, <1>3, <1>4, Fields DEF NewIndex
<1> QED
  BY <1>1, <1>5, Fields DEF NewIndex, Indexes

-----------------------------------------------------------------------------
\* What a step leaves of a file that is sealed.
SealedKept ==
    \A i \in Ids :
      /\ file'[i] \in Sealed <=> file[i] \in Sealed
      /\ file[i] \in Sealed => file'[i] = file[i]

\* Loads keep it, those that fail too.
LEMMA TriedKeeps ==
    ASSUME TypeOK, NEW S, file' \in Tried(S)
    PROVE  SealedKept /\ file' \in [Ids -> Sealed \cup {Absent, Blank}]
<1>1. PICK opened : file' = Touched(opened)
  BY DEF Tried
<1> QED
  BY <1>1, TouchedKeeps DEF SealedKept

\* A step that keeps the index and what is sealed keeps what is said of them,
\* if it counts what it leaves half done.
LEMMA ContentsKept ==
    ASSUME DbInv, index' = index, SealedKept,
           damaged \cup HalfDone \subseteq damaged' \cup HalfDone',
           damaged \cup Updating \subseteq damaged' \cup Updating'
    PROVE  ListedOpens' /\ FoundUnderItsValues'
<1>1. \A k : \A i \in Ids : Opens(file[i], k) => Opens(file'[i], k)
  BY DEF SealedKept, Opens
<1>2. ListedIn(index)' = ListedIn(index)
  BY DEF ListedIn
<1>3. \A i : TermsAt(index, i)' = TermsAt(index, i)
  BY DEF TermsAt
<1>4. ListedIn(index) \subseteq Ids
  BY DEF ListedIn
<1>5. ListedOpens'
  <2>1. index' \in Indexes
    BY DEF DbInv, ListedOpens
  <2>2. \A i \in ListedIn(index) \ (damaged' \cup HalfDone') : Opens(file'[i], index.key)
    BY <1>1, <1>4 DEF DbInv, ListedOpens
  <2> QED
    BY <2>1, <2>2, <1>2 DEF ListedOpens, Opens
<1>6. FoundUnderItsValues'
  BY <1>2, <1>3, <1>4 DEF DbInv, FoundUnderItsValues, SealedKept
<1> QED
  BY <1>5, <1>6

\* A step that begins no update and ends none, and loads files at most.
LEMMA QuietKeeps ==
    ASSUME DbInv, pc \notin Working, pc' \notin Working,
           index' = index, indexWork' = indexWork, op' = op, work' = work, damaged' = damaged,
           lastKey' = lastKey, result' = result, SealedKept, TypeOK'
    PROVE  /\ WorkIsReady' /\ EntryInStep' /\ KeysAreOld' /\ RekeyIsThorough'
           /\ ListedOpens' /\ FoundUnderItsValues'
<1>1. HalfDone = {} /\ HalfDone' = {} /\ Updating = {}
  BY DEF HalfDone, Updating, Rekeyed, Working
<1>2. ListedOpens' /\ FoundUnderItsValues'
  BY <1>1, ContentsKept
<1>3. WorkIsReady' /\ EntryInStep' /\ RekeyIsThorough'
  BY DEF WorkIsReady, EntryInStep, RekeyIsThorough, Working
<1>4. KeysAreOld'
  BY DEF DbInv, KeysAreOld, Working, SealedKept
<1> QED
  BY <1>2, <1>3, <1>4

\* The connection opens and closes, and finds entries.
LEMMA ConnectionKeeps ==
    ASSUME DbInv,
           \/ \E p \in Passwords : Connect(p)
           \/ Disconnect \/ Import \/ Restart \/ RemoveLock
           \/ \E matches \in SUBSET Ids : Find(matches)
    PROVE  DbInv'
<1>1. SealedKept
  BY TriedKeeps DEF DbInv, Connect, Disconnect, Close, Import, Restart, RemoveLock, Find, SealedKept
<1>2. TypeOK'
  BY TriedKeeps, Distinct DEF DbInv, TypeOK, ListedOpens, Connect, Disconnect, Close, Import, Restart, RemoveLock, Find
<1>3. /\ pc \notin Working /\ pc' \notin Working
      /\ index' = index /\ indexWork' = indexWork /\ op' = op /\ work' = work /\ damaged' = damaged
      /\ lastKey' = lastKey /\ result' = result
  BY DEF Connect, Disconnect, Close, Import, Restart, RemoveLock, Find, Working
<1>4. UpdateKnown' /\ MemoryIsCurrent'
  BY DEF DbInv, ListedOpens, UpdateKnown, MemoryIsCurrent, Connect, Disconnect, Close, Import, Restart,
         RemoveLock, Find, Working
<1>5. ExportIsThorough' /\ SentOnlyInExport'
  BY DEF DbInv, ExportIsThorough, SentOnlyInExport, Connect, Disconnect, Close, Import, Restart,
         RemoveLock, Find
<1> QED
  BY <1>1, <1>2, <1>3, <1>4, <1>5, QuietKeeps DEF DbInv

\* What ends an update half-way: a failure, or the server stops.
LEMMA CutKeeps ==
    ASSUME DbInv, pc' \in {"failed", "down"}, op' = NoOp, todo' = {}, indexWork' = Absent,
           work' = Absent, skipped' = {}, damaged' = damaged \cup HalfDone,
           UNCHANGED <<file, index, lock, lastKey>>,
           idx' \in {idx, NoIndex}, importing' \in BOOLEAN, sent' = {},
           result' \in {"none", "ok", "failed"},
           pc' = "failed" => lock
    PROVE  DbInv'
<1>1. HalfDone \subseteq Ids
  BY Fields DEF HalfDone, Updating, Rekeyed, DbInv, UpdateKnown, Working
<1>2. TypeOK'
  BY <1>1 DEF DbInv, TypeOK
<1>3. UpdateKnown' /\ MemoryIsCurrent' /\ ExportIsThorough' /\ SentOnlyInExport'
  BY DEF DbInv, UpdateKnown, MemoryIsCurrent, ExportIsThorough, SentOnlyInExport, Working
<1>4. WorkIsReady' /\ EntryInStep' /\ RekeyIsThorough' /\ KeysAreOld'
  BY DEF DbInv, WorkIsReady, EntryInStep, RekeyIsThorough, KeysAreOld, Working
<1>5. SealedKept
  BY DEF SealedKept
<1>6. ListedOpens' /\ FoundUnderItsValues'
  BY <1>5, ContentsKept DEF HalfDone
<1> QED
  BY <1>2, <1>3, <1>4, <1>6 DEF DbInv

\* The pairs of an index name every entry it lists.
LEMMA PairsNameAll ==
    ASSUME NEW x
    PROVE  /\ PairsIn(x) \subseteq Terms \X Ids
           /\ \A i \in ListedIn(x) : \E t \in Terms : <<t, i>> \in PairsIn(x)
           /\ \A p \in PairsIn(x) : p[2] \in ListedIn(x)
BY DEF PairsIn, ListedIn

\* A step that begins an update, or is refused the lock.
Begins(o) ==
    /\ pc \in {"open", "importing"}
    /\ o \in Ops
    /\ Begin(o, index)
    /\ UNCHANGED <<index, indexWork, work, sent, skipped, damaged>>
    /\ file' \in [Ids -> Sealed \cup {Absent, Blank}]
    /\ lastKey' \in Keys /\ lastKey <= lastKey'
    /\ o.kind = "add" => o.id \notin ListedIn(index)
    /\ o.kind \in {"edit", "delete"} => o.id \in ListedIn(index)
    /\ ~ lock /\ o.kind = "rekey" => o.key = lastKey' /\ lastKey < lastKey'

\* The lock is taken and an update begins, or it is refused.
LEMMA BeginKeeps ==
    ASSUME DbInv, NEW o, Begins(o), SealedKept
    PROVE  DbInv'
<1> USE DEF Begins
<1>1. index \in Indexes
  BY DEF DbInv, ListedOpens
<1>2. TypeOK'
  BY <1>1, PairsNameAll DEF Begin, Close, DbInv, TypeOK
<1>3. HalfDone = {} /\ HalfDone' = {} /\ Updating = {}
  BY DEF HalfDone, Updating, Rekeyed, Begin, Close
<1>4. ListedOpens' /\ FoundUnderItsValues'
  BY <1>3, ContentsKept
<1>5. ExportIsThorough' /\ SentOnlyInExport' /\ EntryInStep' /\ WorkIsReady'
  BY DEF DbInv, ExportIsThorough, SentOnlyInExport, EntryInStep, WorkIsReady, Begin, Close, ListedIn
<1>6. UpdateKnown' /\ MemoryIsCurrent'
  BY <1>1 DEF DbInv, UpdateKnown, MemoryIsCurrent, Begin, Close, Working
<1>7. \A i \in Ids : file'[i] \in Sealed => file'[i].key <= lastKey
  BY DEF DbInv, KeysAreOld, SealedKept
<1>8. /\ lastKey \in Nat /\ lastKey' \in Nat /\ index.key \in Nat
      /\ \A i \in Ids : file'[i] \in Sealed => file'[i].key \in Nat
  BY <1>1, Fields, KeysAssumption DEF DbInv, TypeOK, Keys
<1>9. index.key <= lastKey
  BY DEF DbInv, KeysAreOld
<1>10. KeysAreOld'
  <2>1. index'.key <= lastKey'
    BY <1>8, <1>9
  <2>2. \A i \in Ids : file'[i] \in Sealed => file'[i].key <= lastKey'
    BY <1>7, <1>8
  <2>3. CASE lock
    BY <2>1, <2>2, <2>3 DEF KeysAreOld, Begin, Close, Working
  <2>4. CASE ~ lock
    <3>1. pc' = "locked" /\ op' = o /\ idx' = index
      BY <2>4 DEF Begin
    <3>2. o.kind = "rekey" => o.key <= lastKey' /\ index.key < o.key
      BY <2>4, <1>8, <1>9
    <3>3. o.kind = "rekey" => \A i \in Ids : ~ (file'[i] \in Sealed /\ file'[i].key = o.key)
      BY <2>4, <1>7, <1>8
    <3> QED
      BY <2>1, <2>2, <3>1, <3>2, <3>3 DEF KeysAreOld, Opens
  <2> QED
    BY <2>3, <2>4
<1>11. RekeyIsThorough'
  BY PairsNameAll DEF RekeyIsThorough, Begin, Close, ListedIn
<1> QED
  BY <1>2, <1>4, <1>5, <1>6, <1>10, <1>11 DEF DbInv

\* A request that changes the database begins an update, or ends the connection.
LEMMA RequestBegins ==
    ASSUME DbInv,
           \/ \E p \in Passwords : Passwd(p)
           \/ \E i \in Ids, c \in Contents : Add(i, c) \/ ImportNext(i, c)
           \/ \E i \in Ids, shown \in Ids, c \in Contents : Edit(i, shown, c)
           \/ \E i \in Ids : Delete(i)
           \/ Rekey
    PROVE  \/ \E o : Begins(o) /\ SealedKept
           \/ /\ pc = "open" /\ Close
              /\ UNCHANGED <<index, indexWork, lock, op, todo, work, sent, result, skipped, damaged,
                             lastKey>>
              /\ SealedKept /\ file' \in [Ids -> Sealed \cup {Absent, Blank}]
<1>1. /\ index \in Indexes
      /\ pc = "open" => idx = index
      /\ lastKey \in Keys /\ lastKey \in Nat /\ file \in [Ids -> Sealed \cup {Absent, Blank}]
  BY KeysAssumption DEF DbInv, ListedOpens, MemoryIsCurrent, TypeOK, Keys
<1>2. ASSUME NEW p \in Passwords, Passwd(p) PROVE \E o : Begins(o) /\ SealedKept
  <2>1. [kind |-> "passwd", password |-> p] \in Ops
    BY DEF Ops
  <2>2. SealedKept
    BY <1>2 DEF Passwd, SealedKept
  <2>3. Begins([kind |-> "passwd", password |-> p])
    BY <1>1, <1>2, <2>1 DEF Passwd, Begins, Begin
  <2> QED
    BY <2>2, <2>3
<1>3. ASSUME NEW i \in Ids, NEW c \in Contents, Add(i, c) \/ ImportNext(i, c)
      PROVE  \E o : Begins(o) /\ SealedKept
  <2>1. Update("add", i, c) \in Ops /\ Update("add", i, c).id = i /\ Update("add", i, c).kind = "add"
    BY DEF Ops, Update
  <2>2. SealedKept
    BY <1>3 DEF Add, ImportNext, SealedKept
  <2>3. Begins(Update("add", i, c))
    BY <1>1, <1>3, <2>1 DEF Add, ImportNext, NewName, Begins, Begin
  <2> QED
    BY <2>2, <2>3
<1>4. ASSUME NEW i \in Ids, NEW shown \in Ids, NEW c \in Contents, Edit(i, shown, c)
      PROVE  \E o : Begins(o) /\ SealedKept
  <2>1. Update("edit", i, c) \in Ops /\ Update("edit", i, c).id = i /\ Update("edit", i, c).kind = "edit"
    BY DEF Ops, Update
  <2>2. SealedKept /\ file' \in [Ids -> Sealed \cup {Absent, Blank}]
    BY <1>4, TriedKeeps DEF Edit, DbInv
  <2>3. /\ pc = "open" /\ i \in ListedIn(index)
        /\ Begin(Update("edit", i, c), index)
        /\ UNCHANGED <<index, indexWork, work, sent, skipped, damaged, lastKey>>
    BY <1>1, <1>4 DEF Edit, Begin
  <2>4. Begins(Update("edit", i, c))
    BY <1>1, <2>1, <2>2, <2>3 DEF Begins
  <2> QED
    BY <2>2, <2>4
<1>5. ASSUME NEW i \in Ids, Delete(i), Opens(file[i], idx.key),
             Begin(Update("delete", i, file[i].content), idx)
      PROVE  \E o : Begins(o) /\ SealedKept
  <2>1. SealedKept /\ file' \in [Ids -> Sealed \cup {Absent, Blank}]
    BY <1>5, TriedKeeps DEF Delete, DbInv
  <2>2. LET u == Update("delete", i, file[i].content)
        IN  u \in Ops /\ u.id = i /\ u.kind = "delete"
    BY <1>5, Fields DEF Ops, Update, Opens
  <2>3. Begins(Update("delete", i, file[i].content))
    BY <1>1, <1>5, <2>1, <2>2 DEF Delete, Begins, Begin
  <2> QED
    BY <2>1, <2>3
<1>6. ASSUME NEW i \in Ids, Delete(i), Close /\ UNCHANGED <<lock, op, todo, result>>
      PROVE  /\ pc = "open" /\ Close
             /\ UNCHANGED <<index, indexWork, lock, op, todo, work, sent, result, skipped, damaged,
                            lastKey>>
             /\ SealedKept /\ file' \in [Ids -> Sealed \cup {Absent, Blank}]
  <2>1. SealedKept /\ file' \in [Ids -> Sealed \cup {Absent, Blank}]
    BY <1>6, TriedKeeps DEF Delete, DbInv
  <2> QED
    BY <1>6, <2>1 DEF Delete
<1>7. ASSUME Rekey PROVE \E o : Begins(o) /\ SealedKept
  <2>1. /\ lastKey + 1 \in Keys
        /\ [kind |-> "rekey", key |-> lastKey + 1] \in Ops
    BY <1>1, <1>7, KeysAssumption DEF Rekey, Ops, Keys
  <2>2. SealedKept
    BY <1>7 DEF Rekey, SealedKept
  <2>3. lastKey' \in Keys /\ lastKey <= lastKey' /\ (~ lock => lastKey' = lastKey + 1 /\ lastKey < lastKey')
    BY <1>1, <1>7, <2>1 DEF Rekey
  <2>4. Begins([kind |-> "rekey", key |-> lastKey + 1])
    BY <1>1, <1>7, <2>1, <2>3 DEF Rekey, Begins, Begin
  <2> QED
    BY <2>2, <2>4
<1>8. ASSUME NEW i \in Ids, Delete(i)
      PROVE  \/ Opens(file[i], idx.key) /\ Begin(Update("delete", i, file[i].content), idx)
             \/ Close /\ UNCHANGED <<lock, op, todo, result>>
  BY <1>8 DEF Delete
<1> QED
  BY <1>2, <1>3, <1>4, <1>5, <1>6, <1>7, <1>8

\* The requests that change the database keep the invariant.
LEMMA RequestKeeps ==
    ASSUME DbInv,
           \/ \E p \in Passwords : Passwd(p)
           \/ \E i \in Ids, c \in Contents : Add(i, c) \/ ImportNext(i, c)
           \/ \E i \in Ids, shown \in Ids, c \in Contents : Edit(i, shown, c)
           \/ \E i \in Ids : Delete(i)
           \/ Rekey
    PROVE  DbInv'
<1>1. CASE \E o : Begins(o) /\ SealedKept
  BY <1>1, BeginKeeps
<1>2. CASE /\ pc = "open" /\ Close
           /\ UNCHANGED <<index, indexWork, lock, op, todo, work, sent, result, skipped, damaged,
                          lastKey>>
           /\ SealedKept /\ file' \in [Ids -> Sealed \cup {Absent, Blank}]
  <2>1. TypeOK'
    BY <1>2 DEF Close, DbInv, TypeOK
  <2>2. UpdateKnown' /\ MemoryIsCurrent' /\ ExportIsThorough' /\ SentOnlyInExport'
    BY <1>2 DEF Close, DbInv, UpdateKnown, MemoryIsCurrent, ExportIsThorough, SentOnlyInExport, Working
  <2> QED
    BY <1>2, <2>1, <2>2, QuietKeeps DEF Close, DbInv, Working
<1> QED
  BY <1>1, <1>2, RequestBegins

-----------------------------------------------------------------------------
\* Any step of an update may fail.
LEMMA FailureKeeps ==
    ASSUME DbInv, pc \in {"locked", "indexed", "stored", "renamed"}, Failed,
           UNCHANGED <<file, index, lock, idx, importing, sent, lastKey>>
    PROVE  DbInv'
<1>1. sent' = {} /\ lock /\ importing' \in BOOLEAN
  BY DEF DbInv, SentOnlyInExport, UpdateKnown, Working, TypeOK
<1> QED
  BY <1>1, CutKeeps DEF Failed

\* index.work is written with the new index, or the update fails.
LEMMA WriteIndexKeeps ==
    ASSUME DbInv, NEW good \in BOOLEAN, WriteIndex(good)
    PROVE  DbInv'
<1>1. CASE ~ good
  BY <1>1, FailureKeeps DEF WriteIndex
<1>2. CASE good
  <2>1. /\ pc = "locked" /\ pc' = "indexed" /\ indexWork' = NewIndex
        /\ UNCHANGED <<file, index, lock, idx, op, todo, work, importing, sent, result, skipped,
                       damaged, lastKey>>
    BY <1>2 DEF WriteIndex
  <2>2. TypeOK'
    BY <2>1, NewIndexIsIndex DEF DbInv, TypeOK, Working
  <2>3. UpdateKnown' /\ MemoryIsCurrent' /\ ExportIsThorough' /\ SentOnlyInExport'
    BY <2>1 DEF DbInv, UpdateKnown, MemoryIsCurrent, ExportIsThorough, SentOnlyInExport, Working
  <2>4. NewIndex' = NewIndex
    BY <2>1 DEF NewIndex
  <2>5. WorkIsReady'
    BY <2>1, <2>4 DEF WorkIsReady
  <2>6. EntryInStep' /\ KeysAreOld' /\ RekeyIsThorough'
    BY <2>1 DEF DbInv, EntryInStep, KeysAreOld, RekeyIsThorough, ListedIn, Working, Opens
  <2>7. HalfDone \subseteq HalfDone' /\ Updating = {} /\ SealedKept
    BY <2>1 DEF HalfDone, Updating, Rekeyed, SealedKept
  <2> QED
    BY <2>1, <2>2, <2>3, <2>5, <2>6, <2>7, ContentsKept DEF DbInv
<1> QED
  BY <1>1, <1>2

\* The work file of an added or edited entry is written, or the update fails.
LEMMA StoreEntryKeeps ==
    ASSUME DbInv, NEW good \in BOOLEAN, StoreEntry(good)
    PROVE  DbInv'
<1>1. CASE ~ good
  BY <1>1, FailureKeeps DEF StoreEntry
<1>2. CASE good
  <2>1. /\ pc = "indexed" /\ pc' = "stored" /\ op.kind \in {"add", "edit"}
        /\ work' = [id |-> op.id, key |-> idx.key, content |-> op.content]
        /\ UNCHANGED <<file, index, indexWork, lock, idx, op, todo, importing, sent, result, skipped,
                       damaged, lastKey>>
    BY <1>2 DEF StoreEntry
  <2>2. work' \in Stored
    BY <2>1, Fields DEF DbInv, UpdateKnown, Working, Stored
  <2>3. TypeOK'
    BY <2>1, <2>2 DEF DbInv, TypeOK
  <2>4. UpdateKnown' /\ MemoryIsCurrent' /\ ExportIsThorough' /\ SentOnlyInExport'
    BY <2>1 DEF DbInv, UpdateKnown, MemoryIsCurrent, ExportIsThorough, SentOnlyInExport, Working
  <2>5. NewIndex' = NewIndex
    BY <2>1 DEF NewIndex
  <2>6. WorkIsReady'
    BY <2>1, <2>2, <2>5 DEF DbInv, WorkIsReady
  <2>7. EntryInStep' /\ KeysAreOld' /\ RekeyIsThorough'
    BY <2>1 DEF DbInv, EntryInStep, KeysAreOld, RekeyIsThorough, ListedIn, Working, Opens
  <2>8. HalfDone = {} /\ Updating = {} /\ SealedKept
    BY <2>1 DEF HalfDone, Updating, Rekeyed, SealedKept
  <2> QED
    BY <2>1, <2>3, <2>4, <2>6, <2>7, <2>8, ContentsKept DEF DbInv
<1> QED
  BY <1>1, <1>2

\* The file of one entry is replaced, in an update of it or in a rekey.
LEMMA RenameEntryKeeps ==
    ASSUME DbInv, NEW good \in BOOLEAN, RenameEntry(good)
    PROVE  DbInv'
<1>1. CASE ~ good
  BY <1>1, FailureKeeps DEF RenameEntry
<1>2. CASE good
  <2> DEFINE f == [key |-> work.key, content |-> work.content]
  <2>1. /\ pc = "stored" /\ file' = [file EXCEPT ![work.id] = f] /\ work' = Absent
        /\ pc' = IF op.kind = "rekey" THEN "indexed" ELSE "renamed"
        /\ skipped' = skipped \ {work.id}
        /\ UNCHANGED <<index, indexWork, lock, idx, op, todo, importing, sent, result, damaged,
                       lastKey>>
    BY <1>2 DEF RenameEntry
  <2>2. /\ work \in Stored /\ work.id \in Ids /\ f \in Sealed
        /\ f.key = work.key /\ f.content = work.content
    BY <2>1, Fields DEF DbInv, WorkIsReady, Sealed
  <2>3. /\ file'[work.id] = f
        /\ \A i \in Ids \ {work.id} : file'[i] = file[i]
        /\ file' \in [Ids -> Sealed \cup {Absent, Blank}]
    BY <2>1, <2>2 DEF DbInv, TypeOK
  <2>4. TypeOK'
    BY <2>1, <2>3 DEF DbInv, TypeOK
  <2>5. UpdateKnown' /\ MemoryIsCurrent' /\ ExportIsThorough' /\ SentOnlyInExport'
    BY <2>1 DEF DbInv, UpdateKnown, MemoryIsCurrent, ExportIsThorough, SentOnlyInExport, Working
  <2>6. NewIndex' = NewIndex
    BY <2>1 DEF NewIndex
  <2>7. WorkIsReady'
    BY <2>1, <2>6 DEF DbInv, WorkIsReady
  <2>8. op \in Ops /\ idx \in Indexes /\ index \in Indexes /\ idx = index
    BY <2>1 DEF DbInv, UpdateKnown, MemoryIsCurrent, ListedOpens, Working
  <2>9. /\ lastKey \in Nat /\ index.key \in Nat
        /\ op.kind = "rekey" => op.key \in Nat
    BY <2>8, Fields, KeysAssumption DEF DbInv, TypeOK, Keys
  <2>10. CASE op.kind # "rekey"
    <3>1. /\ op.kind \in {"add", "edit"} /\ pc' = "renamed"
          /\ work.id = op.id /\ f.key = idx.key /\ f.content = op.content
      BY <2>1, <2>2, <2>10 DEF DbInv, EntryInStep, WorkIsReady
    <3>2. EntryInStep'
      BY <2>1, <2>2, <2>3, <3>1 DEF DbInv, EntryInStep, Opens, ListedIn
    <3>3. KeysAreOld'
      BY <2>1, <2>3, <2>8, <3>1 DEF DbInv, KeysAreOld
    <3>4. RekeyIsThorough'
      BY <3>1 DEF RekeyIsThorough
    <3>5. /\ HalfDone = {} /\ Updating = {} /\ Updating' = HalfDone' /\ ListedIn(index)' = ListedIn(index) /\ ListedIn(index) \subseteq Ids
          /\ HalfDone' = IF op.kind = "edit" THEN {op.id} ELSE {}
          /\ op.kind = "add" => op.id \notin ListedIn(index)
          /\ \A i : TermsAt(index, i)' = TermsAt(index, i)
      BY <2>1, <3>1 DEF HalfDone, Updating, Rekeyed, ListedIn, DbInv, EntryInStep, TermsAt
    <3>6. \A i \in ListedIn(index) \ (damaged' \cup HalfDone') :
            i \in ListedIn(index) \ (damaged \cup HalfDone) /\ file'[i] = file[i]
      BY <2>1, <2>3, <3>1, <3>5
    <3>7. ListedOpens' /\ FoundUnderItsValues'
      BY <2>1, <2>8, <3>5, <3>6 DEF DbInv, ListedOpens, FoundUnderItsValues, Opens, HalfDone
    <3> QED
      BY <2>4, <2>5, <2>7, <3>2, <3>3, <3>4, <3>7 DEF DbInv
  <2>11. CASE op.kind = "rekey"
    <3>1. /\ pc' = "indexed" /\ f.key = op.key
          /\ Opens(file[work.id], idx.key) /\ f.content = file[work.id].content
          /\ idx.key < op.key /\ op.key <= lastKey
      BY <2>1, <2>2, <2>11 DEF DbInv, WorkIsReady, KeysAreOld, Working
    <3>2. EntryInStep'
      BY <2>1, <2>11, <3>1 DEF DbInv, EntryInStep, ListedIn
    <3>3. KeysAreOld'
      BY <2>1, <2>2, <2>3, <2>11, <3>1 DEF DbInv, KeysAreOld, Working
    <3>4. RekeyIsThorough'
      <4>1. ~ Opens(file'[work.id], idx.key)
        BY <2>3, <2>8, <2>9, <2>11, <3>1 DEF Opens
      <4>2. ASSUME NEW i \in ListedIn(index), Opens(file'[i], idx.key)
            PROVE  (\E t \in Terms : <<t, i>> \in todo) \/ i \in skipped'
        <5>1. i \in Ids \ {work.id} /\ Opens(file[i], idx.key)
          BY <2>3, <4>1, <4>2 DEF ListedIn
        <5> QED
          BY <2>1, <2>11, <5>1 DEF DbInv, RekeyIsThorough
      <4> QED
        BY <2>1, <4>2 DEF RekeyIsThorough, ListedIn, Opens
    <3>5. /\ ListedIn(index)' = ListedIn(index) /\ ListedIn(index) \subseteq Ids
          /\ Updating = {} /\ Updating' = {}
          /\ HalfDone = {i \in Ids : Opens(file[i], op.key)}
          /\ HalfDone' = {i \in Ids : Opens(file'[i], op.key)}
          /\ \A i : TermsAt(index, i)' = TermsAt(index, i)
      BY <2>1, <2>11, <3>1 DEF HalfDone, Updating, Rekeyed, ListedIn, TermsAt, Opens
    <3>6. /\ work.id \in HalfDone'
          /\ \A i \in Ids \ {work.id} : i \in HalfDone' <=> i \in HalfDone
      BY <2>2, <2>3, <3>1, <3>5 DEF Opens
    <3>7. \A i \in ListedIn(index) \ (damaged' \cup HalfDone') :
            i \in ListedIn(index) \ (damaged \cup HalfDone) /\ file'[i] = file[i]
      BY <2>1, <2>3, <3>5, <3>6
    <3>8. ListedOpens'
      BY <2>1, <2>8, <3>5, <3>7 DEF DbInv, ListedOpens, Opens
    <3>9. \A i \in Ids : file'[i] \in Sealed => file[i] \in Sealed /\ file'[i].content = file[i].content
      BY <2>2, <2>3, <3>1 DEF Opens
    <3>10. FoundUnderItsValues'
      BY <2>1, <3>5, <3>9 DEF DbInv, FoundUnderItsValues
    <3> QED
      BY <2>4, <2>5, <2>7, <3>2, <3>3, <3>4, <3>8, <3>10 DEF DbInv
  <2> QED
    BY <2>10, <2>11
<1> QED
  BY <1>1, <1>2

\* The file of a deleted entry goes before the entry leaves the index.
LEMMA UnlinkKeeps ==
    ASSUME DbInv, NEW good \in BOOLEAN, Unlink(good)
    PROVE  DbInv'
<1>1. CASE ~ good
  BY <1>1, FailureKeeps DEF Unlink
<1>2. CASE good
  <2>1. /\ pc = "indexed" /\ pc' = "renamed" /\ op.kind = "delete"
        /\ file' = [file EXCEPT ![op.id] = Absent]
        /\ UNCHANGED <<index, indexWork, lock, idx, op, todo, work, importing, sent, result, skipped,
                       damaged, lastKey>>
    BY <1>2 DEF Unlink
  <2>2. /\ op \in Ops /\ op.id \in Ids /\ idx = index /\ index \in Indexes
        /\ op.id \in ListedIn(index)
    BY <2>1, Fields DEF DbInv, UpdateKnown, MemoryIsCurrent, ListedOpens, EntryInStep, Working
  <2>3. /\ file'[op.id] = Absent
        /\ \A i \in Ids \ {op.id} : file'[i] = file[i]
        /\ file' \in [Ids -> Sealed \cup {Absent, Blank}]
    BY <2>1, <2>2 DEF DbInv, TypeOK
  <2>4. TypeOK' /\ UpdateKnown' /\ MemoryIsCurrent' /\ ExportIsThorough' /\ SentOnlyInExport'
    BY <2>1, <2>3 DEF DbInv, TypeOK, UpdateKnown, MemoryIsCurrent, ExportIsThorough, SentOnlyInExport,
                      Working
  <2>5. NewIndex' = NewIndex
    BY <2>1 DEF NewIndex
  <2>6. WorkIsReady' /\ RekeyIsThorough'
    BY <2>1, <2>5 DEF DbInv, WorkIsReady, RekeyIsThorough
  <2>7. EntryInStep'
    BY <2>1, <2>2, <2>3 DEF EntryInStep
  <2>8. KeysAreOld'
    BY <2>1, <2>3, Distinct DEF DbInv, KeysAreOld
  <2>9. /\ HalfDone' = {op.id} /\ HalfDone = {} /\ Updating' = {op.id} /\ Updating = {}
        /\ ListedIn(index)' = ListedIn(index)
        /\ ListedIn(index) \subseteq Ids /\ \A i : TermsAt(index, i)' = TermsAt(index, i)
    BY <2>1 DEF HalfDone, Updating, Rekeyed, ListedIn, TermsAt
  <2>10. \A i \in ListedIn(index) \ (damaged' \cup HalfDone') :
           i \in ListedIn(index) \ (damaged \cup HalfDone) /\ file'[i] = file[i]
    BY <2>1, <2>3, <2>9
  <2>11. ListedOpens' /\ FoundUnderItsValues'
    BY <2>1, <2>2, <2>9, <2>10 DEF DbInv, ListedOpens, FoundUnderItsValues, Opens, HalfDone
  <2> QED
    BY <2>4, <2>6, <2>7, <2>8, <2>11 DEF DbInv
<1> QED
  BY <1>1, <1>2

\* A rekey goes past an entry that has the new key already, or cannot be loaded.
LEMMA RekeySkipKeeps ==
    ASSUME DbInv, NEW p \in Terms \X Ids, RekeySkip(p)
    PROVE  DbInv'
<1>1. /\ pc = "indexed" /\ pc' = "indexed" /\ op.kind = "rekey"
      /\ file' \in Tried({p[2]}) /\ todo' = todo \ {p}
      /\ skipped' = IF Opens(file[p[2]], idx.key) THEN skipped \cup {p[2]} ELSE skipped
      /\ UNCHANGED <<index, indexWork, lock, idx, op, work, importing, sent, result, damaged, lastKey>>
  BY DEF RekeySkip
<1>2. SealedKept /\ file' \in [Ids -> Sealed \cup {Absent, Blank}]
  BY <1>1, TriedKeeps DEF DbInv
<1>3. \A k : \A i \in Ids : Opens(file'[i], k) <=> Opens(file[i], k)
  BY <1>2 DEF SealedKept, Opens
<1>4. TypeOK' /\ UpdateKnown' /\ MemoryIsCurrent' /\ ExportIsThorough' /\ SentOnlyInExport'
  BY <1>1, <1>2 DEF DbInv, TypeOK, UpdateKnown, MemoryIsCurrent, ExportIsThorough, SentOnlyInExport,
                    Working
<1>5. NewIndex' = NewIndex
  BY <1>1 DEF NewIndex
<1>6. WorkIsReady' /\ EntryInStep'
  BY <1>1, <1>5 DEF DbInv, WorkIsReady, EntryInStep, ListedIn
<1>7. KeysAreOld'
  BY <1>1, <1>2 DEF DbInv, KeysAreOld, SealedKept
<1>8. RekeyIsThorough'
  <2>1. ASSUME NEW i \in ListedIn(index), Opens(file'[i], idx.key)
        PROVE  (\E t \in Terms : <<t, i>> \in todo') \/ i \in skipped'
    <3>1. i \in Ids /\ Opens(file[i], idx.key)
      BY <1>1, <1>3, <2>1 DEF ListedIn
    <3>2. (\E t \in Terms : <<t, i>> \in todo) \/ i \in skipped
      BY <1>1, <2>1, <3>1 DEF DbInv, RekeyIsThorough
    <3> QED
      BY <1>1, <3>1, <3>2
  <2> QED
    BY <1>1, <2>1 DEF RekeyIsThorough, ListedIn, Opens
<1>9. HalfDone' = HalfDone /\ Updating' = Updating
  BY <1>1, <1>3 DEF HalfDone, Updating, Rekeyed, Opens
<1>10. ListedOpens' /\ FoundUnderItsValues'
  BY <1>1, <1>2, <1>9, ContentsKept
<1> QED
  BY <1>4, <1>6, <1>7, <1>8, <1>10 DEF DbInv

\* A rekey writes an entry's work file with the new key, or fails.
LEMMA RekeyStoreKeeps ==
    ASSUME DbInv, NEW p \in Terms \X Ids, NEW good \in BOOLEAN, RekeyStore(p, good)
    PROVE  DbInv'
<1>1. CASE ~ good
  BY <1>1, FailureKeeps DEF RekeyStore
<1>2. CASE good
  <2>1. /\ pc = "indexed" /\ pc' = "stored" /\ op.kind = "rekey" /\ Opens(file[p[2]], idx.key)
        /\ work' = [id |-> p[2], key |-> op.key, content |-> file[p[2]].content]
        /\ todo' = todo \ {p}
        /\ UNCHANGED <<file, index, indexWork, lock, idx, op, importing, sent, result, skipped,
                       damaged, lastKey>>
    BY <1>2 DEF RekeyStore
  <2>2. op \in Ops /\ op.key \in Keys /\ file[p[2]].content \in Contents /\ p[2] \in Ids
    BY <2>1, Fields DEF DbInv, UpdateKnown, Working, Opens
  <2>3. /\ work' \in Stored /\ work'.id = p[2] /\ work'.key = op.key
        /\ work'.content = file[p[2]].content
    BY <2>1, <2>2 DEF Stored
  <2>4. TypeOK' /\ UpdateKnown' /\ MemoryIsCurrent' /\ ExportIsThorough' /\ SentOnlyInExport'
    BY <2>1, <2>3 DEF DbInv, TypeOK, UpdateKnown, MemoryIsCurrent, ExportIsThorough, SentOnlyInExport,
                      Working
  <2>5. NewIndex' = NewIndex
    BY <2>1 DEF NewIndex
  <2>6. WorkIsReady'
    BY <2>1, <2>3, <2>5 DEF DbInv, WorkIsReady, Opens
  <2>7. EntryInStep' /\ KeysAreOld'
    BY <2>1 DEF DbInv, EntryInStep, KeysAreOld, ListedIn, Working
  <2>8. RekeyIsThorough'
    <3>1. ASSUME NEW i \in ListedIn(index), Opens(file[i], idx.key), i # p[2]
          PROVE  (\E t \in Terms : <<t, i>> \in todo') \/ i \in skipped
      <4>1. (\E t \in Terms : <<t, i>> \in todo) \/ i \in skipped
        BY <2>1, <3>1 DEF DbInv, RekeyIsThorough
      <4> QED
        BY <2>1, <3>1, <4>1
    <3> QED
      BY <2>1, <2>3, <3>1 DEF RekeyIsThorough, ListedIn, Opens
  <2>9. HalfDone' = HalfDone /\ Updating' = Updating /\ SealedKept
    BY <2>1 DEF HalfDone, Updating, Rekeyed, Opens, SealedKept
  <2> QED
    BY <2>1, <2>4, <2>6, <2>7, <2>8, <2>9, ContentsKept DEF DbInv
<1> QED
  BY <1>1, <1>2

\* The lock is released and the request ends, or the import goes on.
LEMMA UnlockKeeps ==
    ASSUME DbInv, Unlock
    PROVE  DbInv'
<1>1. /\ pc' \in {"idle", "importing"} /\ op' = NoOp /\ lock' = FALSE
      /\ idx' = NoIndex \/ (pc = "finish" /\ pc' = "importing" /\ idx' = idx)
      /\ UNCHANGED <<file, index, indexWork, todo, work, sent, skipped, damaged, lastKey>>
  BY DEF Unlock, Close
<1>2. TypeOK'
  BY <1>1 DEF Unlock, Close, DbInv, TypeOK
<1>3. UpdateKnown' /\ MemoryIsCurrent' /\ ExportIsThorough' /\ SentOnlyInExport'
  BY <1>1 DEF Unlock, Close, DbInv, UpdateKnown, MemoryIsCurrent, ExportIsThorough, SentOnlyInExport,
              Working
<1>4. WorkIsReady' /\ EntryInStep' /\ RekeyIsThorough' /\ KeysAreOld'
  BY <1>1 DEF DbInv, WorkIsReady, EntryInStep, RekeyIsThorough, KeysAreOld, Working
<1>5. HalfDone = {} /\ Updating = {} /\ SealedKept
  BY <1>1 DEF HalfDone, Updating, Rekeyed, SealedKept, Unlock
<1>6. ListedOpens' /\ FoundUnderItsValues'
  BY <1>1, <1>5, ContentsKept
<1> QED
  BY <1>2, <1>3, <1>4, <1>6 DEF DbInv

\* The entries under each value after an update of entry i.
LEMMA ListingPuts ==
    ASSUME NEW x \in Indexes, NEW y \in Indexes, NEW i \in Ids, NEW terms \in SUBSET Terms,
           y.ids = Listing(x.ids, i, terms)
    PROVE  /\ TermsAt(y, i) = terms
           /\ \A j \in Ids \ {i} : TermsAt(y, j) = TermsAt(x, j)
           /\ i \in ListedIn(y) <=> terms # {}
           /\ \A j \in Ids \ {i} : j \in ListedIn(y) <=> j \in ListedIn(x)
<1>1. \A t \in Terms : y.ids[t] = IF t \in terms THEN x.ids[t] \cup {i} ELSE x.ids[t] \ {i}
  BY DEF Listing
<1>2. TermsAt(y, i) = terms /\ \A j \in Ids \ {i} : TermsAt(y, j) = TermsAt(x, j)
  BY <1>1 DEF TermsAt
<1>3. i \in ListedIn(y) <=> terms # {}
  BY <1>1 DEF ListedIn
<1>4. \A j \in Ids \ {i} : j \in ListedIn(y) <=> j \in ListedIn(x)
  BY <1>1 DEF ListedIn
<1> QED
  BY <1>2, <1>3, <1>4

\* The new index lists what was there, as it was, and the entry of the update.
LEMMA RenameIndexKeepsContents ==
    ASSUME DbInv, RenameIndex(TRUE)
    PROVE  ListedOpens' /\ FoundUnderItsValues'
<1>1. /\ pc \in {"indexed", "renamed"} /\ pc' = "finish" /\ index' = NewIndex
      /\ damaged' = IF pc = "renamed" THEN damaged \ {op.id} ELSE damaged \cup skipped
      /\ UNCHANGED <<file, lock, idx, op>>
  BY DEF RenameIndex, ReadyToSwap, DbInv, WorkIsReady
<1>2. /\ op \in Ops /\ index \in Indexes /\ idx = index /\ index' \in Indexes
      /\ HalfDone' = {} /\ Updating' = {}
  BY <1>1, NewIndexIsIndex DEF DbInv, UpdateKnown, MemoryIsCurrent, ListedOpens, Working, HalfDone,
                               Updating, Rekeyed
<1>3. ListedIn(index) \subseteq Ids /\ ListedIn(index') \subseteq Ids
  BY DEF ListedIn
<1>4. SUFFICES ASSUME NEW i \in ListedIn(index') \ damaged'
               PROVE  /\ Opens(file[i], index'.key)
                      /\ TermsAt(index', i) = TermsOf[file[i].content]
  BY <1>1, <1>2 DEF ListedOpens, FoundUnderItsValues, Opens, ListedIn, TermsAt
<1>5. CASE pc = "renamed"
  <2>1. op.kind \in {"add", "edit", "delete"} /\ op.id \in Ids /\ index'.key = index.key
    BY <1>1, <1>2, <1>5, Fields DEF DbInv, EntryInStep, NewIndex
  <2> DEFINE terms == IF op.kind = "delete" THEN {} ELSE TermsOf[op.content]
  <2>2. terms \in SUBSET Terms /\ index'.ids = Listing(index.ids, op.id, terms)
    BY <1>1, <1>2, <2>1, Fields, ContentsAssumption DEF NewIndex
  <2>3. CASE i = op.id
    <3>1. op.kind # "delete"
      BY <1>2, <2>1, <2>2, <2>3, ListingPuts
    <3> QED
      BY <1>2, <1>5, <2>1, <2>2, <2>3, <3>1, ListingPuts DEF DbInv, EntryInStep
  <2>4. CASE i # op.id
    <3>1. i \in ListedIn(index) /\ TermsAt(index', i) = TermsAt(index, i)
      BY <1>2, <1>3, <2>1, <2>2, <2>4, ListingPuts
    <3>2. i \notin damaged \cup HalfDone
      BY <1>1, <1>5, <2>4 DEF HalfDone, Updating, Rekeyed
    <3> QED
      BY <2>1, <3>1, <3>2 DEF DbInv, ListedOpens, FoundUnderItsValues, Opens, HalfDone
  <2> QED
    BY <2>3, <2>4
<1>6. CASE pc = "indexed" /\ op.kind = "passwd"
  <2>1. index'.ids = index.ids /\ index'.key = index.key
    BY <1>1, <1>2, <1>6 DEF NewIndex
  <2>2. i \in ListedIn(index) /\ TermsAt(index', i) = TermsAt(index, i)
    BY <2>1 DEF ListedIn, TermsAt
  <2>3. i \notin damaged \cup HalfDone
    BY <1>1, <1>6 DEF HalfDone, Updating, Rekeyed
  <2> QED
    BY <2>1, <2>2, <2>3 DEF DbInv, ListedOpens, FoundUnderItsValues, Opens, HalfDone
<1>7. CASE pc = "indexed" /\ op.kind = "rekey" /\ todo = {}
  <2>1. index'.ids = index.ids /\ index'.key = op.key
    BY <1>1, <1>2, <1>7 DEF NewIndex
  <2>2. i \in ListedIn(index) /\ i \in Ids /\ TermsAt(index', i) = TermsAt(index, i)
    BY <2>1 DEF ListedIn, TermsAt
  <2>3. ~ Opens(file[i], idx.key)
    BY <1>1, <1>7, <2>2 DEF DbInv, RekeyIsThorough
  <2>4. Opens(file[i], op.key)
    BY <1>1, <1>2, <1>7, <2>2, <2>3 DEF DbInv, ListedOpens, HalfDone, Updating, Rekeyed
  <2>5. TermsAt(index, i) = TermsOf[file[i].content]
    BY <1>1, <1>7, <2>2, <2>4 DEF DbInv, FoundUnderItsValues, Updating, Opens
  <2> QED
    BY <2>1, <2>2, <2>4, <2>5
<1> QED
  BY <1>5, <1>6, <1>7 DEF RenameIndex, ReadyToSwap

\* index.work takes the place of the index, or the update fails.
LEMMA RenameIndexKeeps ==
    ASSUME DbInv, NEW good \in BOOLEAN, RenameIndex(good)
    PROVE  DbInv'
<1>1. CASE ~ good
  BY <1>1, FailureKeeps DEF RenameIndex, ReadyToSwap
<1>2. CASE good
  <2>1. RenameIndex(TRUE)
    BY <1>2 DEF RenameIndex
  <2>2. /\ pc \in {"indexed", "renamed"} /\ pc' = "finish" /\ index' = NewIndex /\ indexWork' = Absent
        /\ skipped' = {}
        /\ damaged' = IF pc = "renamed" THEN damaged \ {op.id} ELSE damaged \cup skipped
        /\ UNCHANGED <<file, lock, idx, op, todo, work, importing, sent, result, lastKey>>
    BY <2>1 DEF RenameIndex, ReadyToSwap, DbInv, WorkIsReady
  <2>3. NewIndex \in Indexes
    BY <2>2, NewIndexIsIndex DEF DbInv, Working
  <2>4. TypeOK'
    BY <2>2, <2>3 DEF DbInv, TypeOK
  <2>5. /\ UpdateKnown' /\ MemoryIsCurrent' /\ ExportIsThorough' /\ SentOnlyInExport'
        /\ WorkIsReady' /\ EntryInStep' /\ RekeyIsThorough'
    BY <2>2 DEF DbInv, UpdateKnown, MemoryIsCurrent, ExportIsThorough, SentOnlyInExport, WorkIsReady,
                EntryInStep, RekeyIsThorough, Working
  <2>6. index'.key \in {index.key, op.key} /\ (index'.key = op.key => op.kind = "rekey" \/ op.key = index.key)
    BY <2>2 DEF NewIndex, DbInv, MemoryIsCurrent
  <2>7. KeysAreOld'
    BY <2>2, <2>6 DEF DbInv, KeysAreOld, Working
  <2> QED
    BY <2>1, <2>4, <2>5, <2>7, RenameIndexKeepsContents DEF DbInv
<1> QED
  BY <1>1, <1>2

\* An export sends the listed entries one by one, and what it returned.
LEMMA ExportKeeps ==
    ASSUME DbInv, Export \/ (\E i \in Ids : ExportNext(i)) \/ ExportEnd \/ ExportReply
    PROVE  DbInv'
<1>1. /\ index \in Indexes /\ pc \in {"open", "exporting", "exported"}
      /\ pc # "exported" => idx = index /\ idx \in Indexes
  BY DEF DbInv, ListedOpens, MemoryIsCurrent, Export, ExportNext, ExportEnd, ExportReply
<1>2. /\ pc' \in {"idle", "exporting", "exported"} /\ file' \in [Ids -> Sealed \cup {Absent, Blank}]
      /\ SealedKept
      /\ pc' = "idle" => idx' = NoIndex
      /\ UNCHANGED <<index, indexWork, op, work, result, skipped, damaged, lastKey>>
  <2>1. CASE Export \/ ExportEnd \/ ExportReply
    BY <2>1 DEF DbInv, TypeOK, Export, ExportEnd, ExportReply, Close, SealedKept
  <2>2. ASSUME NEW i \in Ids, ExportNext(i)
        PROVE  /\ pc' \in {"idle", "exporting", "exported"} /\ file' \in Tried({i})
               /\ pc' = "idle" => idx' = NoIndex
               /\ UNCHANGED <<index, indexWork, op, work, result, skipped, damaged, lastKey>>
    BY <2>2 DEF ExportNext, ExportStops, Close
  <2>3. ASSUME NEW i \in Ids, file' \in Tried({i})
        PROVE  file' \in [Ids -> Sealed \cup {Absent, Blank}] /\ SealedKept
    BY <2>3, TriedKeeps DEF DbInv
  <2> QED
    BY <2>1, <2>2, <2>3
<1>3. TypeOK' /\ UpdateKnown' /\ MemoryIsCurrent' /\ ExportIsThorough' /\ SentOnlyInExport'
  <2>1. CASE Export
    <3>1. TypeOK' /\ UpdateKnown' /\ MemoryIsCurrent' /\ SentOnlyInExport'
      <4>1. TypeOK'
        <5>1. todo' \subseteq Terms \X Ids /\ PairsIn(idx) \subseteq Terms \X Ids
          BY <2>1, PairsNameAll DEF DbInv, TypeOK, Export
        <5>2. CASE ListedIn(idx) = {}
          BY <1>2, <2>1, <5>1, <5>2 DEF DbInv, TypeOK, Export, Close
        <5>3. CASE ListedIn(idx) # {}
          <6>1. lock' = TRUE /\ pc' \in {"exporting", "exported"} /\ UNCHANGED <<idx, importing, sent>>
            BY <2>1, <5>3 DEF Export
          <6> QED
            BY <1>2, <5>1, <6>1 DEF DbInv, TypeOK
        <5> QED
          BY <5>2, <5>3
      <4>2. UpdateKnown' /\ MemoryIsCurrent'
        BY <1>1, <1>2, <2>1 DEF DbInv, UpdateKnown, MemoryIsCurrent, Export, Close, Working
      <4>3. SentOnlyInExport'
        BY <2>1 DEF DbInv, SentOnlyInExport, Export, Close
      <4> QED
        BY <4>1, <4>2, <4>3
    <3>2. ExportIsThorough'
      BY <1>1, <1>2, <2>1, PairsNameAll
         DEF DbInv, ExportIsThorough, SentOnlyInExport, Export, Close, ListedIn, PairsIn
    <3> QED
      BY <3>1, <3>2
  <2>2. ASSUME NEW i \in Ids, ExportNext(i)
        PROVE  TypeOK' /\ UpdateKnown' /\ MemoryIsCurrent' /\ ExportIsThorough' /\ SentOnlyInExport'
    <3>1. /\ todo \subseteq PairsIn(index) /\ i \in ListedIn(index)
          /\ \A j \in ListedIn(index) : j \in sent \/ \E t \in Terms : <<t, j>> \in todo
          /\ sent \subseteq ListedIn(index)
      BY <2>2, PairsNameAll DEF ExportNext, DbInv, ExportIsThorough
    <3>2. pc' \in {"idle", "exporting"}
      BY <2>2 DEF ExportNext, ExportStops, Close
    <3>3. TypeOK' /\ UpdateKnown' /\ MemoryIsCurrent' /\ SentOnlyInExport'
      <4>1. TypeOK'
        BY <1>1, <1>2, <2>2, <3>2 DEF DbInv, TypeOK, ExportNext, ExportStops, Close
      <4>2. UpdateKnown' /\ MemoryIsCurrent'
        <5>1. pc' = "exporting" => lock' = lock /\ idx' = idx
          BY <2>2 DEF ExportNext, ExportStops, Close
        <5>2. lock = TRUE /\ idx = index /\ idx \in Indexes /\ op' = NoOp
          BY <1>1, <1>2, <2>2 DEF ExportNext, DbInv, UpdateKnown, TypeOK, Working
        <5> QED
          BY <1>2, <3>2, <5>1, <5>2 DEF UpdateKnown, MemoryIsCurrent, Working
      <4>3. SentOnlyInExport'
        BY <2>2, <3>2 DEF DbInv, SentOnlyInExport, ExportNext, ExportStops, Close
      <4> QED
        BY <4>1, <4>2, <4>3
    <3>4. ExportIsThorough'
      <4>1. CASE pc' = "idle"
        BY <4>1 DEF ExportIsThorough
      <4>2. CASE pc' = "exporting"
        <5>1. sent' = sent \cup {i} /\ todo' = {p \in todo : p[2] # i}
          BY <2>2, <4>2 DEF ExportNext, ExportStops, Close
        <5>2. \A j \in ListedIn(index) : j \in sent' \/ \E t \in Terms : <<t, j>> \in todo'
          BY <3>1, <5>1
        <5> QED
          BY <1>2, <3>1, <5>1, <5>2 DEF ExportIsThorough, ListedIn, PairsIn
      <4> QED
        BY <3>2, <4>1, <4>2
    <3> QED
      BY <3>3, <3>4
  <2>3. CASE ExportEnd
    <3>1. sent = ListedIn(index)
      BY <2>3 DEF ExportEnd, DbInv, ExportIsThorough
    <3> QED
      BY <1>1, <1>2, <2>3, <3>1
         DEF DbInv, TypeOK, UpdateKnown, MemoryIsCurrent, ExportIsThorough, SentOnlyInExport, ExportEnd,
             Working, ListedIn
  <2>4. CASE ExportReply
    BY <1>1, <1>2, <2>4
       DEF DbInv, TypeOK, UpdateKnown, MemoryIsCurrent, ExportIsThorough, SentOnlyInExport, ExportReply,
           Close, Working
  <2> QED
    BY <2>1, <2>2, <2>3, <2>4
<1> QED
  BY <1>1, <1>2, <1>3, QuietKeeps DEF DbInv, Working

\* The server stops in any phase.
LEMMA CrashKeeps ==
    ASSUME DbInv, Crash
    PROVE  DbInv'
<1>1. result \in {"none", "ok", "failed"}
  BY DEF DbInv, TypeOK
<1> QED
  BY <1>1, CutKeeps DEF Crash

-----------------------------------------------------------------------------
\* The store of a first start: an index that lists nothing.
LEMMA InitInv == Init => DbInv
<1> SUFFICES ASSUME Init PROVE DbInv
  OBVIOUS
<1>1. index \in Indexes
  BY KeysAssumption DEF Init, Indexes, Keys
<1>2. lastKey \in Keys /\ index.key = lastKey /\ lastKey <= lastKey
  BY KeysAssumption DEF Init, Keys
<1>3. ListedIn(index) = {}
  BY DEF Init, ListedIn
<1>4. TypeOK
  BY <1>1, <1>2 DEF Init, TypeOK
<1>5. /\ UpdateKnown /\ MemoryIsCurrent /\ WorkIsReady /\ EntryInStep /\ RekeyIsThorough
      /\ ExportIsThorough /\ SentOnlyInExport
  BY DEF Init, UpdateKnown, MemoryIsCurrent, WorkIsReady, EntryInStep, RekeyIsThorough,
         ExportIsThorough, SentOnlyInExport, Working
<1>6. KeysAreOld
  BY <1>2, Distinct DEF Init, KeysAreOld, Working
<1>7. ListedOpens /\ FoundUnderItsValues
  BY <1>1, <1>3 DEF ListedOpens, FoundUnderItsValues
<1> QED
  BY <1>4, <1>5, <1>6, <1>7 DEF DbInv

\* Every step preserves the invariant.
LEMMA StepInv == DbInv /\ [Next]_vars => DbInv'
<1> SUFFICES ASSUME DbInv, [Next]_vars PROVE DbInv'
  OBVIOUS
<1>1. CASE UNCHANGED vars
  <2>1. TypeOK' /\ UpdateKnown' /\ MemoryIsCurrent'
    BY <1>1 DEF vars, DbInv, TypeOK, UpdateKnown, MemoryIsCurrent, Working
  <2>2. WorkIsReady'
    BY <1>1 DEF vars, DbInv, WorkIsReady, NewIndex, Opens
  <2>3. EntryInStep' /\ KeysAreOld' /\ RekeyIsThorough'
    BY <1>1 DEF vars, DbInv, EntryInStep, KeysAreOld, RekeyIsThorough, ListedIn, Opens, Working
  <2>4. ExportIsThorough' /\ SentOnlyInExport'
    BY <1>1 DEF vars, DbInv, ExportIsThorough, SentOnlyInExport, ListedIn, PairsIn
  <2>5. HalfDone' = HalfDone /\ Updating' = Updating /\ SealedKept
    BY <1>1 DEF vars, HalfDone, Updating, Rekeyed, Opens, SealedKept
  <2>6. ListedOpens' /\ FoundUnderItsValues'
    BY <1>1, <2>5, ContentsKept DEF vars
  <2> QED
    BY <2>1, <2>2, <2>3, <2>4, <2>6 DEF DbInv
<1>2. CASE Steps
  BY <1>2, WriteIndexKeeps, StoreEntryKeeps, RenameEntryKeeps, UnlinkKeeps, RekeyStoreKeeps,
     RekeySkipKeeps, RenameIndexKeeps, UnlockKeeps, ExportKeeps DEF Steps
<1>3. CASE Requests
  BY <1>3, ConnectionKeeps, RequestKeeps, ExportKeeps DEF Requests
<1>4. CASE Crash
  BY <1>4, CrashKeeps
<1>5. CASE Restart \/ RemoveLock
  BY <1>5, ConnectionKeeps
<1> QED
  BY <1>1, <1>2, <1>3, <1>4, <1>5 DEF Next

\* For any entries, values, contents and keys, every state the server and its
\* files reach, failures and stops included, satisfies the inductive invariant.
THEOREM InvCorrect == Spec => []DbInv
<1> QED
  BY InitInv, StepInv, PTL DEF Spec

(* The index opens whatever fails in update_db, rekey_db, update_kek,         *)
(* export_db or import_db and wherever the server stops, and so does every    *)
(* entry it lists, but for one whose own update was cut between its renames,  *)
(* those a cut rekey came to, and those whose load failed in a rekey.         *)
THEOREM ListedOpensCorrect == Spec => []ListedOpens
<1>1. DbInv => ListedOpens
  BY DEF DbInv
<1> QED
  BY <1>1, InvCorrect, PTL

(* update_index and the renames keep the values of an entry and its file      *)
(* together, but for an update of the entry that is cut between its renames.  *)
THEOREM FoundUnderItsValuesCorrect == Spec => []FoundUnderItsValues
<1>1. DbInv => FoundUnderItsValues
  BY DEF DbInv
<1> QED
  BY <1>1, InvCorrect, PTL

(* An export_db that returns TRUE has sent every entry, or none when the lock *)
(* was there: no failure leaves it with some of them and TRUE.                *)
THEOREM ExportIsCompleteCorrect == Spec => []ExportIsComplete
<1>1. DbInv => ExportIsComplete
  BY DEF DbInv, SentOnlyInExport, ExportIsComplete
<1> QED
  BY <1>1, InvCorrect, PTL

-------------------------------------------------------------------------------
(* KeysDb implements CredentialStore: every step of the server, every failure *)
(* of a write or a rename and every stop is a step of the promise or none.    *)

\* An entry that has lost its last value is not listed when its edit is done.
EditHides ==
    pc = "finish" /\ op.kind = "edit" /\ TermsOf[op.content] = {} => op.id \notin ListedIn(index)

\* Every step preserves it.
LEMMA EditHidesStep == DbInv /\ EditHides /\ [Next]_vars => EditHides'
<1> SUFFICES ASSUME DbInv, EditHides, [Next]_vars, pc' = "finish", op'.kind = "edit",
                    TermsOf[op'.content] = {}
             PROVE  op'.id \notin ListedIn(index')
  BY DEF EditHides, ListedIn
<1>1. CASE pc = "finish"
  <2>1. UNCHANGED <<index, op>>
    BY <1>1 DEF vars, Next, Steps, Requests, WriteIndex, StoreEntry, RenameEntry, Unlink, RekeyStore,
                RekeySkip, RenameIndex, ReadyToSwap, Unlock, ExportNext, ExportStops, ExportEnd,
                ExportReply, Connect, Passwd, Disconnect, Find, Add, ImportNext, Edit, Delete, Rekey, Import, Export, Crash,
                Restart, RemoveLock, Close, Failed
  <2> QED
    BY <1>1, <2>1 DEF EditHides
<1>2. CASE pc # "finish"
  <2>1. RenameIndex(TRUE)
    BY <1>2 DEF vars, Next, Steps, Requests, WriteIndex, StoreEntry, RenameEntry, Unlink, RekeyStore,
                RekeySkip, RenameIndex, Unlock, ExportNext, ExportStops, ExportEnd, ExportReply, Connect, Passwd, Disconnect, Find,
                Add, ImportNext, Edit, Delete, Rekey, Import, Export, Crash, Restart, RemoveLock, Close,
                Failed, Begin
  <2>2. /\ pc \in {"indexed", "renamed"} /\ index' = NewIndex /\ op' = op
    BY <2>1 DEF RenameIndex, ReadyToSwap, DbInv, WorkIsReady
  <2>3. op \in Ops /\ op.id \in Ids /\ idx \in Indexes /\ NewIndex \in Indexes
    BY <2>2, NewIndexIsIndex, Fields DEF DbInv, UpdateKnown, Working
  <2>4. NewIndex.ids = Listing(idx.ids, op.id, {})
    BY <2>2 DEF NewIndex
  <2> QED
    BY <2>2, <2>3, <2>4, ListingPuts
<1> QED
  BY <1>1, <1>2
-----------------------------------------------------------------------------
\* The phases, as they follow from what the server is doing.
LEMMA Phases ==
    /\ pc \notin Working => Phase = "none" /\ Pending = NoOp
    /\ pc \in Working => Phase # "none" /\ Pending = op
    /\ pc \in {"locked", "indexed", "stored"} => Phase = "asked"
    /\ pc = "renamed" /\ op.kind = "add" => Phase = "asked"
    /\ pc = "renamed" /\ op.kind # "add" => Phase = "applied"
    /\ pc = "finish" => Phase = "applied"
BY DEF Phase, Pending, Working

\* A client finds the same as long as the index, what is sealed and the keys
\* in use stay.
LEMMA StoreSame ==
    ASSUME index' = index, SealedKept, KeysInUse' = KeysInUse
    PROVE  Store' = Store
<1>1. ListedIn(index)' = ListedIn(index)
  BY DEF ListedIn
<1>2. \A i \in Ids : Found(i)' = Found(i)
  BY <1>1 DEF Found, SealedKept
<1> QED
  BY <1>2 DEF Store

\* A step that changes nothing a client sees.
LEMMA NothingSeen ==
    ASSUME Store' = Store, index'.password = index.password, Pending' = Pending, Phase' = Phase,
           result' = result
    PROVE  UNCHANGED Promise!vars
BY DEF Promise!vars

\* A step outside of updates, that loads files at most.
LEMMA QuietUnseen ==
    ASSUME pc \notin Working, pc' \notin Working, index' = index, result' = result, SealedKept
    PROVE  UNCHANGED Promise!vars
<1>1. KeysInUse' = KeysInUse
  BY DEF KeysInUse, Working
<1>2. Phase' = Phase /\ Pending' = Pending
  BY Phases DEF Phase, Pending, Working
<1> QED
  BY <1>1, <1>2, StoreSame, NothingSeen

\* The lock is taken: the update is asked for.
LEMMA BeginAsks ==
    ASSUME DbInv, NEW o, Begins(o), SealedKept
    PROVE  [Promise!Next]_(Promise!vars)
<1> USE DEF Begins
<1>1. CASE lock
  <2>1. pc \notin Working /\ pc' \notin Working /\ result' = result /\ index' = index
    BY <1>1 DEF Begin, Close, Working
  <2> QED
    BY <2>1, QuietUnseen
<1>2. CASE ~ lock
  <2>1. pc' = "locked" /\ op' = o /\ result' = "none" /\ index' = index
    BY <1>2 DEF Begin
  <2>2. KeysInUse' = KeysInUse
    BY <2>1 DEF KeysInUse
  <2>3. Store' = Store
    BY <2>1, <2>2, StoreSame
  <2>4. Phase = "none" /\ Phase' = "asked" /\ Pending' = o
    BY <2>1 DEF Phase, Pending
  <2>5. o \in Promise!Updates
    BY DEF Promise!Updates, Ops
  <2>6. Promise!Ask(o)
    BY <2>1, <2>3, <2>4 DEF Promise!Ask
  <2> QED
    BY <2>5, <2>6 DEF Promise!Next
<1> QED
  BY <1>1, <1>2

\* An update ends with a failure or a stop: what was written with a new key is
\* lost, nothing else.
LEMMA CutLoses ==
    ASSUME DbInv, pc \in Working, pc' \notin Working, UNCHANGED <<file, index>>,
           result' \in {result, "failed"}
    PROVE  Promise!Next
<1>1. Phase # "none" /\ Phase' = "none" /\ Pending' = NoOp
  BY DEF Phase, Pending, Working
<1>2. KeysInUse' = {index.key}
  BY DEF KeysInUse, Working
<1>3. CASE KeysInUse = {index.key}
  <2>1. Store' = Store
    BY <1>2, <1>3, StoreSame DEF SealedKept
  <2>2. Promise!Fail
    BY <1>1, <2>1 DEF Promise!Fail
  <2> QED
    BY <2>2 DEF Promise!Next
<1>4. CASE KeysInUse # {index.key}
  <2>1. pc \in {"indexed", "stored"} /\ op.kind = "rekey"
    BY <1>4 DEF KeysInUse
  <2>2. Phase = "asked" /\ Pending = op
    BY <2>1 DEF Phase, Pending
  <2> DEFINE lost == {i \in Ids : Found(i)' # Found(i)}
  <2>3. ListedIn(index)' = ListedIn(index) /\ index.key \in KeysInUse
    BY DEF ListedIn, KeysInUse
  <2>4. \A i \in Ids : Found(i)' = IF i \in lost THEN Nothing ELSE Found(i)
    BY <1>2, <2>3 DEF Found
  <2>5. Store' = Promise!Without(lost)
    BY <2>4 DEF Store, Promise!Without
  <2>6. Promise!Lose(lost)
    BY <1>1, <2>1, <2>2, <2>5 DEF Promise!Lose
  <2> QED
    BY <2>6 DEF Promise!Next
<1> QED
  BY <1>3, <1>4
-----------------------------------------------------------------------------
\* What has been written at the steps of an update.
LEMMA UpdateFacts ==
    ASSUME DbInv, pc \in Working
    PROVE  /\ op \in Ops /\ idx \in Indexes /\ index \in Indexes
           /\ pc # "finish" => idx = index
           /\ file \in [Ids -> Sealed \cup {Absent, Blank}]
BY DEF DbInv, UpdateKnown, MemoryIsCurrent, ListedOpens, TypeOK, Working

\* Writing index.work is not seen.
LEMMA WriteIndexUnseen ==
    ASSUME DbInv, WriteIndex(TRUE)
    PROVE  UNCHANGED Promise!vars
<1>1. pc = "locked" /\ pc' = "indexed" /\ UNCHANGED <<file, index, op, result>>
  BY DEF WriteIndex
<1>2. KeysInUse = {index.key} /\ KeysInUse' \in {{index.key}, {index.key, op.key}}
  BY <1>1 DEF KeysInUse
<1>3. KeysInUse' # KeysInUse => op.kind = "rekey"
  BY <1>1 DEF KeysInUse
<1>4. ASSUME NEW i \in Ids PROVE Found(i)' = Found(i)
  <2>1. op.kind = "rekey" => ~ Opens(file[i], op.key)
    BY <1>1 DEF DbInv, KeysAreOld
  <2>2. file[i] \in Sealed => (file[i].key \in KeysInUse' <=> file[i].key \in KeysInUse)
    BY <1>2, <1>3, <2>1 DEF Opens
  <2> QED
    BY <1>1, <2>2 DEF Found, ListedIn
<1>5. Store' = Store
  BY <1>4 DEF Store
<1> QED
  BY <1>1, <1>5, NothingSeen DEF Phase, Pending

\* Writing the work file of an entry is not seen.
LEMMA WorkUnseen ==
    ASSUME DbInv,
           \/ StoreEntry(TRUE)
           \/ \E p \in Terms \X Ids : RekeyStore(p, TRUE) \/ RekeySkip(p)
    PROVE  UNCHANGED Promise!vars
<1>1. /\ pc = "indexed" /\ pc' \in {"indexed", "stored"} /\ UNCHANGED <<index, op, result>>
  BY DEF StoreEntry, RekeyStore, RekeySkip
<1>2. SealedKept
  <2>1. ASSUME file' = file PROVE SealedKept
    BY <2>1 DEF SealedKept
  <2>2. ASSUME NEW p \in Terms \X Ids, RekeySkip(p) PROVE SealedKept
    <3>1. file' \in Tried({p[2]}) /\ TypeOK
      BY <2>2 DEF RekeySkip, DbInv
    <3> QED
      BY <3>1, TriedKeeps
  <2> QED
    BY <2>1, <2>2 DEF StoreEntry, RekeyStore
<1>3. KeysInUse' = KeysInUse
  BY <1>1 DEF KeysInUse
<1> QED
  BY <1>1, <1>2, <1>3, StoreSame, NothingSeen DEF Phase, Pending

\* The moment an edit takes effect; a new entry is not listed yet, and one that
\* gets a new key holds what it held.
LEMMA RenameEntrySeen ==
    ASSUME DbInv, RenameEntry(TRUE)
    PROVE  [Promise!Next]_(Promise!vars)
<1>1. /\ pc = "stored" /\ pc' = IF op.kind = "rekey" THEN "indexed" ELSE "renamed"
      /\ file' = [file EXCEPT ![work.id] = [key |-> work.key, content |-> work.content]]
      /\ UNCHANGED <<index, op, result, idx>>
  BY DEF RenameEntry
<1>2. /\ op \in Ops /\ idx = index /\ index \in Indexes
      /\ file \in [Ids -> Sealed \cup {Absent, Blank}]
      /\ op.kind \in {"add", "edit", "rekey"}
      /\ work \in Stored
  BY <1>1, UpdateFacts DEF Working, DbInv, EntryInStep, WorkIsReady
<1>3. work.id \in Ids /\ file'[work.id] = [key |-> work.key, content |-> work.content]
      /\ file'[work.id] \in Sealed
      /\ \A i \in Ids \ {work.id} : file'[i] = file[i]
  BY <1>1, <1>2, Fields DEF Sealed
<1>4. ListedIn(index)' = ListedIn(index)
  BY <1>1 DEF ListedIn
<1>5. CASE op.kind = "rekey"
  <2>1. KeysInUse' = KeysInUse /\ KeysInUse = {index.key, op.key}
    BY <1>1, <1>5 DEF KeysInUse
  <2>2. /\ work.key = op.key /\ file[work.id] \in Sealed /\ file[work.id].key = index.key
        /\ work.content = file[work.id].content
    BY <1>1, <1>2, <1>5 DEF DbInv, WorkIsReady, Opens
  <2>3. \A i \in Ids : Found(i)' = Found(i)
    BY <1>3, <1>4, <2>1, <2>2 DEF Found
  <2>4. Store' = Store
    BY <2>3 DEF Store
  <2> QED
    BY <1>1, <1>5, <2>4, NothingSeen DEF Phase, Pending
<1>6. CASE op.kind \in {"add", "edit"}
  <2>1. KeysInUse' = KeysInUse /\ KeysInUse = {index.key}
    BY <1>1, <1>6 DEF KeysInUse
  <2>2. work.id = op.id /\ work.key = index.key /\ work.content = op.content
    BY <1>1, <1>2, <1>6 DEF DbInv, WorkIsReady
  <2>3. \A i \in Ids \ {op.id} : Found(i)' = Found(i)
    BY <1>3, <1>4, <2>1, <2>2 DEF Found
  <2>4. CASE op.kind = "add"
    <3>1. op.id \notin ListedIn(index)
      BY <1>1, <2>4 DEF DbInv, EntryInStep
    <3>2. Store' = Store
      BY <1>4, <2>3, <3>1 DEF Store, Found
    <3> QED
      BY <1>1, <2>4, <3>2, NothingSeen DEF Phase, Pending
  <2>5. CASE op.kind = "edit"
    <3>1. op.id \in ListedIn(index)
      BY <1>1, <2>5 DEF DbInv, EntryInStep
    <3>2. Found(op.id)' = op.content
      BY <1>1, <1>3, <1>4, <2>1, <2>2, <3>1 DEF Found
    <3>3. Store' = [Store EXCEPT ![op.id] = op.content]
      BY <1>1, <2>3, <3>2 DEF Store
    <3>4. Phase = "asked" /\ Phase' = "applied" /\ Pending = op /\ Pending' = op
      BY <1>1, <2>5 DEF Phase, Pending
    <3>5. Promise!Apply
      BY <1>1, <2>5, <3>3, <3>4 DEF Promise!Apply, Promise!Put
    <3> QED
      BY <3>5 DEF Promise!Next
  <2> QED
    BY <1>6, <2>4, <2>5
<1> QED
  BY <1>2, <1>5, <1>6

\* The moment a deletion takes effect.
LEMMA UnlinkApplies ==
    ASSUME DbInv, Unlink(TRUE)
    PROVE  Promise!Next
<1>1. /\ pc = "indexed" /\ pc' = "renamed" /\ op.kind = "delete"
      /\ file' = [file EXCEPT ![op.id] = Absent]
      /\ UNCHANGED <<index, op, result>>
  BY DEF Unlink
<1>2. op.id \in Ids /\ file \in [Ids -> Sealed \cup {Absent, Blank}]
  BY <1>1, UpdateFacts, Fields DEF Working
<1>3. KeysInUse' = KeysInUse /\ ListedIn(index)' = ListedIn(index)
  BY <1>1 DEF KeysInUse, ListedIn
<1>4. Found(op.id)' = Nothing
  BY <1>1, <1>2, Distinct DEF Found
<1>5. \A i \in Ids \ {op.id} : Found(i)' = Found(i)
  BY <1>1, <1>2, <1>3 DEF Found
<1>6. Store' = [Store EXCEPT ![op.id] = Nothing]
  BY <1>1, <1>4, <1>5 DEF Store
<1>7. Phase = "asked" /\ Phase' = "applied" /\ Pending = op /\ Pending' = op
  BY <1>1 DEF Phase, Pending
<1>8. Promise!Apply
  BY <1>1, <1>6, <1>7 DEF Promise!Apply, Promise!Put
<1> QED
  BY <1>8 DEF Promise!Next
-----------------------------------------------------------------------------
\* The last rename: a new entry is found, a password or a key takes effect, and
\* an entry without a value to be found by is hidden.
LEMMA RenameIndexSeen ==
    ASSUME DbInv, RenameIndex(TRUE)
    PROVE  [Promise!Next]_(Promise!vars)
<1>1. /\ ReadyToSwap /\ pc \in {"indexed", "renamed"} /\ pc' = "finish" /\ index' = NewIndex
      /\ UNCHANGED <<file, idx, op, result>>
  BY DEF RenameIndex, ReadyToSwap, DbInv, WorkIsReady
<1>2. /\ op \in Ops /\ idx = index /\ index \in Indexes /\ NewIndex \in Indexes
      /\ file \in [Ids -> Sealed \cup {Absent, Blank}]
  BY <1>1, UpdateFacts, NewIndexIsIndex DEF Working, DbInv
<1>3. Phase' = "applied" /\ Pending = op /\ Pending' = op /\ KeysInUse' = {index'.key}
  BY <1>1 DEF Phase, Pending, KeysInUse
<1>4. CASE pc = "renamed"
  <2>1. op.kind \in {"add", "edit", "delete"} /\ op.id \in Ids
    BY <1>2, <1>4, Fields DEF DbInv, EntryInStep
  <2>2. index'.password = index.password /\ index'.key = index.key /\ KeysInUse = {index.key}
    BY <1>1, <1>2, <1>4, <2>1 DEF NewIndex, KeysInUse
  <2> DEFINE terms == IF op.kind = "delete" THEN {} ELSE TermsOf[op.content]
  <2>3. terms \in SUBSET Terms /\ index'.ids = Listing(index.ids, op.id, terms)
    BY <1>1, <1>2, <2>1, Fields, ContentsAssumption DEF NewIndex
  <2>4. /\ op.id \in ListedIn(index') <=> terms # {}
        /\ \A j \in Ids \ {op.id} : j \in ListedIn(index') <=> j \in ListedIn(index)
    <3>1. index' \in Indexes
      BY <1>1, <1>2
    <3> HIDE DEF terms
    <3> QED
      BY <1>2, <2>1, <2>3, <3>1, ListingPuts
  <2>5. \A j \in Ids \ {op.id} : Found(j)' = Found(j)
    <3>1. ListedIn(index)' = ListedIn(index')
      BY DEF ListedIn
    <3> QED
      BY <1>1, <1>3, <2>2, <2>4, <3>1 DEF Found
  <2>6. ListedIn(index)' = ListedIn(index')
    BY DEF ListedIn
  <2>7. CASE op.kind = "add"
    <3>1. op.id \notin ListedIn(index) /\ Opens(file[op.id], index.key) /\ file[op.id].content = op.content
      BY <1>2, <1>4, <2>7 DEF DbInv, EntryInStep
    <3>2. op.content \in Contents
      BY <1>2, <2>7, Fields
    <3>3. Found(op.id)' = IF terms # {} THEN op.content ELSE Nothing
      BY <1>1, <1>3, <2>2, <2>4, <2>6, <3>1 DEF Found, Opens
    <3>4. Found(op.id) = Nothing
      BY <3>1 DEF Found
    <3>5. Store' = IF TermsOf[op.content] # {} THEN [Store EXCEPT ![op.id] = op.content] ELSE Store
      BY <1>1, <2>1, <2>5, <2>7, <3>3, <3>4 DEF Store
    <3>6. Phase = "asked"
      BY <1>4, <2>7 DEF Phase
    <3>7. Promise!Apply
      BY <1>1, <1>3, <2>2, <2>7, <3>2, <3>5, <3>6 DEF Promise!Apply, Promise!Put
    <3> QED
      BY <3>7 DEF Promise!Next
  <2>8. CASE op.kind = "edit"
    <3>1. op.id \in ListedIn(index) /\ Opens(file[op.id], index.key) /\ file[op.id].content = op.content
      BY <1>2, <1>4, <2>8 DEF DbInv, EntryInStep
    <3>2. op.content \in Contents /\ Phase = "applied"
      BY <1>2, <1>4, <2>8, Fields DEF Phase
    <3>3. CASE terms # {}
      <4>1. Found(op.id)' = Found(op.id)
        BY <1>1, <1>3, <2>2, <2>4, <2>6, <3>1, <3>3 DEF Found, Opens
      <4>2. Store' = Store
        BY <1>1, <2>5, <4>1 DEF Store
      <4> QED
        BY <1>1, <1>3, <2>2, <3>2, <4>2, NothingSeen
    <3>4. CASE terms = {}
      <4>1. Found(op.id)' = Nothing
        BY <1>1, <2>4, <2>6, <3>4 DEF Found
      <4>2. Store' = [Store EXCEPT ![op.id] = Nothing]
        BY <1>1, <2>5, <4>1 DEF Store
      <4>3. Promise!Hide
        BY <1>1, <1>3, <2>2, <2>8, <3>2, <3>4, <4>2 DEF Promise!Hide, Promise!Put
      <4> QED
        BY <4>3 DEF Promise!Next
    <3> QED
      BY <3>3, <3>4
  <2>9. CASE op.kind = "delete"
    <3>1. file[op.id] = Absent
      BY <1>4, <2>9 DEF DbInv, EntryInStep
    <3>2. Found(op.id)' = Nothing /\ Found(op.id) = Nothing
      BY <1>1, <3>1, Distinct DEF Found
    <3>3. Store' = Store
      BY <1>1, <2>5, <3>2 DEF Store
    <3>4. Phase = "applied"
      BY <1>4, <2>9 DEF Phase
    <3> QED
      BY <1>1, <1>3, <2>2, <3>3, <3>4, NothingSeen
  <2> QED
    BY <2>1, <2>7, <2>8, <2>9
<1>5. CASE pc = "indexed"
  <2>1. op.kind \in {"passwd", "rekey"} /\ Phase = "asked"
    BY <1>1, <1>5 DEF ReadyToSwap, Phase
  <2>2. index'.ids = index.ids
    BY <1>1, <1>2, <2>1 DEF NewIndex
  <2>3. ListedIn(index)' = ListedIn(index)
    BY <2>2 DEF ListedIn
  <2>4. CASE op.kind = "passwd"
    <3>1. index'.password = op.password /\ index'.key = index.key /\ KeysInUse = {index.key}
      BY <1>1, <1>2, <2>4 DEF NewIndex, KeysInUse
    <3>2. Store' = Store
      BY <1>1, <1>3, <2>3, <3>1 DEF Store, Found
    <3>3. Promise!Apply
      BY <1>1, <1>3, <2>1, <2>4, <3>1, <3>2 DEF Promise!Apply
    <3> QED
      BY <3>3 DEF Promise!Next
  <2>5. CASE op.kind = "rekey"
    <3>1. index'.password = index.password /\ index'.key = op.key /\ KeysInUse = {index.key, op.key}
      BY <1>1, <1>2, <1>5, <2>5 DEF NewIndex, KeysInUse
    <3> DEFINE lost == {i \in Ids : Found(i)' # Found(i)}
    <3>2. \A i \in Ids : Found(i)' = IF i \in lost THEN Nothing ELSE Found(i)
      BY <1>1, <1>3, <2>3, <3>1 DEF Found
    <3>3. Store' = Promise!Without(lost) /\ lost \in SUBSET Ids
      BY <3>2 DEF Store, Promise!Without
    <3>4. op.kind # "add" /\ op.kind # "edit" /\ op.kind # "delete" /\ op.kind # "passwd"
      BY <2>5
    <3> HIDE DEF lost
    <3>5. Promise!Apply
      BY <1>1, <1>3, <2>1, <2>5, <3>1, <3>3, <3>4 DEF Promise!Apply
    <3> QED
      BY <3>5 DEF Promise!Next
  <2> QED
    BY <2>1, <2>4, <2>5
<1> QED
  BY <1>1, <1>4, <1>5

\* The end of an update that came through all its steps, or of one that failed.
LEMMA UnlockSeen ==
    ASSUME DbInv, EditHides, Unlock
    PROVE  [Promise!Next]_(Promise!vars)
<1>1. pc' \in {"idle", "importing"} /\ UNCHANGED <<file, index>>
  BY DEF Unlock, Close
<1>2. CASE pc = "failed"
  BY <1>1, <1>2, QuietUnseen DEF Unlock, Working, SealedKept
<1>3. CASE pc = "finish"
  <2>1. Phase = "applied" /\ Pending = op /\ Phase' = "none" /\ Pending' = NoOp /\ result' = "ok"
    BY <1>1, <1>3 DEF Phase, Pending, Unlock
  <2>2. Store' = Store
    BY <1>1, <1>3, StoreSame DEF SealedKept, KeysInUse
  <2>3. op \in Ops
    BY <1>3, UpdateFacts DEF Working
  <2>4. ASSUME op.kind = "edit", op.content \notin {c \in Contents : TermsOf[c] # {}}
        PROVE  Store[op.id] = Nothing
    <3>1. op.id \in Ids /\ TermsOf[op.content] = {}
      BY <2>3, <2>4, Fields
    <3> QED
      BY <1>3, <2>4, <3>1 DEF EditHides, Store, Found
  <2>5. Promise!Succeed
    BY <1>1, <2>1, <2>2, <2>4 DEF Promise!Succeed
  <2> QED
    BY <2>5 DEF Promise!Next
<1> QED
  BY <1>2, <1>3 DEF Unlock
-----------------------------------------------------------------------------
\* The steps of an update are seen at one of them, or as its failure.
LEMMA StepSeen ==
    ASSUME DbInv, EditHides, NEW good \in BOOLEAN,
           \/ WriteIndex(good) \/ StoreEntry(good) \/ RenameEntry(good) \/ Unlink(good)
           \/ \E p \in Terms \X Ids : RekeyStore(p, good)
           \/ RenameIndex(good)
    PROVE  [Promise!Next]_(Promise!vars)
<1>1. CASE ~ good
  <2>1. pc \in Working /\ Failed /\ UNCHANGED <<file, index>>
    BY <1>1 DEF WriteIndex, StoreEntry, RenameEntry, Unlink, RekeyStore, RenameIndex, ReadyToSwap, Working
  <2>2. pc' \notin Working /\ result' \in {result, "failed"}
    BY <2>1 DEF Failed, Working
  <2> QED
    BY <2>1, <2>2, CutLoses
<1>2. CASE good = TRUE
  BY <1>2, WriteIndexUnseen, WorkUnseen, RenameEntrySeen, UnlinkApplies, RenameIndexSeen
<1> QED
  BY <1>1, <1>2

\* A connection, an export and a restart are not seen.
LEMMA ConnectionUnseen ==
    ASSUME DbInv,
           \/ \E p \in Passwords : Connect(p)
           \/ Disconnect \/ Import \/ Restart \/ RemoveLock
           \/ \E matches \in SUBSET Ids : Find(matches)
           \/ Export \/ ExportEnd \/ ExportReply
           \/ \E i \in Ids : ExportNext(i)
    PROVE  UNCHANGED Promise!vars
<1>1. /\ pc \notin Working /\ pc' \notin Working /\ index' = index /\ result' = result
      /\ file' = file \/ \E ids : file' \in Tried(ids)
  BY DEF Connect, Disconnect, Import, Restart, RemoveLock, Find, Export, ExportEnd, ExportReply,
         ExportNext, ExportStops, Close, Working
<1>2. SealedKept
  BY <1>1, TriedKeeps DEF DbInv, SealedKept
<1> QED
  BY <1>1, <1>2, QuietUnseen

\* A request asks for an update, or is refused.
LEMMA RequestAsks ==
    ASSUME DbInv,
           \/ \E p \in Passwords : Passwd(p)
           \/ \E i \in Ids, c \in Contents : Add(i, c) \/ ImportNext(i, c)
           \/ \E i \in Ids, shown \in Ids, c \in Contents : Edit(i, shown, c)
           \/ \E i \in Ids : Delete(i)
           \/ Rekey
    PROVE  [Promise!Next]_(Promise!vars)
<1>1. CASE \E o : Begins(o) /\ SealedKept
  BY <1>1, BeginAsks
<1>2. CASE /\ pc = "open" /\ Close
           /\ UNCHANGED <<index, indexWork, lock, op, todo, work, sent, result, skipped, damaged,
                          lastKey>>
           /\ SealedKept /\ file' \in [Ids -> Sealed \cup {Absent, Blank}]
  BY <1>2, QuietUnseen DEF Close, Working
<1> QED
  BY <1>1, <1>2, RequestBegins

\* Every step of the files is a step of the store or is not seen.
LEMMA NextSeen == DbInv /\ EditHides /\ [Next]_vars => [Promise!Next]_(Promise!vars)
<1> SUFFICES ASSUME DbInv, EditHides, [Next]_vars PROVE [Promise!Next]_(Promise!vars)
  OBVIOUS
<1>1. CASE UNCHANGED vars
  <2>1. SealedKept /\ KeysInUse' = KeysInUse
    BY <1>1 DEF vars, SealedKept, KeysInUse
  <2> QED
    BY <1>1, <2>1, StoreSame, NothingSeen DEF vars, Phase, Pending
<1>2. CASE Crash
  <2>1. /\ pc' \notin Working /\ UNCHANGED <<file, index, result>>
    BY <1>2 DEF Crash, Working
  <2> QED
    BY <2>1, CutLoses, QuietUnseen DEF SealedKept
<1> QED
  BY <1>1, <1>2, StepSeen, WorkUnseen, UnlockSeen, ConnectionUnseen, RequestAsks
  DEF Next, Steps, Requests

\* The files start as the store does.
LEMMA InitSeen == Init => Promise!Init /\ EditHides
<1> SUFFICES ASSUME Init PROVE Promise!Init /\ EditHides
  OBVIOUS
<1>1. ListedIn(index) = {}
  BY DEF Init, ListedIn
<1>2. Store = [i \in Ids |-> Nothing] /\ Phase = "none" /\ Pending = NoOp
  BY <1>1 DEF Init, Store, Found, Phase, Pending
<1>3. index.password \in Passwords
  BY DEF Init
<1> QED
  BY <1>2, <1>3 DEF Init, Promise!Init, EditHides

(* Every update of db.c takes effect at one rename or unlink or not at all,   *)
(* one that returns ok did, and only rekey_db may lose entries: with all      *)
(* failures of loads, writes and renames and all stops the files implement    *)
(* CredentialStore.                                                           *)
THEOREM ImplementsStoreCorrect == Spec => ImplementsStore
<1>1. Init => DbInv
  BY InitInv
<1>2. DbInv /\ [Next]_vars => DbInv'
  BY StepInv
<1> QED
  BY <1>1, <1>2, InitSeen, EditHidesStep, NextSeen, PTL DEF Spec, ImplementsStore, Promise!Spec
=============================================================================
