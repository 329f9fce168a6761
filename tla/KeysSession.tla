------------------------------ MODULE KeysSession ------------------------------
(* A client of the keys server and the server: one connection, two streams of *)
(* records, and the commands of keys.c.  Each SSL_write is a record and an    *)
(* SSL_read takes from the first record what it asks for, or less, so that a  *)
(* reader that expects something else reads on in the middle of a message.  A *)
(* record is a sequence of cells; a number takes four, an entry, a value or   *)
(* the parameters of the key derivation one.  The connection may break, the   *)
(* user may refuse every prompt, and an update may fail, before or after the  *)
(* file of the entry was changed (KeysDb has its steps), a write to an export *)
(* file too.  The server serves one connection at a time and answers no ping  *)
(* meanwhile; a client finds it by pings that may be lost, and gives up after *)
(* some.  Nobody waits with a timeout, so that one whose peer is gone without *)
(* a word may wait for ever.                                                  *)
EXTENDS KeysIndex, FiniteSets, TLC

CONSTANTS
  Ids,       \* the random names of entries
  Entries,   \* what the user may enter
  Values,    \* what the user may search for, never empty
  Limits,    \* the numbers of matches the user may ask for
  Passwords, \* the keys derived from passwords
  Files,     \* the export files there may be
  Retries,   \* the pings a client sends
  MaxFaults, \* bound: updates, loads and writes that fail, connections that break
  Zero       \* a byte of value 0

\* A byte of value 0 is no other number, what is searched for are characters, the
\* values of an entry are what parse_entry made of them, and what an export holds
\* is entries.
ASSUME KeysSessionAssumption ==
  /\ Zero \notin Nat
  /\ Entries \subseteq EntryText
  /\ Values \subseteq Seq(Nat)
  /\ Files \subseteq Seq([entry : EntryText])
  /\ Limits \subseteq Nat

VARIABLES
  index,    \* the terms of the index
  file,     \* the entry of each file, if it can be loaded
  password, \* the password that opens the index
  export,   \* the export file of the client
  toServer, \* records on the way to the server
  toClient, \* records on the way to the client
  clientOn, \* the client has not closed the connection
  serverOn, \* the server has not closed the connection
  server,   \* what the server waits for
  request,  \* the request it is reading
  client,   \* what the client is doing
  job,      \* the command the client was started with
  search,   \* the search for the server: pings sent, one to answer, a pong to read
  shown,    \* the entries the client has received
  unsent,   \* the entries an import has still to send
  code,     \* what the client returned
  served,   \* auxiliary: what the server did in this session
  deaf,     \* who does not learn that the connection is broken
  damaged,  \* auxiliary: entries an update failed for half-way
  faults    \* bound: the faults so far
db == <<index, file, password, damaged>>
link == <<toServer, toClient, clientOn, serverOn>>
serving == <<server, request, served>>
using == <<client, job, shown, unsent, code, export>>
vars == <<db, link, serving, using, search, deaf, faults>>

Fault == faults < MaxFaults /\ faults' = faults + 1

\* enum cmd
Cmd == [add |-> 1, delete |-> 2, edit |-> 3, find |-> 4, passwd |-> 5, rekey |-> 6,
        export |-> 7, import |-> 8]
OK == 0

Nobody == [cmd |-> "none"]
NoSearch == [sent |-> 0, ping |-> FALSE, pong |-> FALSE]
Absent == <<>>
Unreadable == <<[pass |-> TRUE, val |-> <<>>]>>
Torn == [entry |-> Unreadable]  \* what a short write leaves in an export file
Loads(i) == file[i] \notin {Absent, Unreadable}
Unused(i) == file[i] = Absent /\ i \notin ListedIds(index)

-------------------------------------------------------------------------------
\* Streams

KekLen == 16  \* bound: longer than a message, as KEY_LEN is
Word(n) == <<Zero, Zero, Zero, IF n = 0 THEN Zero ELSE n>>
Message(cmd, arg, len) == Word(cmd) \o Word(arg) \o Word(len)
Number(cell) == IF cell = Zero THEN 0 ELSE cell
NumberIn(cells) == IF Len(cells) = 4 THEN Number(cells[4]) ELSE 0

\* SSL_read: what is read, and what is left of the stream.
Taken(stream, n) ==
  IF stream = <<>> THEN <<>> ELSE SubSeq(Head(stream), 1, IF Len(Head(stream)) < n THEN Len(Head(stream)) ELSE n)
Left(stream, n) ==
  IF stream = <<>> THEN <<>>
  ELSE IF Len(Head(stream)) <= n THEN Tail(stream)
  ELSE <<SubSeq(Head(stream), n + 1, Len(Head(stream)))>> \o Tail(stream)

\* What is added to what there is.
Over(new, old) ==
  [x \in DOMAIN new \cup DOMAIN old |-> IF x \in DOMAIN new THEN new[x] ELSE old[x]]

\* A reader waits for a record or for the end of the stream; what is written to
\* an end that is closed is lost.
ServerHears == ~ clientOn /\ "server" \notin deaf
ServerReads == toServer # <<>> \/ ServerHears
ClientReads == toClient # <<>> \/ (~ serverOn /\ "client" \notin deaf)
SentBack(records) == IF clientOn THEN toClient \o records ELSE toClient
SentOn(records) == IF serverOn THEN toServer \o records ELSE toServer

-------------------------------------------------------------------------------
\* The database

Stores(i, e) == index' = UpdateIndex(index, i, e) /\ file' = [file EXCEPT ![i] = e]

(* update_db: an entry and the index are both new, or the index is not.       *)
Update(i, e, good) ==
  /\ IF good
     THEN Stores(i, e) /\ damaged' = damaged \ {i} /\ UNCHANGED faults
     ELSE /\ Fault
          /\ UNCHANGED index
          /\ \/ UNCHANGED <<file, damaged>>
             \/ file' = [file EXCEPT ![i] = e] /\ damaged' = damaged \cup {i}
  /\ UNCHANGED password

Delete(i, good) ==
  /\ IF good
     THEN /\ index' = UpdateIndex(index, i, <<>>)
          /\ file' = [file EXCEPT ![i] = Absent]
          /\ damaged' = damaged \ {i} /\ UNCHANGED faults
     ELSE /\ Fault
          /\ UNCHANGED index
          /\ \/ UNCHANGED <<file, damaged>>
             \/ file' = [file EXCEPT ![i] = Absent] /\ damaged' = damaged \cup {i}
  /\ UNCHANGED password

\* rekey_db: entries written with a key that did not become the key of the
\* database are lost, and so are those that could not be loaded, which are left
\* out and written with no new key.
Rekey(good) ==
  /\ UNCHANGED <<index, password>>
  /\ \E lost \in SUBSET {i \in ListedIds(index) : Loads(i)} :
       /\ file' = [i \in Ids |-> IF i \in lost THEN Unreadable ELSE file[i]]
       /\ damaged' = damaged \cup lost
       /\ IF good /\ lost = {} THEN UNCHANGED faults ELSE Fault

UpdateKek(p, good) ==
  /\ IF good THEN password' = p /\ UNCHANGED faults
     ELSE Fault /\ UNCHANGED password
  /\ UNCHANGED <<index, file, damaged>>

-------------------------------------------------------------------------------
\* The server

Init ==
  /\ index = <<>> /\ file = [i \in Ids |-> Absent] /\ damaged = {}
  /\ password \in Passwords
  /\ export = <<>>
  /\ toServer = <<>> /\ toClient = <<>> /\ clientOn = FALSE /\ serverOn = FALSE
  /\ server = "accept" /\ request = Nobody /\ served = <<>>
  /\ client = "off" /\ job = Nobody /\ shown = <<>> /\ unsent = <<>> /\ code = 1
  /\ search = NoSearch /\ deaf = {}
  /\ faults = 0

(* accept and start: the parameters for the key are sent.                     *)
Accept ==
  /\ server = "accept" /\ serverOn
  /\ toClient' = SentBack(<<<<"kdfp">>>>)
  /\ server' = "kek"
  /\ UNCHANGED <<db, toServer, clientOn, serverOn, request, served, using, search, deaf, faults>>

\* The server closes the connection and waits for the next.
HangUp ==
  /\ server' = "accept" /\ request' = Nobody
  /\ serverOn' = FALSE /\ toServer' = <<>>
  /\ deaf' = deaf \ {"server"}

\* Mutant of ReadKek: with another key the server waits for the right one.
ReadKekAgain ==
  /\ server = "kek" /\ ServerReads
  /\ IF Len(Taken(toServer, KekLen)) = KekLen /\ Taken(toServer, KekLen)[1] = password
     THEN server' = "loop" /\ toServer' = Left(toServer, KekLen)
     ELSE UNCHANGED <<server, toServer>>
  /\ UNCHANGED <<db, toClient, clientOn, serverOn, request, served, using, search, deaf, faults>>

(* load_index: the index opens with the key, or the connection ends.          *)
ReadKek ==
  /\ server = "kek" /\ ServerReads
  /\ IF Len(Taken(toServer, KekLen)) = KekLen /\ Taken(toServer, KekLen)[1] = password
     THEN /\ server' = "loop" /\ toServer' = Left(toServer, KekLen)
          /\ UNCHANGED <<request, serverOn, deaf>>
     ELSE HangUp
  /\ UNCHANGED <<db, toClient, clientOn, served, using, search, faults>>

(* loop: a message, and what it announces.                                    *)
ReadMessage ==
  /\ server = "loop" /\ ServerReads
  /\ LET msg == Taken(toServer, 12)
     IN IF Len(msg) = 12
        THEN /\ request' = [cmd |-> Number(msg[4]), arg |-> Number(msg[8])]
             /\ server' = IF Number(msg[12]) > 0 THEN "body"
                          ELSE IF msg[4] = Cmd.import THEN "import" ELSE "serve"
             /\ toServer' = Left(toServer, 12)
             /\ UNCHANGED <<serverOn, deaf>>
        ELSE HangUp
  /\ UNCHANGED <<db, toClient, clientOn, served, using, search, faults>>

(* srecv: an add brings an entry, an edit an entry and a value, the others a  *)
(* value.  If the value of an edit does not come, the search is made with     *)
(* none, which the server survives only if it meets no term to look into.     *)
ReadBody ==
  /\ server = "body" /\ ServerReads
  /\ IF toServer = <<>> THEN HangUp
     ELSE /\ toServer' = Left(toServer, 1)
          /\ request' = Over(Taken(toServer, 1)[1], request)
          /\ server' = IF request.cmd = Cmd.edit THEN "value" ELSE "serve"
          /\ UNCHANGED <<serverOn, deaf>>
  /\ UNCHANGED <<db, toClient, clientOn, served, using, search, faults>>

ReadValue ==
  /\ server = "value" /\ ServerReads
  /\ \/ /\ toServer # <<>>
        /\ toServer' = Left(toServer, 1)
        /\ request' = Over(Taken(toServer, 1)[1], request)
        /\ server' = "serve"
        /\ UNCHANGED <<serverOn, search, deaf>>
     \/ toServer = <<>> /\ HangUp /\ UNCHANGED search
     \/ /\ toServer = <<>> /\ index # <<>>
        /\ server' = "down" /\ request' = Nobody /\ serverOn' = FALSE
        /\ search' = [search EXCEPT !.ping = FALSE]
        /\ deaf' = deaf \ {"server"} /\ UNCHANGED toServer
  /\ UNCHANGED <<db, toClient, clientOn, served, using, faults>>

Restart ==
  /\ server = "down"
  /\ server' = "accept"
  /\ UNCHANGED <<db, link, request, served, using, search, deaf, faults>>

\* The last message of a command; all but find end the connection.
Reply(ok, count, before) ==
  toClient' = SentBack(Append(before, Message(IF ok THEN OK ELSE 1, count, 0)))
Done(what) == served' = Append(served, what)
Serving(cmd) == server = "serve" /\ request.cmd = cmd

\* Mutant of ServeAdd: the result of update_db is not looked at.
ServeAddAnyway(i, good) ==
  /\ Serving(Cmd.add) /\ Unused(i)
  /\ Update(i, request.entry, good)
  /\ Reply(TRUE, 0, <<>>)
  /\ Done([cmd |-> Cmd.add, ok |-> good, entry |-> request.entry])
  /\ HangUp
  /\ UNCHANGED <<clientOn, using, search>>

ServeAdd(i, good) ==
  /\ Serving(Cmd.add) /\ Unused(i)
  /\ Update(i, request.entry, good)
  /\ Reply(good, 0, <<>>)
  /\ Done([cmd |-> Cmd.add, ok |-> good, entry |-> request.entry])
  /\ HangUp
  /\ UNCHANGED <<clientOn, using, search>>

\* An edit changes the first match of at most two, a delete the only one.
ServeEdit(good) ==
  /\ Serving(Cmd.edit)
  /\ LET matches == SearchIndex(index, request.value, 2)
     IN IF matches # <<>>
        THEN /\ Update(matches[1], request.entry, good)
             /\ Reply(good, Len(matches), <<>>)
             /\ Done([cmd |-> Cmd.edit, ok |-> good, entry |-> request.entry, old |-> file[matches[1]]])
        ELSE Reply(FALSE, 0, <<>>) /\ UNCHANGED <<db, served, faults>>
  /\ HangUp
  /\ UNCHANGED <<clientOn, using, search>>

ServeDelete(good) ==
  /\ Serving(Cmd.delete)
  /\ LET matches == SearchIndex(index, request.value, 2)
     IN IF Len(matches) = 1 /\ Loads(matches[1])
        THEN /\ Delete(matches[1], good)
             /\ Reply(good, 1, <<>>)
             /\ Done([cmd |-> Cmd.delete, ok |-> good])
        ELSE Reply(FALSE, Len(matches), <<>>) /\ UNCHANGED <<db, served, faults>>
  /\ HangUp
  /\ UNCHANGED <<clientOn, using, search>>

\* Mutant of FindReplies: the entries are sent from the last to the first.
FindRepliesBackwards(matches) ==
  FlattenSeq([k \in DOMAIN matches |->
    IF Loads(matches[Len(matches) + 1 - k])
    THEN <<Message(OK, Len(matches), 1), <<[entry |-> file[matches[Len(matches) + 1 - k]]]>>>> ELSE <<>>])

\* find_entry: those that can be loaded, each after a message.
FindReplies(matches) ==
  FlattenSeq([k \in DOMAIN matches |->
    IF Loads(matches[k]) THEN <<Message(OK, Len(matches), 1), <<[entry |-> file[matches[k]]]>>>> ELSE <<>>])

ServeFind ==
  /\ Serving(Cmd.find)
  /\ LET matches == SearchIndex(index, request.value, request.arg)
     IN /\ Reply(TRUE, Len(matches), FindReplies(matches))
        /\ Done([cmd |-> Cmd.find])
  /\ server' = "loop" /\ request' = Nobody
  /\ UNCHANGED <<db, toServer, clientOn, serverOn, using, search, deaf, faults>>

ServePasswd(good) ==
  /\ Serving(Cmd.passwd)
  /\ UpdateKek(request.value, good)
  /\ Reply(good, 0, <<>>)
  /\ Done([cmd |-> Cmd.passwd, ok |-> good])
  /\ HangUp
  /\ UNCHANGED <<clientOn, using, search>>

ServeRekey(good) ==
  /\ Serving(Cmd.rekey)
  /\ Rekey(good)
  /\ Reply(good, 0, <<>>)
  /\ Done([cmd |-> Cmd.rekey, ok |-> good])
  /\ HangUp
  /\ UNCHANGED <<clientOn, using, search>>

\* Mutant of AllSent: the export is good if there was something to send.
AllSentIfAny(ids, n) == ids # <<>>

\* An export is good if every entry there is was sent.
AllSent(ids, n) == ids # <<>> /\ n = Len(ids)

\* The numbers of entries an export may send: up to one that cannot be loaded.
Sendable(ids) ==
  {n \in 0..Len(ids) : \A k \in 1..n : Loads(ids[k])}
SizedEntries(ids, n) == FlattenSeq([k \in 1..n |-> <<Word(1), <<[entry |-> file[ids[k]]]>>>>])

(* export_db: each entry after its size, a size of 0, and the reply; under a  *)
(* lock that is held the reply alone, which says that all is well if there is *)
(* something to send.                                                         *)
ServeExport(n) ==
  /\ Serving(Cmd.export)
  /\ LET ids == UniqueIds(index)
     IN \/ /\ n \in Sendable(ids)
           /\ IF n + 1 \in Sendable(ids) THEN Fault ELSE UNCHANGED faults
           /\ Reply(AllSent(ids, n), 0, Append(SizedEntries(ids, n), Word(0)))
           /\ Done([cmd |-> Cmd.export, ok |-> AllSent(ids, n)])
        \/ /\ n = 0 /\ Fault
           /\ Reply(ids # <<>>, 0, <<>>)
           /\ UNCHANGED served
  /\ HangUp
  /\ UNCHANGED <<db, clientOn, using, search>>

(* import_db: entries come until a size of 0 or the end of the stream, and    *)
(* are added one by one until one fails.                                      *)
ImportEnds ==
  /\ server = "import" /\ ServerReads
  /\ NumberIn(Taken(toServer, 4)) = 0 \/ Left(toServer, 4) = <<>>
  /\ NumberIn(Taken(toServer, 4)) # 0 => ServerHears
  /\ Reply(TRUE, request.arg, <<>>)
  /\ Done([cmd |-> Cmd.import, ok |-> TRUE, count |-> request.arg])
  /\ HangUp
  /\ UNCHANGED <<db, clientOn, using, search, faults>>

ImportAdds(i, good) ==
  /\ server = "import" /\ NumberIn(Taken(toServer, 4)) # 0 /\ Left(toServer, 4) # <<>>
  /\ Unused(i)
  /\ Update(i, Left(toServer, 4)[1][1].entry, good)
  /\ IF good
     THEN /\ request' = [request EXCEPT !.arg = @ + 1]
          /\ toServer' = Left(Left(toServer, 4), 1)
          /\ UNCHANGED <<server, serverOn, toClient, served, deaf>>
     ELSE /\ Reply(FALSE, request.arg + 1, <<>>)
          /\ Done([cmd |-> Cmd.import, ok |-> FALSE, count |-> request.arg + 1])
          /\ HangUp
  /\ UNCHANGED <<clientOn, using, search>>

-------------------------------------------------------------------------------
\* The client

\* Bound: a command that adds entries is only given if there are names left.
RoomFor(n) == Cardinality({i \in Ids : Unused(i)}) >= n

(* main: a command, the value it is about, and the limit of a search.  An     *)
(* import is of the export just made or of one made before.  Bound: the       *)
(* server has served what the client before has sent.                         *)
Start(cmd, value, limit) ==
  /\ client = "off" /\ toServer = <<>> /\ server \notin {"serve", "import"}
  /\ cmd = Cmd.add => RoomFor(1)
  /\ IF cmd = Cmd.import
     THEN export' \in Files \cup {export} /\ Zero \notin Range(export') /\ RoomFor(Len(export'))
     ELSE export' = <<>>
  /\ client' = "search"
  /\ job' = [cmd |-> cmd, value |-> value, limit |-> limit]
  /\ shown' = <<>> /\ unsent' = <<>> /\ code' = 1 /\ served' = <<>>
  /\ UNCHANGED <<db, link, server, request, search, deaf, faults>>

End(status) ==
  /\ code' = status
  /\ client' = "off" /\ clientOn' = FALSE /\ toClient' = <<>>
  /\ deaf' = deaf \ {"client"}

(* find_server: a ping at first and whenever no pong that verifies has come   *)
(* in time.  A ping is lost if there is no server, and waits if the server is *)
(* busy.  All pings of a search are the same, and what is still under way     *)
(* when it is over reaches nobody.                                            *)
Ping ==
  /\ client = "search" /\ search.sent < Retries
  /\ search' = [search EXCEPT !.sent = @ + 1, !.ping = server # "down"]
  /\ UNCHANGED <<db, link, serving, using, deaf, faults>>

\* pong: between two connections the server answers with its address.  A ping
\* that is lost on the way is taken for a pong that is.
Pong ==
  /\ server = "accept" /\ ~ serverOn /\ search.ping
  /\ \E arrives \in BOOLEAN :
       search' = [search EXCEPT !.ping = FALSE, !.pong = @ \/ arrives]
  /\ UNCHANGED <<db, link, serving, using, deaf, faults>>

GiveUp ==
  /\ client = "search" /\ search.sent = Retries
  /\ search' = NoSearch
  /\ End(1)
  /\ UNCHANGED <<db, toServer, serverOn, serving, job, shown, unsent, export, faults>>

\* A pong that verifies is read; one of another server is a pong that is lost.
Found == client = "search" /\ search.pong

(* client_socket: the address of the pong is connected to, or the client ends. *)
Connect(good) ==
  /\ Found
  /\ search' = NoSearch
  /\ IF good
     THEN /\ client' = "hello" /\ clientOn' = TRUE /\ serverOn' = TRUE
          /\ toServer' = <<>> /\ toClient' = <<>>
          /\ UNCHANGED <<code, deaf, faults>>
     ELSE /\ Fault
          /\ End(1)
          /\ UNCHANGED <<toServer, serverOn>>
  /\ UNCHANGED <<db, serving, job, shown, unsent, export>>

Asks(cmd, arg, what) == <<Message(cmd, arg, 1), <<what>>>>
FirstRequest ==
  CASE job.cmd = Cmd.delete -> Asks(Cmd.delete, 0, [value |-> job.value])
    [] job.cmd = Cmd.edit -> Asks(Cmd.find, 2, [value |-> job.value])
    [] job.cmd = Cmd.find -> Asks(Cmd.find, job.limit + 1, [value |-> job.value])
    [] job.cmd \in {Cmd.rekey, Cmd.export, Cmd.import} -> <<Message(job.cmd, 0, 0)>>
    [] OTHER -> <<>>
NextStep ==
  CASE job.cmd = Cmd.add -> "editor"
    [] job.cmd \in {Cmd.edit, Cmd.find} -> "matches"
    [] job.cmd \in {Cmd.delete, Cmd.rekey} -> "response"
    [] OTHER -> "prompt"

(* client: the key, if the parameters came and the user gave a password, and  *)
(* the request in any case, unless the user has to enter something first.     *)
Hello(kek) ==
  /\ client = "hello" /\ ClientReads
  /\ LET kekRecord == IF kek \in Passwords /\ toClient # <<>> THEN <<[k \in 1..KekLen |-> kek]>> ELSE <<>>
     IN toServer' = SentOn(kekRecord \o FirstRequest)
  /\ toClient' = Left(toClient, 1)
  /\ client' = NextStep
  /\ UNCHANGED <<db, clientOn, serverOn, serving, job, shown, unsent, code, export, search, deaf, faults>>

(* editor: the user gives an entry, or leaves with nothing.                   *)
Edited(e) ==
  /\ client = "editor"
  /\ job' = Over([entry |-> e], job)
  /\ toServer' = SentOn(IF job.cmd = Cmd.add THEN Asks(Cmd.add, 0, [entry |-> e])
                        ELSE Append(Asks(Cmd.edit, 1, [entry |-> e]), <<[value |-> job.value]>>))
  /\ client' = "response"
  /\ UNCHANGED <<db, toClient, clientOn, serverOn, serving, shown, unsent, code, export, search, deaf, faults>>

NewPasswd(p) ==
  /\ client = "prompt" /\ job.cmd = Cmd.passwd
  /\ job' = Over([password |-> p], job)
  /\ toServer' = SentOn(Asks(Cmd.passwd, 0, [value |-> p]))
  /\ client' = "response"
  /\ UNCHANGED <<db, toClient, clientOn, serverOn, serving, shown, unsent, code, export, search, deaf, faults>>

\* The export file is made anew before anything has come.
ExportPasswd ==
  /\ client = "prompt" /\ job.cmd = Cmd.export
  /\ export' = <<>>
  /\ client' = "receiving"
  /\ UNCHANGED <<db, link, serving, job, shown, unsent, code, search, deaf, faults>>

\* With a wrong password not even the first entry can be decrypted.
ImportPasswd(right) ==
  /\ client = "prompt" /\ job.cmd = Cmd.import
  /\ unsent' = IF right THEN export ELSE <<>>
  /\ client' = "sending"
  /\ UNCHANGED <<db, link, serving, job, shown, code, export, search, deaf, faults>>

Refused ==
  /\ client \in {"editor", "prompt"}
  /\ End(1)
  /\ UNCHANGED <<db, toServer, serverOn, serving, job, shown, unsent, export, search, faults>>

(* find_entries: entries until a message without one.  What can be shown is   *)
(* a success, also if the connection broke.                                   *)
ReadMatch ==
  /\ client = "matches" /\ ClientReads
  /\ LET msg  == Taken(toClient, 12)
         rest == Left(toClient, 12)
     IN IF Len(msg) = 12 /\ Number(msg[12]) > 0
        THEN /\ shown' = IF rest = <<>> THEN shown ELSE Append(shown, rest[1][1].entry)
             /\ toClient' = Left(rest, 1)
             /\ UNCHANGED <<client, clientOn, code, deaf>>
        ELSE /\ UNCHANGED shown
             /\ IF job.cmd = Cmd.edit /\ shown # <<>>
                THEN client' = "editor" /\ toClient' = rest /\ UNCHANGED <<clientOn, code, deaf>>
                ELSE End(IF job.cmd = Cmd.find THEN OK ELSE 1)
  /\ UNCHANGED <<db, toServer, serverOn, serving, job, unsent, export, search, faults>>

(* recv_export: entries until a size of 0.                                    *)
Receive ==
  /\ client = "receiving" /\ ClientReads
  /\ LET size == NumberIn(Taken(toClient, 4))
         rest == Left(toClient, 4)
     IN IF size # 0 /\ rest # <<>>
        THEN export' = export \o Taken(rest, 1) /\ toClient' = Left(rest, 1) /\ UNCHANGED client
        ELSE toClient' = rest /\ client' = "response" /\ UNCHANGED export
  /\ UNCHANGED <<db, toServer, clientOn, serverOn, serving, job, shown, unsent, code, search, deaf, faults>>

\* The export file cannot be made, or a write to it fails: a short one is none
\* that is noticed, after another what is left of the export is not read.
Unmade == <<Zero, Zero>>
ReceiveFails ==
  /\ client = "receiving" /\ ClientReads
  /\ Fault
  /\ \/ /\ export = <<>> /\ export' = Unmade
        /\ client' = "response" /\ UNCHANGED toClient
     \/ /\ NumberIn(Taken(toClient, 4)) # 0 /\ Left(toClient, 4) # <<>>
        /\ toClient' = Left(Left(toClient, 4), 1)
        /\ \/ export' = Append(export, Torn) /\ UNCHANGED client
           \/ client' = "response" /\ UNCHANGED export
  /\ UNCHANGED <<db, toServer, clientOn, serverOn, serving, job, shown, unsent, code, search, deaf>>

(* send_export: the entries of the file, each after its size, while they can  *)
(* be read, then a size of 0.  No entry sent is a failure.                    *)
CanRead == unsent # <<>> /\ Head(unsent) # Torn
Send ==
  /\ client = "sending" /\ CanRead
  /\ toServer' = SentOn(<<Word(1), <<Head(unsent)>>>>)
  /\ shown' = Append(shown, Head(unsent)) /\ unsent' = Tail(unsent)
  /\ UNCHANGED <<db, toClient, clientOn, serverOn, serving, client, job, code, export, search, deaf, faults>>

SendEnd ==
  /\ client = "sending"
  /\ IF CanRead THEN Fault ELSE UNCHANGED faults
  /\ toServer' = SentOn(<<Word(0)>>)
  /\ IF shown # <<>> THEN client' = "response" /\ UNCHANGED <<clientOn, toClient, code, deaf>>
     ELSE End(1)
  /\ UNCHANGED <<db, serverOn, serving, job, shown, unsent, export, search>>

(* response: the status, if a whole message comes.                            *)
Response ==
  /\ client = "response" /\ ClientReads
  /\ End(IF Len(Taken(toClient, 12)) = 12 THEN Number(Taken(toClient, 12)[4]) ELSE 1)
  /\ UNCHANGED <<db, toServer, serverOn, serving, job, shown, unsent, export, search, faults>>

-------------------------------------------------------------------------------
\* The connection breaks; what had arrived can still be read.  An end that is not
\* told and has nothing to send never finds out.
Break ==
  /\ clientOn /\ serverOn /\ server # "accept"
  /\ Fault
  /\ clientOn' = FALSE /\ serverOn' = FALSE
  /\ deaf' \in SUBSET {"client", "server"}
  /\ \E k \in 0..Len(toServer) : toServer' = SubSeq(toServer, 1, k)
  /\ \E k \in 0..Len(toClient) : toClient' = SubSeq(toClient, 1, k)
  /\ UNCHANGED <<db, serving, using, search>>

ServerStep ==
  \/ Pong \/ Accept \/ ReadKek \/ ReadMessage \/ ReadBody \/ ReadValue
  \/ \E good \in BOOLEAN :
       \/ ServeEdit(good) \/ ServeDelete(good) \/ ServePasswd(good) \/ ServeRekey(good)
       \/ \E i \in Ids : ServeAdd(i, good) \/ ImportAdds(i, good)
  \/ ServeFind
  \/ \E n \in 0..Cardinality(Ids) : ServeExport(n)
  \/ ImportEnds

Searching == Ping \/ GiveUp \/ \E good \in BOOLEAN : Connect(good)
ClientReading == Searching \/ ReadMatch \/ Receive \/ ReceiveFails \/ Send \/ SendEnd \/ Response
UserStep ==
  \/ \E kek \in Passwords \cup {Zero} : Hello(kek)
  \/ \E e \in Entries : Edited(e)
  \/ \E p \in Passwords : NewPasswd(p)
  \/ ExportPasswd
  \/ \E right \in BOOLEAN : ImportPasswd(right)
  \/ Refused

Given ==
  \/ \E cmd \in {Cmd.add, Cmd.passwd, Cmd.rekey, Cmd.export, Cmd.import} : Start(cmd, <<>>, 1)
  \/ \E cmd \in {Cmd.delete, Cmd.edit}, value \in Values : Start(cmd, value, 1)
  \/ \E value \in Values, limit \in Limits : Start(Cmd.find, value, limit)

Next == ServerStep \/ ClientReading \/ UserStep \/ Given \/ Restart \/ Break

Spec == Init /\ [][Next]_vars

(* Both programs go on, the server is started again if it goes down, and the  *)
(* user answers every prompt.                                                 *)
FairSpec ==
  /\ Spec
  /\ WF_vars(ServerStep) /\ WF_vars(ClientReading) /\ WF_vars(UserStep) /\ WF_vars(Restart)

-------------------------------------------------------------------------------
\* Properties

Ended == client = "off" /\ code = OK

(* A command that changes something returns 0 only if the server did it: this *)
(* command, once, with what the user entered, and without a failure, however  *)
(* the connection and the reading of its messages went.                       *)
OkIsTrue ==
  Ended /\ job.cmd \in {Cmd.add, Cmd.edit, Cmd.delete, Cmd.passwd, Cmd.rekey} =>
    /\ served # <<>> /\ Last(served).cmd = job.cmd /\ Last(served).ok
    /\ \A k \in 1..(Len(served) - 1) : served[k].cmd = Cmd.find
    /\ job.cmd \in {Cmd.add, Cmd.edit} => Last(served).entry = job.entry
    /\ job.cmd = Cmd.passwd => password = job.password

(* The entry that an edit replaces is the first one the user was shown, if    *)
(* the one it replaces can be loaded: the second search finds what the first  *)
(* found.  And the text the user is given to edit says what the entry holds:  *)
(* parsed as it is, it gives the same entry, unless it has so many and short  *)
(* fields that they overrun the memory parse_entry has for them.              *)
EditsWhatWasShown ==
  /\ \A k \in DOMAIN served :
       served[k].cmd = Cmd.edit /\ served[k].old \notin {Absent, Unreadable} => served[k].old = shown[1]
  /\ client = "editor" /\ job.cmd = Cmd.edit => 
       LET text == PrintEntry(shown[1])
       IN ParseEntry(text) = IF Len(shown[1]) <= Slots(text) THEN shown[1] ELSE Overrun

(* A search that is not cut off at its limit shows every entry with a value   *)
(* that contains what was searched for, in upper or lower case, and no other. *)
Contain(e, value) == \E val \in ValuesOf(e) : TermContains(val, value)
FindsEveryMatch ==
  Ended /\ job.cmd = Cmd.find /\ faults = 0 /\ Len(shown) <= job.limit /\ served # <<>> =>
    Range(shown) = {file[i] : i \in {k \in Ids : Contain(file[k], job.value)}}

(* An export that returns 0 and could be written to a file holds every entry *)
(* that is listed, once and in order, or in its place what a short write left *)
(* of it.  And an import that returns 0 has added every entry of the file up  *)
(* to the first that cannot be read, and all if nothing failed.               *)
CopyIsComplete ==
  Ended =>
    /\ job.cmd = Cmd.export /\ export # Unmade =>
         LET ids == UniqueIds(index)
         IN /\ Len(export) = Len(ids)
            /\ \A k \in DOMAIN ids : export[k] \in {[entry |-> file[ids[k]]], Torn}
    /\ job.cmd = Cmd.import =>
         /\ Last(served).cmd = Cmd.import /\ Last(served).count = Len(shown)
         /\ \A k \in DOMAIN shown : shown[k] = export[k]
         /\ Len(shown) < Len(export) => faults > 0 \/ export[Len(shown) + 1] = Torn

(* After any updates, failed ones included, an entry is listed under exactly  *)
(* the values it has, in one term for each and once in it; and what will be   *)
(* written of the index fits the size computed for it and is read back as it  *)
(* is, entries too.                                                           *)
IndexListsTheValues ==
  /\ \A i \in Ids \ damaged :
       \A str \in {index[k].str : k \in DOMAIN index} \cup ValuesOf(file[i]) :
         i \in ListedUnder(index, str) <=> str \in ValuesOf(file[i])
  /\ \A k, n \in DOMAIN index : index[k].str = index[n].str => k = n
  /\ \A k \in DOMAIN index : index[k].ids # <<>> /\ IsInjective(index[k].ids)
  /\ LoadIndex(IndexCells(index)) = index
  /\ \A i \in Ids : Loads(i) => ReadEntry(WriteEntry(file[i])) = file[i]
  /\ \A e \in Entries \cup {<<>>}, i \in Ids : IndexSize(UpdateIndex(index, i, e)) <= UpdateSize(index, e)

(* Every command comes to an end, also if no server answers, and the server   *)
(* comes back from every connection, also if its client is gone: unless it is *)
(* stuck in a read from a peer it does not know to be gone.                   *)
ServerStuck == "server" \in deaf /\ server \in {"kek", "loop", "body", "value", "import"}
ClientStuck == "client" \in deaf /\ client \in {"hello", "matches", "receiving", "response"} /\ toClient = <<>>
SessionEnds ==
  /\ client # "off" ~> client = "off" \/ ClientStuck
  /\ server # "accept" ~> server = "accept" \/ ServerStuck
===============================================================================
